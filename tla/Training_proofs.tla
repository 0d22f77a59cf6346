-------------------------- MODULE Training_proofs --------------------------
(***************************************************************************)
(* Proofs about Training, for any jobs, callers, scores and iterations.    *)
(***************************************************************************)
EXTENDS Training, FiniteSetFacts

StepPcs == {"claim", "start", "open", "deactivate", "insert", "apply", "complete",
            "finish", "activate", "reply"}

Has(v) == resource[v] # Absent

(* A request works for a job that exists, and knows only numbers that the  *)
(* job has reached.                                                        *)
RequestInv(s) ==
    step[s] # Idle =>
      /\ job[step[s].job] # Absent
      /\ step[s] \in Stepping => step[s].n <= job[step[s].job].at

(* A claimed number belongs to one request.                                *)
Owns(s) == step[s] \in Stepping /\ step[s].pc # "claim"

OwnInv ==
    /\ \A s \in Steps : Owns(s) => step[s].n > 0
    /\ \A s, t \in Steps :
          Owns(s) /\ Owns(t) /\ step[s].job = step[t].job /\ step[s].n = step[t].n => s = t

(* Nobody else touches the row of the iteration that a step evaluated.     *)
Evaluating == {"deactivate", "insert", "apply", "complete", "finish"}

RowInv(s) ==
    step[s].pc \in Evaluating =>
        /\ iteration[<<step[s].job, step[s].n>>] \in Evaluated
        /\ iteration[<<step[s].job, step[s].n>>].score = step[s].score

(* Versions are written in order, the ones after 0 all for one job, and    *)
(* that job has at least as many claims as versions and steps that may     *)
(* still write one.                                                        *)
Claimed(s) == step[s].pc \in {"start", "open", "deactivate", "insert"}
Pending(j) == {step[s].n : s \in {t \in Steps : Claimed(t) /\ step[t].job = j}}

VersionsInv ==
    /\ \A j \in Jobs : job[j] # Absent => Has(0)
    /\ \A v \in Versions : Has(v) => job[resource[v].of] # Absent
    /\ \A v, w \in Versions : Has(v) /\ w <= v => Has(w)
    /\ \A v, w \in Versions \ {0} : Has(v) /\ Has(w) => resource[v].of = resource[w].of
    /\ \A v \in Versions \ {0} :
          Has(v) => v + Cardinality(Pending(resource[v].of)) <= job[resource[v].of].at

CurInv(s) ==
    step[s] \in Stepping /\ step[s].cur # Null =>
        Has(step[s].cur) /\ resource[step[s].cur].of = step[s].job

(* The second of a step's two statements can only write the next version   *)
(* when no version is active since the first.                              *)
InsertInv(s) ==
    At(s, "insert") /\ ~Has(NextVersion(s)) => \A v \in Versions : Has(v) => ~resource[v].active

BaseInv ==
    /\ TypeOK
    /\ OwnInv
    /\ VersionsInv
    /\ \A s \in Steps : RequestInv(s) /\ RowInv(s) /\ CurInv(s) /\ InsertInv(s)

-----------------------------------------------------------------------------
LEMMA StepAt ==
    ASSUME TypeOK, NEW s \in Steps
    PROVE  /\ step[s] \in {Idle} \cup Routes \cup Stepping
           /\ step[s] \in Stepping <=> step[s].pc \in StepPcs
           /\ step[s] \in Routes <=> step[s].pc \in {"mark", "send", "load"}
           /\ step[s] = Idle <=> step[s].pc = "idle"
           /\ step[s] # Idle => step[s].job \in Jobs
  BY DEF TypeOK, Idle, Routes, Stepping, StepPcs

LEMMA JobAt ==
    ASSUME TypeOK, NEW j \in Jobs
    PROVE  /\ job[j] \in {Absent} \cup Rows
           /\ job[j] \in Rows <=> job[j] # Absent
           /\ job[j] = Absent <=> job[j].st = "absent"
  BY DEF TypeOK, Absent, Rows, Statuses

LEMMA ResourceAt ==
    ASSUME TypeOK, NEW v \in Versions
    PROVE  /\ Has(v) <=> resource[v] \in Resources
           /\ Has(v) => resource[v].of \in Jobs /\ resource[v].active \in BOOLEAN
  BY DEF TypeOK, Has, Absent, Resources

(* What a request keeps while it moves on.                                 *)
SameRequest(s) ==
    /\ step'[s].job = step[s].job /\ step'[s].auto = step[s].auto
    /\ step'[s].n = step[s].n /\ step'[s].best = step[s].best
    /\ step'[s].bestIter = step[s].bestIter /\ step'[s].bestVer = step[s].bestVer
    /\ step'[s].cur = step[s].cur /\ step'[s].score = step[s].score

LEMMA Going ==
    ASSUME TypeOK, NEW s \in Steps, step[s] \in Stepping, NEW pc \in StepPcs, Go(s, pc)
    PROVE  /\ step'[s] \in Stepping /\ step'[s].pc = pc /\ SameRequest(s)
           /\ \A t \in Steps \ {s} : step'[t] = step[t]
           /\ step' \in [Steps -> {Idle} \cup Routes \cup Stepping]
<1>1. step'[s] = [step[s] EXCEPT !.pc = pc]
  BY DEF Go, TypeOK
<1>2. [step[s] EXCEPT !.pc = pc] \in Stepping
  BY DEF Stepping, StepPcs
<1>3. step'[s].pc = pc /\ SameRequest(s)
  BY <1>1 DEF Stepping, SameRequest
<1> QED
  BY <1>1, <1>2, <1>3 DEF Go, TypeOK

LEMMA Returning ==
    ASSUME TypeOK, NEW s \in Steps, Return(s)
    PROVE  /\ step'[s] = Idle
           /\ \A t \in Steps \ {s} : step'[t] = step[t]
           /\ step' \in [Steps -> {Idle} \cup Routes \cup Stepping]
  BY DEF Return, TypeOK

LEMMA StatusType ==
    ASSUME TypeOK, NEW j \in Jobs, job[j] # Absent, NEW st \in Statuses,
           job' = [job EXCEPT ![j].st = st]
    PROVE  /\ job' \in [Jobs -> {Absent} \cup Rows]
           /\ job'[j] # Absent /\ job'[j].st = st
           /\ job'[j].at = job[j].at /\ job'[j].best = job[j].best
           /\ \A k \in Jobs \ {j} : job'[k] = job[k]
<1>1. job[j] \in Rows
  BY JobAt
<1>2. [job[j] EXCEPT !.st = st] \in Rows
  BY <1>1 DEF Rows
<1>3. job'[j] = [job[j] EXCEPT !.st = st]
  BY DEF TypeOK
<1>4. [job[j] EXCEPT !.st = st].st = st /\ st # "absent"
  BY <1>1 DEF Rows, Statuses
<1>5. job'[j] # Absent
  BY <1>3, <1>4 DEF Absent
<1>6. job'[j].at = job[j].at /\ job'[j].best = job[j].best
  BY <1>1, <1>3 DEF Rows
<1> QED
  BY <1>2, <1>3, <1>4, <1>5, <1>6 DEF TypeOK

LEMMA PendingFinite ==
    ASSUME TypeOK, NEW j \in Jobs
    PROVE  IsFiniteSet(Pending(j)) /\ Cardinality(Pending(j)) \in Nat
<1>1. Pending(j) \subseteq 0..MaxClaims
  BY StepAt DEF Pending, Claimed, StepPcs, Stepping
<1>2. IsFiniteSet(0..MaxClaims)
  BY TrainingAssumption, FS_Interval
<1> QED
  BY <1>1, <1>2, FS_Subset, FS_CardinalityType

(* The version a step would write fits: there are fewer versions than      *)
(* claims.                                                                 *)
LEMMA NextVersionFits ==
    ASSUME TypeOK, VersionsInv, NEW s \in Steps, step[s] \in Stepping, CurInv(s)
    PROVE  NextVersion(s) \in Versions \ {0}
<1> USE TrainingAssumption
<1>1. step[s].cur \in Versions \cup {Null} /\ step[s].job \in Jobs
  BY DEF Stepping
<1>2. CASE step[s].cur \in {Null, 0}
  BY <1>2 DEF NextVersion, Null, Versions
<1>3. CASE step[s].cur \in Versions \ {0}
  <2> DEFINE v == step[s].cur
  <2>1. Has(v) /\ resource[v].of \in Jobs /\ v # Null
    BY <1>3, ResourceAt DEF CurInv, Null, Versions
  <2>2. v + Cardinality(Pending(resource[v].of)) <= job[resource[v].of].at
    BY <1>3, <2>1 DEF VersionsInv
  <2>3. Cardinality(Pending(resource[v].of)) \in Nat
    BY <2>1, PendingFinite
  <2>4. job[resource[v].of].at <= MaxClaims /\ job[resource[v].of].at \in Nat
    <3>1. job[resource[v].of] \in {Absent} \cup Rows
      BY <2>1, JobAt
    <3>2. job[resource[v].of] # Absent
      BY <1>3, <2>1 DEF VersionsInv
    <3> QED
      BY <3>1, <3>2 DEF Rows
  <2> QED
    BY <1>3, <2>1, <2>2, <2>3, <2>4 DEF NextVersion, Versions
<1> QED
  BY <1>1, <1>2, <1>3

-----------------------------------------------------------------------------
(* What a step of the system does to the requests.                         *)
Others(s) == \A t \in Steps \ {s} : step'[t] = step[t]

LEMMA Marking ==
    ASSUME TypeOK, NEW s \in Steps, MarkRunning(s)
    PROVE  /\ step[s] \in Routes /\ step[s].pc = "mark"
           /\ step'[s] \in Routes /\ step'[s].pc = "send"
           /\ step'[s].job = step[s].job /\ step'[s].auto = step[s].auto
           /\ Others(s)
           /\ step' \in [Steps -> {Idle} \cup Routes \cup Stepping]
<1>1. step[s].pc = "mark" /\ step[s] \in Routes
  BY StepAt DEF MarkRunning, At
<1>2. step'[s] = [step[s] EXCEPT !.pc = "send"]
  BY DEF MarkRunning, Go, TypeOK
<1>3. step'[s] \in Routes /\ step'[s].pc = "send"
      /\ step'[s].job = step[s].job /\ step'[s].auto = step[s].auto
  BY <1>1, <1>2 DEF Routes
<1> QED
  BY <1>1, <1>3 DEF MarkRunning, Go, Others, TypeOK

LEMMA Posting ==
    ASSUME TypeOK, NEW s \in Steps, NEW j \in Jobs, PostAuto(s, j)
    PROVE  /\ step[s] = Idle /\ step'[s] \in Routes /\ step'[s].pc \in {"mark", "send"}
           /\ step'[s].job = j /\ ~step'[s].auto /\ job[j] # Absent /\ ~Over(job[j].st)
           /\ Others(s)
           /\ step' \in [Steps -> {Idle} \cup Routes \cup Stepping]
<1> DEFINE new == [pc |-> IF job[j].st = "created" THEN "mark" ELSE "send",
                   job |-> j, auto |-> FALSE]
<1>1. new \in Routes /\ new.pc \in {"mark", "send"} /\ new.job = j /\ ~new.auto
  BY DEF Routes
<1>2. step'[s] = new /\ Others(s)
  BY DEF PostAuto, TypeOK, Others
<1> QED
  BY <1>1, <1>2 DEF PostAuto, TypeOK

LEMMA Taking ==
    ASSUME TypeOK, NEW s \in Steps, NEW j \in Jobs, Take(s, j)
    PROVE  /\ step[s] = Idle
           /\ \/ step' = step
              \/ /\ step'[s] \in Routes /\ step'[s].pc = "load" /\ step'[s].job = j
                 /\ step'[s].auto /\ job[j].st = "running" /\ job[j] # Absent
                 /\ Others(s)
           /\ step' \in [Steps -> {Idle} \cup Routes \cup Stepping]
<1> DEFINE new == [pc |-> "load", job |-> j, auto |-> TRUE]
<1>1. new \in Routes /\ new.pc = "load" /\ new.job = j /\ new.auto
  BY DEF Routes
<1>2. CASE job[j].st = "running"
  <2>1. step' = [step EXCEPT ![s] = new] /\ step[s] = Idle
    BY <1>2 DEF Take
  <2>2. job[j] # Absent
    BY <1>2 DEF Absent
  <2> QED
    BY <1>1, <1>2, <2>1, <2>2 DEF TypeOK, Others
<1>3. CASE job[j].st # "running"
  BY <1>3 DEF Take, TypeOK
<1> QED
  BY <1>2, <1>3

LEMMA Loading ==
    ASSUME TypeOK, NEW s \in Steps, NEW j \in Jobs, NEW auto \in BOOLEAN, job[j] # Absent,
           Load(s, j, auto)
    PROVE  /\ \/ step'[s] = Idle
              \/ /\ step'[s] \in Stepping /\ step'[s].pc = "claim" /\ step'[s].job = j
                 /\ (step'[s].auto <=> auto)
                 /\ step'[s].n = job[j].at /\ step'[s].best = job[j].best
                 /\ step'[s].cur = Null /\ ~Over(job[j].st)
                 /\ Past(j) = {} \/ j \in overlapped'
           /\ Others(s)
           /\ step' \in [Steps -> {Idle} \cup Routes \cup Stepping]
<1> DEFINE new == [pc |-> "claim", job |-> j, auto |-> auto,
                   created |-> job[j].st = "created", n |-> job[j].at,
                   best |-> job[j].best, bestIter |-> job[j].bestIter,
                   bestVer |-> job[j].bestVer, cur |-> Null, score |-> Null]
<1>1. job[j] \in Rows
  BY JobAt
<1>2. /\ job[j].at \in 0..MaxClaims /\ job[j].best \in Scores \cup {Null}
      /\ job[j].bestIter \in Numbers \cup {Null}
      /\ job[j].bestVer \in Versions \cup {Null}
  BY <1>1 DEF Rows
<1>3. (job[j].st = "created") \in BOOLEAN
  BY DEF Null
<1>4. new \in Stepping
  BY <1>2, <1>3 DEF Stepping
<1>5. CASE Over(job[j].st)
  <2>1. step' = [step EXCEPT ![s] = Idle]
    BY <1>5 DEF Load
  <2> QED
    BY <2>1 DEF TypeOK, Others
<1>6. CASE ~Over(job[j].st)
  <2>1. step' = [step EXCEPT ![s] = new]
    BY <1>6 DEF Load
  <2>2. step'[s] = new /\ Others(s)
    BY <2>1 DEF TypeOK, Others
  <2>3. /\ new.pc = "claim" /\ new.job = j /\ (new.auto <=> auto)
        /\ new.n = job[j].at /\ new.best = job[j].best /\ new.cur = Null
    OBVIOUS
  <2>4. Past(j) = {} \/ j \in overlapped'
    BY DEF Load
  <2> QED
    BY <1>4, <1>6, <2>1, <2>2, <2>3, <2>4 DEF TypeOK
<1> QED
  BY <1>5, <1>6

(* A claim that is won, or lost.                                           *)
LEMMA Claiming ==
    ASSUME TypeOK, NEW s \in Steps, RequestInv(s), Claim(s)
    PROVE  /\ step[s] \in Stepping /\ step[s].pc = "claim"
           /\ \/ /\ step'[s] = Idle /\ job' = job /\ step[s].n # job[step[s].job].at
              \/ /\ step[s].n = job[step[s].job].at /\ step'[s].n = step[s].n + 1
                 /\ step'[s] \in Stepping /\ step'[s].pc \in {"start", "open"}
                 /\ step'[s].job = step[s].job /\ step'[s].auto = step[s].auto
                 /\ step'[s].best = step[s].best /\ step'[s].cur = step[s].cur
                 /\ job'[step[s].job] # Absent
                 /\ job'[step[s].job].at = job[step[s].job].at + 1
                 /\ job'[step[s].job].st = job[step[s].job].st
                 /\ job'[step[s].job].best = job[step[s].job].best
                 /\ \A k \in Jobs \ {step[s].job} : job'[k] = job[k]
           /\ job' \in [Jobs -> {Absent} \cup Rows]
           /\ Others(s)
           /\ step' \in [Steps -> {Idle} \cup Routes \cup Stepping]
<1> USE TrainingAssumption
<1>1. step[s].pc = "claim" /\ step[s] \in Stepping /\ step[s] # Idle
  BY StepAt DEF Claim, At, StepPcs
<1> DEFINE j == step[s].job
           m == job[j].at + 1
<1>2. j \in Jobs /\ job[j] \in Rows /\ job[j] # Absent
  BY <1>1, StepAt, JobAt DEF RequestInv
<1>3. CASE Return(s) /\ job' = job /\ ~Unclaimed(s)
  <2>1. step'[s] = Idle /\ step[s].n # job[step[s].job].at
    BY <1>3 DEF Return, TypeOK, Unclaimed
  <2> QED
    BY <1>1, <1>3, <2>1 DEF Return, TypeOK, Others
<1>4. CASE /\ Unclaimed(s) /\ m <= MaxClaims
           /\ job' = [job EXCEPT ![j].at = m]
           /\ step' = [step EXCEPT ![s].n = m, ![s].created = FALSE,
                                   ![s].pc = IF step[s].created THEN "start" ELSE "open"]
  <2>1. m \in 0..MaxClaims /\ step[s].n = job[j].at
    BY <1>2, <1>4 DEF Rows, Unclaimed
  <2>2. [job[j] EXCEPT !.at = m] \in Rows
    BY <1>2, <2>1 DEF Rows
  <2>3. job'[j] = [job[j] EXCEPT !.at = m] /\ \A k \in Jobs \ {j} : job'[k] = job[k]
    BY <1>2, <1>4 DEF TypeOK
  <2>4. job'[j].at = m /\ job'[j].st = job[j].st /\ job'[j].best = job[j].best
    BY <1>2, <2>3 DEF Rows
  <2>5. job'[j] # Absent
    BY <1>2, <2>2, <2>3 DEF Rows, Absent, Statuses
  <2>6. job' \in [Jobs -> {Absent} \cup Rows]
    BY <1>2, <1>4, <2>2, <2>3 DEF TypeOK
  <2> DEFINE new == [step[s] EXCEPT !.n = m, !.created = FALSE,
                                    !.pc = IF step[s].created THEN "start" ELSE "open"]
  <2>7. new \in Stepping
    <3> DEFINE to(pc) == [step[s] EXCEPT !.n = m, !.created = FALSE, !.pc = pc]
    <3>1. to("start") \in Stepping /\ to("open") \in Stepping
      BY <1>1, <2>1 DEF Stepping
    <3>2. new = to("start") \/ new = to("open")
      OBVIOUS
    <3> QED
      BY <3>1, <3>2
  <2>8. /\ new.n = m /\ new.pc \in {"start", "open"} /\ new.job = j
        /\ new.auto = step[s].auto /\ new.best = step[s].best /\ new.cur = step[s].cur
    BY <1>1 DEF Stepping
  <2>9. step'[s] = new /\ Others(s)
    BY <1>4 DEF TypeOK, Others
  <2>10. step' \in [Steps -> {Idle} \cup Routes \cup Stepping]
    BY <1>4, <2>7, <2>9 DEF TypeOK, Others
  <2> QED
    BY <1>1, <2>1, <2>3, <2>4, <2>5, <2>6, <2>7, <2>8, <2>9, <2>10
<1> QED
  BY <1>3, <1>4 DEF Claim

(* The version that the job of s has active, as far as s can see.          *)
Mine(s) == {v \in Versions : resource[v] = [of |-> step[s].job, active |-> TRUE]}

LEMMA CurFound ==
    ASSUME NEW s \in Steps
    PROVE  Max(Mine(s) \cup {Null}) \in Mine(s) \cup {Null}
<1> USE TrainingAssumption
<1>1. Mine(s) \cup {Null} \subseteq Null..(MaxClaims + 1)
  BY DEF Mine, Versions, Null
<1>2. IsFiniteSet(Null..(MaxClaims + 1))
  BY FS_Interval DEF Null
<1>3. IsFiniteSet(Mine(s) \cup {Null}) /\ Mine(s) \cup {Null} \subseteq Int
  BY <1>1, <1>2, FS_Subset DEF Null
<1> QED
  BY <1>3, MaxOfFinite

LEMMA Evaluates ==
    ASSUME TypeOK, NEW s \in Steps, NEW score \in Scores, Evaluate(s, score)
    PROVE  /\ step[s] \in Stepping /\ step[s].pc = "open"
           /\ step'[s] \in Stepping /\ step'[s].pc \in {"deactivate", "complete"}
           /\ step'[s].cur \in Mine(s) \cup {Null}
           /\ step'[s].job = step[s].job /\ step'[s].auto = step[s].auto
           /\ step'[s].n = step[s].n /\ step'[s].best = step[s].best
           /\ step'[s].score = score
           /\ iteration' = [iteration EXCEPT ![<<step[s].job, step[s].n>>] =
                              [st |-> "optimizing", score |-> score,
                               tested |-> Tested(step'[s].cur)]]
           /\ Others(s)
           /\ step' \in [Steps -> {Idle} \cup Routes \cup Stepping]
<1> USE TrainingAssumption
<1>1. step[s].pc = "open" /\ step[s] \in Stepping
  BY StepAt DEF Evaluate, At, StepPcs
<1> DEFINE cur == Max(Mine(s) \cup {Null})
<1>2. cur \in Mine(s) \cup {Null} /\ cur \in Versions \cup {Null}
  BY CurFound DEF Mine
<1>3. PICK pc \in {"deactivate", "complete"} :
         step' = [step EXCEPT ![s].pc = pc, ![s].cur = cur, ![s].score = score]
  BY DEF Evaluate, Mine
<1>4. iteration' = [iteration EXCEPT ![<<step[s].job, step[s].n>>] =
                     [st |-> "optimizing", score |-> score, tested |-> Tested(cur)]]
  BY DEF Evaluate, Mine
<1> HIDE DEF cur
<1> DEFINE new == [step[s] EXCEPT !.pc = pc, !.cur = cur, !.score = score]
<1>5. new \in Stepping
  BY <1>1, <1>2 DEF Stepping
<1>6. /\ new.pc = pc /\ new.cur = cur /\ new.score = score /\ new.job = step[s].job
      /\ new.auto = step[s].auto /\ new.n = step[s].n /\ new.best = step[s].best
  BY <1>1 DEF Stepping
<1>7. step'[s] = new /\ Others(s)
  BY <1>3 DEF TypeOK, Others
<1>8. step' \in [Steps -> {Idle} \cup Routes \cup Stepping]
  BY <1>3, <1>5, <1>7 DEF TypeOK, Others
<1> QED
  BY <1>1, <1>2, <1>4, <1>5, <1>6, <1>7, <1>8

LEMMA Finishing ==
    ASSUME BaseInv, NEW s \in Steps, Finish(s)
    PROVE  LET j == step[s].job IN
           /\ step[s] \in Stepping /\ step[s].pc = "finish" /\ job[j] # Absent
           /\ \/ step'[s] = Idle
              \/ /\ step'[s] \in Stepping /\ SameRequest(s)
                 /\ step'[s].pc \in {"activate", "reply"}
           /\ job' \in [Jobs -> {Absent} \cup Rows] /\ job'[j] # Absent
           /\ job'[j].at = job[j].at
           /\ job'[j].best = IF IsBest(s) THEN step[s].score ELSE step[s].best
           /\ \A k \in Jobs \ {j} : job'[k] = job[k]
           /\ counted' = counted \cup {<<j, step[s].n>>}
           /\ <<j, step[s].n>> \in Jobs \X Numbers
           /\ step[s].score \in Scores
           /\ Others(s)
           /\ step' \in [Steps -> {Idle} \cup Routes \cup Stepping]
<1> USE TrainingAssumption
<1> DEFINE x == step[s]
           j == x.job
<1>1. x.pc = "finish" /\ x \in Stepping /\ x # Idle /\ Owns(s)
  BY StepAt DEF Finish, At, StepPcs, BaseInv, Owns
<1>2. j \in Jobs /\ job[j] \in Rows /\ job[j] # Absent
  BY <1>1, StepAt, JobAt DEF BaseInv, RequestInv
<1>3. x.n \in Numbers /\ x.score \in Scores
  <2>1. x.n > 0 /\ x.n \in 0..MaxClaims
    BY <1>1 DEF BaseInv, OwnInv, Stepping
  <2>2. RowInv(s) /\ x.pc \in Evaluating
    BY <1>1 DEF BaseInv, Evaluating
  <2>3. iteration[<<j, x.n>>] \in Evaluated /\ iteration[<<j, x.n>>].score = x.score
    BY <2>2 DEF RowInv
  <2> QED
    BY <2>1, <2>3 DEF Numbers, Evaluated
<1>4. PICK more \in {FALSE, MayContinue(x.n)} :
         /\ job' = [job EXCEPT ![j].best = IF IsBest(s) THEN x.score ELSE x.best,
                               ![j].bestIter = IF IsBest(s) THEN x.n ELSE x.bestIter,
                               ![j].bestVer = IF IsBest(s) THEN NextVersion(s) ELSE x.bestVer,
                               ![j].st = IF more THEN "running" ELSE "completed"]
         /\ step' = [step EXCEPT ![s] = IF ~more THEN [x EXCEPT !.pc = "activate"]
                                        ELSE IF x.auto THEN [x EXCEPT !.pc = "reply"]
                                        ELSE Idle]
  BY DEF Finish
<1> DEFINE best == IF IsBest(s) THEN x.score ELSE x.best
           bestIter == IF IsBest(s) THEN x.n ELSE x.bestIter
           bestVer == IF IsBest(s) THEN NextVersion(s) ELSE x.bestVer
           st == IF more THEN "running" ELSE "completed"
<1>5. /\ best \in Scores \cup {Null} /\ bestIter \in Numbers \cup {Null}
      /\ bestVer \in Versions \cup {Null} /\ st \in Statuses
  <2>1. NextVersion(s) \in Versions
    BY <1>1, NextVersionFits DEF BaseInv
  <2> QED
    BY <1>1, <1>2, <1>3, <2>1 DEF Stepping, Rows, Statuses
<1>6. job'[j] = [job[j] EXCEPT !.best = best, !.bestIter = bestIter, !.bestVer = bestVer,
                               !.st = st]
      /\ \A k \in Jobs \ {j} : job'[k] = job[k]
  BY <1>2, <1>4 DEF BaseInv, TypeOK
<1>7. job'[j] \in Rows /\ job'[j].at = job[j].at /\ job'[j].best = best
  <2> HIDE DEF best, bestIter, bestVer, st
  <2> QED
    BY <1>2, <1>5, <1>6 DEF Rows
<1>8. job'[j] # Absent
  BY <1>7 DEF Rows, Statuses, Absent
<1>9. job' \in [Jobs -> {Absent} \cup Rows]
  BY <1>4, <1>6, <1>7 DEF BaseInv, TypeOK
<1>10. ASSUME NEW pc \in {"activate", "reply"}
       PROVE  /\ [x EXCEPT !.pc = pc] \in Stepping
              /\ step'[s] = [x EXCEPT !.pc = pc] => SameRequest(s) /\ step'[s].pc = pc
  BY <1>1 DEF Stepping, SameRequest
<1>11. \/ step'[s] = Idle
       \/ /\ step'[s] \in Stepping /\ SameRequest(s)
          /\ step'[s].pc \in {"activate", "reply"}
  <2>1. step'[s] \in {[x EXCEPT !.pc = "activate"], [x EXCEPT !.pc = "reply"], Idle}
    BY <1>4 DEF BaseInv, TypeOK
  <2> QED
    BY <1>10, <2>1
<1>12. Others(s) /\ step' \in [Steps -> {Idle} \cup Routes \cup Stepping]
  <2>1. Others(s)
    BY <1>4 DEF BaseInv, TypeOK, Others
  <2> QED
    BY <1>4, <1>11, <2>1 DEF BaseInv, TypeOK, Others
<1>13. counted' = counted \cup {<<j, x.n>>} /\ <<j, x.n>> \in Jobs \X Numbers
  BY <1>2, <1>3 DEF Finish
<1> QED
  BY <1>1, <1>2, <1>3, <1>6, <1>7, <1>8, <1>9, <1>11, <1>12, <1>13

(* The other points of the step route: a request goes on or returns.       *)
Plain(s) ==
    \/ Start(s) \/ Preflight(s) \/ NoTasks(s) \/ Deactivate(s) \/ Insert(s) \/ Conflict(s)
    \/ Complete(s) \/ Activate(s) \/ Reply(s)

LEMMA PlainMoves ==
    ASSUME TypeOK, NEW s \in Steps, Plain(s)
    PROVE  /\ step[s] \in Stepping /\ step[s].pc # "claim"
           /\ \/ step'[s] = Idle
              \/ /\ step'[s] \in Stepping /\ SameRequest(s)
                 /\ <<step[s].pc, step'[s].pc>> \in
                       {<<"start", "open">>, <<"deactivate", "insert">>, <<"insert", "apply">>,
                        <<"apply", "finish">>, <<"complete", "finish">>}
           /\ Others(s)
           /\ step' \in [Steps -> {Idle} \cup Routes \cup Stepping]
<1>1. step[s].pc \in StepPcs \ {"claim"}
  BY DEF Plain, Start, Preflight, NoTasks, Deactivate, Insert, Conflict, Complete, Activate,
         Reply, At, StepPcs
<1>2. step[s] \in Stepping
  BY <1>1, StepAt
<1>3. CASE Return(s)
  BY <1>1, <1>2, <1>3, Returning DEF Others
<1>4. ASSUME NEW pc \in StepPcs, Go(s, pc),
             <<step[s].pc, pc>> \in
               {<<"start", "open">>, <<"deactivate", "insert">>, <<"insert", "apply">>,
                <<"apply", "finish">>, <<"complete", "finish">>}
      PROVE  /\ step'[s] \in Stepping /\ SameRequest(s) /\ step'[s].pc = pc
             /\ Others(s)
             /\ step' \in [Steps -> {Idle} \cup Routes \cup Stepping]
  BY <1>2, <1>4, Going DEF Others
<1>5. \/ Return(s)
      \/ \E pc \in StepPcs :
            /\ Go(s, pc)
            /\ <<step[s].pc, pc>> \in
                 {<<"start", "open">>, <<"deactivate", "insert">>, <<"insert", "apply">>,
                  <<"apply", "finish">>, <<"complete", "finish">>}
  BY DEF Plain, Start, Preflight, NoTasks, Deactivate, Insert, Conflict, Complete, Activate,
         Reply, At, StepPcs
<1> QED
  BY <1>1, <1>2, <1>3, <1>4, <1>5

(* A request leaves without another effect.                                *)
Leaves(s) == Send(s) \/ Throws(s) \/ Evicted(s)

LEMMA NextCases ==
    ASSUME [Next]_vars
    PROVE  \/ \E j \in Jobs : Create(j) \/ Cancel(j)
           \/ \E s \in Steps, j \in Jobs : PostStep(s, j) \/ PostAuto(s, j) \/ Take(s, j)
           \/ \E s \in Steps :
                 \/ MarkRunning(s) \/ TakenStep(s) \/ Claim(s) \/ Finish(s) \/ Plain(s)
                 \/ Leaves(s)
                 \/ \E score \in Scores : Evaluate(s, score)
           \/ UNCHANGED vars
  BY DEF Next, Run, Plain, Leaves

-----------------------------------------------------------------------------
(* Whatever happens, at most one request changes, in one of five ways, and *)
(* the rows of the jobs only grow.                                         *)
Weighing(s) ==
    step[s].pc \in {"start", "open", "deactivate", "insert", "apply", "complete", "finish"}

Enters(s) == step'[s] \in Routes /\ job[step'[s].job] # Absent
Loaded(s) ==
    /\ step'[s] \in Stepping /\ step'[s].pc = "claim" /\ step'[s].cur = Null
    /\ job[step'[s].job] # Absent /\ step'[s].n = job[step'[s].job].at
    /\ step'[s].best = job[step'[s].job].best
    /\ Past(step'[s].job) = {} \/ step'[s].job \in overlapped'
Won(s) ==
    /\ step[s] \in Stepping /\ step[s].pc = "claim"
    /\ step'[s] \in Stepping /\ step'[s].pc \in {"start", "open"}
    /\ step'[s].job = step[s].job /\ step'[s].cur = step[s].cur
    /\ step[s].n = job[step[s].job].at /\ step'[s].n = step[s].n + 1
    /\ job'[step[s].job] # Absent
    /\ job'[step[s].job].at = step[s].n + 1
    /\ step'[s].best = step[s].best /\ job'[step[s].job].best = job[step[s].job].best
MovesOn(s) ==
    /\ step[s] \in Stepping /\ step[s].pc # "claim"
    /\ step'[s] \in Stepping /\ step'[s].pc # "claim"
    /\ step'[s].job = step[s].job /\ step'[s].n = step[s].n
    /\ step'[s].best = step[s].best
    /\ Claimed(s)' => Claimed(s)
    /\ Weighing(s)' => Weighing(s)

SameJob(j) == job[j] # Absent => job'[j] # Absent /\ job'[j].at = job[j].at
JobsKept == \A j \in Jobs : SameJob(j)

LEMMA JobSteps ==
    ASSUME BaseInv, NEW s \in Steps, Plain(s)
    PROVE  job' \in [Jobs -> {Absent} \cup Rows] /\ JobsKept
<1>1. step[s].job \in Jobs /\ job[step[s].job] # Absent
  <2>1. step[s] \in Stepping /\ step[s] # Idle
    BY PlainMoves, StepAt DEF BaseInv, StepPcs
  <2> QED
    BY <2>1, StepAt DEF BaseInv, RequestInv
<1>2. ASSUME NEW st \in Statuses, job' = [job EXCEPT ![step[s].job].st = st]
      PROVE  job' \in [Jobs -> {Absent} \cup Rows] /\ JobsKept
  <2>1. TypeOK
    BY DEF BaseInv
  <2> QED
    BY <1>1, <1>2, <2>1, StatusType DEF JobsKept, SameJob
<1>3. \/ job' = job
      \/ \E st \in Statuses : job' = [job EXCEPT ![step[s].job].st = st]
  BY DEF Plain, Start, Preflight, NoTasks, Deactivate, Insert, Conflict, Complete, Activate,
         Reply, rows, Statuses
<1>4. CASE job' = job
  BY <1>4 DEF BaseInv, TypeOK, JobsKept, SameJob
<1> QED
  BY <1>2, <1>3, <1>4

LEMMA OneRequest ==
    ASSUME BaseInv, [Next]_vars
    PROVE  /\ step' \in [Steps -> {Idle} \cup Routes \cup Stepping]
           /\ job' \in [Jobs -> {Absent} \cup Rows]
           /\ \/ step' = step /\ JobsKept
              \/ \E s \in Steps :
                    /\ Others(s)
                    /\ \/ JobsKept /\ (step'[s] = Idle \/ Enters(s) \/ Loaded(s) \/ MovesOn(s))
                       \/ Won(s) /\ \A j \in Jobs \ {step[s].job} : SameJob(j)
<1>0. TypeOK
  BY DEF BaseInv
<1>1. ASSUME job' = job
      PROVE  job' \in [Jobs -> {Absent} \cup Rows] /\ JobsKept
  BY <1>0, <1>1 DEF TypeOK, JobsKept, SameJob
<1>2. ASSUME step' = step
      PROVE  step' \in [Steps -> {Idle} \cup Routes \cup Stepping]
  BY <1>0, <1>2 DEF TypeOK
<1>3. ASSUME NEW j \in Jobs, Create(j)
      PROVE  job' \in [Jobs -> {Absent} \cup Rows] /\ JobsKept /\ step' = step
  <2>1. [st |-> "created", at |-> 0, best |-> Null, bestIter |-> Null, bestVer |-> Null]
          \in Rows
    BY TrainingAssumption DEF Rows, Statuses
  <2> QED
    BY <1>0, <1>3, <2>1 DEF Create, TypeOK, JobsKept, SameJob
<1>4. ASSUME NEW j \in Jobs, Cancel(j)
      PROVE  job' \in [Jobs -> {Absent} \cup Rows] /\ JobsKept /\ step' = step
  <2>1. job[j] # Absent /\ job' = [job EXCEPT ![j].st = "cancelled"] /\ step' = step
    BY <1>4 DEF Cancel, Absent
  <2> QED
    BY <1>0, <2>1, StatusType DEF Statuses, JobsKept, SameJob
<1>5. ASSUME NEW s \in Steps, NEW j \in Jobs, PostStep(s, j)
      PROVE  /\ job' = job /\ Others(s) /\ (step'[s] = Idle \/ Loaded(s))
             /\ step' \in [Steps -> {Idle} \cup Routes \cup Stepping]
  <2>1. job[j] # Absent /\ Load(s, j, FALSE) /\ job' = job
    BY <1>5 DEF PostStep, Load, rows
  <2> QED
    BY <1>0, <2>1, Loading DEF Loaded
<1>6. ASSUME NEW s \in Steps, TakenStep(s)
      PROVE  /\ job' = job /\ Others(s) /\ (step'[s] = Idle \/ Loaded(s))
             /\ step' \in [Steps -> {Idle} \cup Routes \cup Stepping]
  <2>1. step[s].job \in Jobs /\ job[step[s].job] # Absent
    BY <1>0, <1>6, StepAt DEF TakenStep, At, BaseInv, RequestInv, Idle
  <2>2. Load(s, step[s].job, TRUE) /\ job' = job
    BY <1>6 DEF TakenStep, Load, rows
  <2> QED
    BY <1>0, <2>1, <2>2, Loading DEF Loaded
<1>7. ASSUME NEW s \in Steps, NEW j \in Jobs, PostAuto(s, j)
      PROVE  /\ job' = job /\ Others(s) /\ Enters(s)
             /\ step' \in [Steps -> {Idle} \cup Routes \cup Stepping]
  <2>1. job' = job
    BY <1>7 DEF PostAuto, rows
  <2> QED
    BY <1>0, <1>7, <2>1, Posting DEF Enters
<1>8. ASSUME NEW s \in Steps, NEW j \in Jobs, Take(s, j)
      PROVE  /\ job' = job /\ (step' = step \/ (Others(s) /\ Enters(s)))
             /\ step' \in [Steps -> {Idle} \cup Routes \cup Stepping]
  <2>1. job' = job
    BY <1>8 DEF Take, rows
  <2> QED
    BY <1>0, <1>8, <2>1, Taking DEF Enters
<1>9. ASSUME NEW s \in Steps, MarkRunning(s)
      PROVE  /\ job' \in [Jobs -> {Absent} \cup Rows] /\ JobsKept /\ Others(s) /\ Enters(s)
             /\ step' \in [Steps -> {Idle} \cup Routes \cup Stepping]
  <2>1. step[s].job \in Jobs /\ job[step[s].job] # Absent
    BY <1>0, <1>9, StepAt DEF MarkRunning, At, BaseInv, RequestInv, Idle
  <2>2. job' \in [Jobs -> {Absent} \cup Rows] /\ JobsKept
    <3>1. job' = [job EXCEPT ![step[s].job].st = "running"] /\ "running" \in Statuses
      BY <1>9 DEF MarkRunning, Statuses
    <3> QED
      BY <1>0, <2>1, <3>1, StatusType DEF JobsKept, SameJob
  <2> QED
    BY <1>0, <1>9, <2>1, <2>2, Marking DEF Enters
<1>10. ASSUME NEW s \in Steps, Claim(s)
       PROVE  /\ job' \in [Jobs -> {Absent} \cup Rows] /\ Others(s)
              /\ \/ JobsKept /\ step'[s] = Idle
                 \/ Won(s) /\ \A j \in Jobs \ {step[s].job} : SameJob(j)
              /\ step' \in [Steps -> {Idle} \cup Routes \cup Stepping]
  <2>1. RequestInv(s)
    BY DEF BaseInv
  <2> QED
    BY <1>0, <1>10, <2>1, Claiming DEF Won, JobsKept, SameJob
<1>11. ASSUME NEW s \in Steps, Finish(s)
       PROVE  /\ job' \in [Jobs -> {Absent} \cup Rows] /\ JobsKept /\ Others(s)
              /\ step'[s] = Idle \/ MovesOn(s)
              /\ step' \in [Steps -> {Idle} \cup Routes \cup Stepping]
  BY <1>11, Finishing DEF MovesOn, JobsKept, SameJob, SameRequest, Claimed, Weighing
<1>12. ASSUME NEW s \in Steps, Plain(s)
       PROVE  /\ job' \in [Jobs -> {Absent} \cup Rows] /\ JobsKept /\ Others(s)
              /\ step'[s] = Idle \/ MovesOn(s)
              /\ step' \in [Steps -> {Idle} \cup Routes \cup Stepping]
  <2>1. /\ step[s] \in Stepping /\ step[s].pc # "claim" /\ Others(s)
        /\ \/ step'[s] = Idle
           \/ /\ step'[s] \in Stepping /\ SameRequest(s)
              /\ <<step[s].pc, step'[s].pc>> \in
                    {<<"start", "open">>, <<"deactivate", "insert">>, <<"insert", "apply">>,
                     <<"apply", "finish">>, <<"complete", "finish">>}
        /\ step' \in [Steps -> {Idle} \cup Routes \cup Stepping]
    BY <1>0, <1>12, PlainMoves
  <2>2. step'[s] = Idle \/ MovesOn(s)
    BY <2>1 DEF MovesOn, SameRequest, Claimed, Weighing
  <2> QED
    BY <1>12, <2>1, <2>2, JobSteps
<1>13. ASSUME NEW s \in Steps, Leaves(s)
       PROVE  /\ job' = job /\ Others(s) /\ step'[s] = Idle
              /\ step' \in [Steps -> {Idle} \cup Routes \cup Stepping]
  BY <1>0, <1>13, Returning DEF Leaves, Send, Throws, Evicted, Others, rows
<1>14. ASSUME NEW s \in Steps, NEW score \in Scores, Evaluate(s, score)
       PROVE  /\ job' = job /\ Others(s) /\ MovesOn(s)
              /\ step' \in [Steps -> {Idle} \cup Routes \cup Stepping]
  <2>1. /\ step[s] \in Stepping /\ step[s].pc = "open"
        /\ step'[s] \in Stepping /\ step'[s].pc \in {"deactivate", "complete"}
        /\ step'[s].job = step[s].job /\ step'[s].n = step[s].n
        /\ step'[s].best = step[s].best
        /\ Others(s) /\ step' \in [Steps -> {Idle} \cup Routes \cup Stepping]
    BY <1>0, <1>14, Evaluates
  <2>2. MovesOn(s)
    BY <2>1 DEF MovesOn, Claimed, Weighing
  <2>3. job' = job
    BY <1>14 DEF Evaluate
  <2> QED
    BY <2>1, <2>2, <2>3
<1>15. CASE UNCHANGED vars
  BY <1>0, <1>15 DEF vars, rows, TypeOK, JobsKept, SameJob
<1> QED
  BY <1>1, <1>2, <1>3, <1>4, <1>5, <1>6, <1>7, <1>8, <1>9, <1>10, <1>11, <1>12, <1>13,
     <1>14, <1>15, NextCases

LEMMA AtType ==
    ASSUME TypeOK, NEW j \in Jobs, job[j] # Absent
    PROVE  job[j].at \in 0..MaxClaims
  BY JobAt DEF Rows

LEMMA RequestsStep ==
    ASSUME BaseInv, [Next]_vars
    PROVE  OwnInv' /\ \A s \in Steps : RequestInv(s)'
<1> USE TrainingAssumption
<1>0. TypeOK /\ OwnInv /\ \A s \in Steps : RequestInv(s)
  BY DEF BaseInv
<1>1. ASSUME NEW t \in Steps, step[t] # Idle
      PROVE  /\ step[t].job \in Jobs /\ job[step[t].job] # Absent
             /\ job[step[t].job].at \in Nat
             /\ step[t] \in Stepping => step[t].n \in Nat /\ step[t].n <= job[step[t].job].at
  BY <1>0, <1>1, StepAt, AtType DEF RequestInv, Stepping
<1>2. ASSUME NEW t \in Steps, step'[t] = step[t], JobsKept
      PROVE  RequestInv(t)'
  BY <1>1, <1>2 DEF RequestInv, JobsKept, SameJob
<1>3. CASE step' = step /\ JobsKept
  <2>1. OwnInv'
    BY <1>0, <1>3 DEF OwnInv, Owns
  <2> QED
    BY <1>2, <1>3, <2>1
<1>4. ASSUME NEW s \in Steps, Others(s), JobsKept, step'[s] = Idle \/ Enters(s) \/ Loaded(s)
      PROVE  OwnInv' /\ \A t \in Steps : RequestInv(t)'
  <2>1. ~Owns(s)'
    BY <1>4 DEF Owns, Idle, Stepping, Enters, Routes, Loaded
  <2>2. OwnInv'
    BY <1>0, <1>4, <2>1 DEF OwnInv, Owns, Others
  <2>3. RequestInv(s)'
    <3>1. CASE step'[s] = Idle
      BY <3>1 DEF RequestInv
    <3>2. CASE Enters(s)
      <4>1. step'[s].job \in Jobs /\ ~(step'[s] \in Stepping)
        BY <3>2 DEF Enters, Routes, Stepping
      <4> QED
        BY <1>4, <3>2, <4>1 DEF RequestInv, Enters, JobsKept, SameJob
    <3>3. CASE Loaded(s)
      <4>1. step'[s].job \in Jobs /\ job[step'[s].job].at \in Nat
        BY <1>0, <3>3, AtType DEF Loaded, Stepping
      <4> QED
        BY <1>4, <3>3, <4>1 DEF RequestInv, Loaded, JobsKept, SameJob
    <3> QED
      BY <1>4, <3>1, <3>2, <3>3
  <2> QED
    BY <1>2, <1>4, <2>2, <2>3 DEF Others
<1>5. ASSUME NEW s \in Steps, Others(s), JobsKept, MovesOn(s)
      PROVE  OwnInv' /\ \A t \in Steps : RequestInv(t)'
  <2>1. OwnInv'
    BY <1>0, <1>5 DEF OwnInv, Owns, Others, MovesOn
  <2>2. RequestInv(s)'
    <3>1. step[s] # Idle
      BY <1>5 DEF MovesOn, Idle, Stepping
    <3> QED
      BY <1>1, <1>5, <3>1 DEF MovesOn, RequestInv, JobsKept, SameJob
  <2> QED
    BY <1>2, <1>5, <2>1, <2>2 DEF Others
<1>6. ASSUME NEW s \in Steps, Others(s), Won(s), \A j \in Jobs \ {step[s].job} : SameJob(j)
      PROVE  OwnInv' /\ \A t \in Steps : RequestInv(t)'
  <2> DEFINE j == step[s].job
  <2>1. step[s] # Idle
    BY <1>6 DEF Won, Idle, Stepping
  <2>2. j \in Jobs /\ job[j] # Absent /\ job[j].at \in Nat /\ step[s].n \in Nat
    BY <1>1, <1>6, <2>1 DEF Won
  <2>3. job'[j] # Absent /\ job'[j].at = job[j].at + 1
    BY <1>6 DEF Won
  <2>4. ASSUME NEW t \in Steps \ {s}, step[t] # Idle
        PROVE  /\ job'[step[t].job] # Absent
               /\ step[t] \in Stepping => step[t].n <= job'[step[t].job].at
    BY <1>1, <1>6, <2>2, <2>3, <2>4 DEF SameJob
  <2>5. \A t \in Steps : RequestInv(t)'
    <3>1. RequestInv(s)'
      BY <1>6, <2>2, <2>3 DEF Won, RequestInv
    <3>2. ASSUME NEW t \in Steps \ {s}
          PROVE  RequestInv(t)'
      BY <1>6, <2>4, <3>2 DEF RequestInv, Others
    <3> QED
      BY <3>1, <3>2
  <2>6. ASSUME NEW t \in Steps \ {s}, Owns(t), step[t].job = j
        PROVE  step[t].n # step'[s].n
    <3>1. step[t] # Idle
      BY <2>6 DEF Owns, Idle, Stepping
    <3>2. step[t].n \in Nat /\ step[t].n <= job[j].at
      BY <1>1, <2>6, <3>1 DEF Owns
    <3> QED
      BY <1>6, <2>2, <3>2 DEF Won
  <2>7. OwnInv'
    <3>1. \A t \in Steps \ {s} : step'[t] = step[t]
      BY <1>6 DEF Others
    <3>2. step'[s].job = j /\ step'[s].n > 0
      BY <1>6, <2>2 DEF Won
    <3> QED
      BY <1>0, <2>6, <3>1, <3>2 DEF OwnInv, Owns
  <2> QED
    BY <2>5, <2>7
<1> QED
  BY <1>3, <1>4, <1>5, <1>6, OneRequest

-----------------------------------------------------------------------------
(* A job never has more claims without a version than its row counts.      *)
LEMMA PendingStep ==
    ASSUME BaseInv, [Next]_vars, NEW j \in Jobs, job[j] # Absent
    PROVE  /\ job'[j] # Absent /\ job'[j].at \in Nat
           /\ Cardinality(Pending(j))' \in Nat
           /\ Cardinality(Pending(j))' + job[j].at <= Cardinality(Pending(j)) + job'[j].at
<1> USE TrainingAssumption
<1>0. TypeOK /\ job[j].at \in Nat
  BY AtType DEF BaseInv
<1>1. IsFiniteSet(Pending(j)) /\ Cardinality(Pending(j)) \in Nat
  BY <1>0, PendingFinite
<1>2. ASSUME Pending(j)' \subseteq Pending(j), SameJob(j)
      PROVE  /\ job'[j] # Absent /\ job'[j].at \in Nat
             /\ Cardinality(Pending(j))' \in Nat
             /\ Cardinality(Pending(j))' + job[j].at <= Cardinality(Pending(j)) + job'[j].at
  <2>1. /\ Cardinality(Pending(j)') \in Nat
        /\ Cardinality(Pending(j)') <= Cardinality(Pending(j))
    BY <1>1, <1>2, FS_Subset, FS_CardinalityType
  <2>2. job'[j] # Absent /\ job'[j].at = job[j].at
    BY <1>2 DEF SameJob
  <2> QED
    BY <1>0, <1>1, <2>1, <2>2
<1>3. CASE step' = step /\ JobsKept
  <2>1. Pending(j)' = Pending(j) /\ SameJob(j)
    BY <1>3 DEF Pending, Claimed, JobsKept
  <2> QED
    BY <1>2, <2>1
<1>4. ASSUME NEW s \in Steps, Others(s), JobsKept,
             step'[s] = Idle \/ Enters(s) \/ Loaded(s) \/ MovesOn(s)
      PROVE  Pending(j)' \subseteq Pending(j) /\ SameJob(j)
  <2>1. Claimed(s)' => /\ Claimed(s) /\ step'[s].job = step[s].job
                       /\ step'[s].n = step[s].n
    BY <1>4 DEF Claimed, Idle, Enters, Routes, Loaded, MovesOn
  <2>2. ASSUME NEW t \in Steps \ {s}
        PROVE  /\ Claimed(t)' <=> Claimed(t)
               /\ step'[t].job = step[t].job /\ step'[t].n = step[t].n
    BY <1>4 DEF Others, Claimed
  <2> QED
    BY <1>4, <2>1, <2>2 DEF Pending, JobsKept
<1>5. ASSUME NEW s \in Steps, Others(s), Won(s), \A k \in Jobs \ {step[s].job} : SameJob(k)
      PROVE  /\ job'[j] # Absent /\ job'[j].at \in Nat
             /\ Cardinality(Pending(j))' \in Nat
             /\ Cardinality(Pending(j))' + job[j].at <= Cardinality(Pending(j)) + job'[j].at
  <2>1. ASSUME NEW t \in Steps \ {s}
        PROVE  /\ Claimed(t)' <=> Claimed(t)
               /\ step'[t].job = step[t].job /\ step'[t].n = step[t].n
    BY <1>5 DEF Others, Claimed
  <2>2. CASE step[s].job # j
    <3>1. step'[s].job # j
      BY <1>5, <2>2 DEF Won
    <3>2. Pending(j)' \subseteq Pending(j)
      BY <2>1, <3>1 DEF Pending
    <3> QED
      BY <1>2, <1>5, <2>2, <3>2
  <2>3. CASE step[s].job = j
    <3>1. Pending(j)' \subseteq Pending(j) \cup {step'[s].n}
      BY <2>1 DEF Pending
    <3>2. /\ IsFiniteSet(Pending(j) \cup {step'[s].n})
          /\ Cardinality(Pending(j) \cup {step'[s].n}) =
               IF step'[s].n \in Pending(j) THEN Cardinality(Pending(j))
               ELSE Cardinality(Pending(j)) + 1
      BY <1>1, FS_AddElement
    <3>3. /\ Cardinality(Pending(j)') \in Nat
          /\ Cardinality(Pending(j)') <= Cardinality(Pending(j) \cup {step'[s].n})
      BY <3>1, <3>2, FS_Subset, FS_CardinalityType
    <3>4. job'[j] # Absent /\ job'[j].at = job[j].at + 1
      BY <1>5, <2>3 DEF Won
    <3>5. Cardinality(Pending(j) \cup {step'[s].n}) \in Nat
      BY <3>2, FS_CardinalityType
    <3> QED
      BY <1>0, <1>1, <3>2, <3>3, <3>4, <3>5
  <2> QED
    BY <2>2, <2>3
<1> QED
  BY <1>2, <1>3, <1>4, <1>5, OneRequest

-----------------------------------------------------------------------------
(* The rows of the iterations.                                             *)
LEMMA OwnedNumber ==
    ASSUME BaseInv, NEW s \in Steps, Owns(s)
    PROVE  <<step[s].job, step[s].n>> \in Jobs \X Numbers
  BY DEF BaseInv, OwnInv, Owns, Stepping, Numbers

LEMMA TestedType ==
    ASSUME NEW v \in Versions \cup {Null}
    PROVE  Tested(v) \in Versions
<1> USE TrainingAssumption
<1>1. IsFiniteSet({v, 0}) /\ {v, 0} \subseteq Int /\ {v, 0} # {}
  <2>1. {v, 0} \subseteq Null..(MaxClaims + 1) /\ {v, 0} \subseteq Int
    BY DEF Versions, Null
  <2>2. IsFiniteSet({0} \cup {v})
    BY FS_Singleton, FS_AddElement
  <2>3. {v, 0} = {0} \cup {v}
    OBVIOUS
  <2>4. IsFiniteSet({v, 0})
    BY <2>2, <2>3
  <2> QED
    BY <2>1, <2>4
<1>2. Tested(v) \in {v, 0} /\ 0 <= Tested(v)
  BY <1>1, MaxOfFinite DEF Tested
<1> QED
  BY <1>2 DEF Versions, Null

(* A step only writes the row of the iteration that it owns.               *)
LEMMA IterationStep ==
    ASSUME BaseInv, [Next]_vars
    PROVE  /\ iteration' \in [Jobs \X Numbers -> {Absent, NotEvaluated} \cup Evaluated]
           /\ \A t \in Steps : RowInv(t)'
<1>0. TypeOK /\ OwnInv /\ \A s \in Steps : RowInv(s)
  BY DEF BaseInv
<1>1. ASSUME NEW t \in Steps, step[t].pc \in Evaluating
      PROVE  /\ Owns(t) /\ <<step[t].job, step[t].n>> \in Jobs \X Numbers
             /\ iteration[<<step[t].job, step[t].n>>] \in Evaluated
             /\ iteration[<<step[t].job, step[t].n>>].score = step[t].score
  BY <1>0, <1>1, StepAt, OwnedNumber DEF Evaluating, StepPcs, Owns, RowInv
<1>2. ASSUME NEW s \in Steps, Others(s), Owns(s), step'[s] = Idle \/ ~(step'[s].pc \in Evaluating),
             NEW x \in {Absent, NotEvaluated} \cup Evaluated,
             iteration' = [iteration EXCEPT ![<<step[s].job, step[s].n>>] = x]
      PROVE  /\ iteration' \in [Jobs \X Numbers -> {Absent, NotEvaluated} \cup Evaluated]
             /\ \A t \in Steps : RowInv(t)'
  <2>1. ~(step'[s].pc \in Evaluating)
    BY <1>2 DEF Idle, Evaluating
  <2>2. ASSUME NEW t \in Steps \ {s}, step[t].pc \in Evaluating
        PROVE  /\ step'[t] = step[t]
               /\ iteration'[<<step[t].job, step[t].n>>] = iteration[<<step[t].job, step[t].n>>]
    <3>1. step[t].job # step[s].job \/ step[t].n # step[s].n
      BY <1>0, <1>1, <1>2, <2>2 DEF OwnInv
    <3> QED
      BY <1>0, <1>1, <1>2, <2>2, <3>1 DEF TypeOK, Others
  <2>3. \A t \in Steps : RowInv(t)'
    <3>1. ASSUME NEW t \in Steps \ {s}
          PROVE  RowInv(t)'
      BY <1>0, <1>2, <2>2, <3>1 DEF RowInv, Others
    <3> QED
      BY <2>1, <3>1 DEF RowInv
  <2> QED
    BY <1>0, <1>2, <2>3 DEF TypeOK
<1>3. ASSUME NEW s \in Steps, NoTasks(s)
      PROVE  /\ iteration' \in [Jobs \X Numbers -> {Absent, NotEvaluated} \cup Evaluated]
             /\ \A t \in Steps : RowInv(t)'
  <2>1. Owns(s)
    BY <1>0, <1>3, StepAt DEF NoTasks, At, Owns, StepPcs
  <2>2. Others(s) /\ step'[s] = Idle
    BY <1>0, <1>3, Returning DEF NoTasks, Others
  <2> QED
    BY <1>2, <1>3, <2>1, <2>2 DEF NoTasks
<1>4. ASSUME NEW s \in Steps, NEW score \in Scores, Evaluate(s, score)
      PROVE  /\ iteration' \in [Jobs \X Numbers -> {Absent, NotEvaluated} \cup Evaluated]
             /\ \A t \in Steps : RowInv(t)'
  <2> DEFINE row == [st |-> "optimizing", score |-> score, tested |-> Tested(step'[s].cur)]
             p == <<step[s].job, step[s].n>>
  <2>1. /\ Owns(s) /\ Others(s) /\ step'[s].job = step[s].job /\ step'[s].n = step[s].n
        /\ step'[s].score = score /\ iteration' = [iteration EXCEPT ![p] = row]
    BY <1>0, <1>4, Evaluates DEF Owns
  <2>2. Tested(step'[s].cur) \in Versions
    BY <1>0, <1>4, Evaluates, TestedType DEF Stepping
  <2>3. row \in Evaluated /\ row.score = score
    BY <2>2 DEF Evaluated
  <2>4. p \in Jobs \X Numbers
    BY <2>1, OwnedNumber
  <2> HIDE DEF row
  <2>5. ASSUME NEW t \in Steps \ {s}, step[t].pc \in Evaluating
        PROVE  iteration'[<<step[t].job, step[t].n>>] = iteration[<<step[t].job, step[t].n>>]
    <3>1. step[t].job # step[s].job \/ step[t].n # step[s].n
      BY <1>0, <1>1, <2>1, <2>5 DEF OwnInv
    <3> QED
      BY <1>0, <1>1, <2>1, <2>5, <3>1 DEF TypeOK
  <2>6. ASSUME NEW t \in Steps \ {s}
        PROVE  RowInv(t)'
    BY <1>0, <2>1, <2>5, <2>6 DEF RowInv, Others
  <2>7. RowInv(s)'
    <3>1. iteration'[p] = row
      BY <1>0, <2>1, <2>4 DEF TypeOK
    <3> QED
      BY <2>1, <2>3, <3>1 DEF RowInv
  <2>8. iteration' \in [Jobs \X Numbers -> {Absent, NotEvaluated} \cup Evaluated]
    BY <1>0, <2>1, <2>3 DEF TypeOK
  <2> QED
    BY <2>6, <2>7, <2>8
<1>5. ASSUME NEW s \in Steps, Complete(s)
      PROVE  /\ iteration' \in [Jobs \X Numbers -> {Absent, NotEvaluated} \cup Evaluated]
             /\ \A t \in Steps : RowInv(t)'
  <2> DEFINE p == <<step[s].job, step[s].n>>
             row == [iteration[p] EXCEPT !.st = "completed"]
  <2>1. step[s].pc \in Evaluating
    BY <1>5 DEF Complete, At, Evaluating
  <2>2. /\ Owns(s) /\ p \in Jobs \X Numbers /\ iteration[p] \in Evaluated
        /\ iteration[p].score = step[s].score
    BY <1>1, <2>1
  <2>3. row \in Evaluated /\ row.score = step[s].score
    BY <2>2 DEF Evaluated
  <2>4. iteration' = [iteration EXCEPT ![p] = row]
    BY <1>5 DEF Complete
  <2>5. Others(s) /\ step'[s].job = step[s].job /\ step'[s].n = step[s].n
        /\ step'[s].score = step[s].score
    BY <1>0, <1>5, <2>2, Going DEF Complete, Owns, Others, SameRequest, StepPcs
  <2> HIDE DEF row
  <2>6. ASSUME NEW t \in Steps \ {s}, step[t].pc \in Evaluating
        PROVE  iteration'[<<step[t].job, step[t].n>>] = iteration[<<step[t].job, step[t].n>>]
    <3>1. step[t].job # step[s].job \/ step[t].n # step[s].n
      BY <1>0, <1>1, <2>2, <2>6 DEF OwnInv
    <3> QED
      BY <1>0, <1>1, <2>4, <2>6, <3>1 DEF TypeOK
  <2>7. ASSUME NEW t \in Steps \ {s}
        PROVE  RowInv(t)'
    BY <1>0, <2>5, <2>6, <2>7 DEF RowInv, Others
  <2>8. RowInv(s)'
    <3>1. iteration'[p] = row
      BY <1>0, <2>2, <2>4 DEF TypeOK
    <3> QED
      BY <2>3, <2>5, <3>1 DEF RowInv
  <2>9. iteration' \in [Jobs \X Numbers -> {Absent, NotEvaluated} \cup Evaluated]
    BY <1>0, <2>3, <2>4 DEF TypeOK
  <2> QED
    BY <2>7, <2>8, <2>9
<1>6. ASSUME iteration' = iteration,
             \A t \in Steps : step'[t].pc \in Evaluating =>
                /\ step[t].pc \in Evaluating /\ step'[t].job = step[t].job
                /\ step'[t].n = step[t].n /\ step'[t].score = step[t].score
      PROVE  /\ iteration' \in [Jobs \X Numbers -> {Absent, NotEvaluated} \cup Evaluated]
             /\ \A t \in Steps : RowInv(t)'
  BY <1>0, <1>6 DEF TypeOK, RowInv
<1>7. ASSUME NEW s \in Steps, Others(s), iteration' = iteration,
             ~(step'[s].pc \in Evaluating) \/ (SameRequest(s) /\ step[s].pc \in Evaluating)
      PROVE  /\ iteration' \in [Jobs \X Numbers -> {Absent, NotEvaluated} \cup Evaluated]
             /\ \A t \in Steps : RowInv(t)'
  <2>1. \A t \in Steps : step'[t].pc \in Evaluating =>
                /\ step[t].pc \in Evaluating /\ step'[t].job = step[t].job
                /\ step'[t].n = step[t].n /\ step'[t].score = step[t].score
    BY <1>7 DEF Others, SameRequest
  <2> QED
    BY <1>6, <1>7, <2>1
<1>8. ASSUME NEW s \in Steps, NEW j \in Jobs, NEW auto \in BOOLEAN, job[j] # Absent,
             Load(s, j, auto)
      PROVE  Others(s) /\ iteration' = iteration /\ ~(step'[s].pc \in Evaluating)
  <2>1. iteration' = iteration
    BY <1>8 DEF Load, rows
  <2> QED
    BY <1>0, <1>8, <2>1, Loading DEF Idle, Evaluating
<1>9. ASSUME NEW s \in Steps, NEW j \in Jobs, PostStep(s, j)
      PROVE  Others(s) /\ iteration' = iteration /\ ~(step'[s].pc \in Evaluating)
  BY <1>8, <1>9 DEF PostStep
<1>10. ASSUME NEW s \in Steps, TakenStep(s)
       PROVE  Others(s) /\ iteration' = iteration /\ ~(step'[s].pc \in Evaluating)
  <2>1. step[s].job \in Jobs /\ job[step[s].job] # Absent
    BY <1>0, <1>10, StepAt DEF TakenStep, At, BaseInv, RequestInv, Idle
  <2> QED
    BY <1>8, <1>10, <2>1 DEF TakenStep
<1>11. ASSUME NEW s \in Steps, NEW j \in Jobs, PostAuto(s, j)
       PROVE  Others(s) /\ iteration' = iteration /\ ~(step'[s].pc \in Evaluating)
  <2>1. iteration' = iteration
    BY <1>11 DEF PostAuto, rows
  <2> QED
    BY <1>0, <1>11, <2>1, Posting DEF Evaluating
<1>12. ASSUME NEW s \in Steps, NEW j \in Jobs, Take(s, j)
       PROVE  iteration' = iteration
              /\ (step' = step \/ (Others(s) /\ ~(step'[s].pc \in Evaluating)))
  <2>1. iteration' = iteration
    BY <1>12 DEF Take, rows
  <2> QED
    BY <1>0, <1>12, <2>1, Taking DEF Evaluating
<1>13. ASSUME NEW s \in Steps, MarkRunning(s)
       PROVE  Others(s) /\ iteration' = iteration /\ ~(step'[s].pc \in Evaluating)
  <2>1. iteration' = iteration
    BY <1>13 DEF MarkRunning
  <2> QED
    BY <1>0, <1>13, <2>1, Marking DEF Evaluating
<1>14. ASSUME NEW s \in Steps, Claim(s)
       PROVE  Others(s) /\ iteration' = iteration /\ ~(step'[s].pc \in Evaluating)
  <2>1. iteration' = iteration /\ RequestInv(s)
    BY <1>14 DEF Claim, BaseInv
  <2>2. Others(s) /\ (step'[s] = Idle \/ step'[s].pc \in {"start", "open"})
    BY <1>0, <1>14, <2>1, Claiming
  <2> QED
    BY <2>1, <2>2 DEF Evaluating, Idle
<1>15. ASSUME NEW s \in Steps, Finish(s)
       PROVE  Others(s) /\ iteration' = iteration /\ ~(step'[s].pc \in Evaluating)
  <2>1. iteration' = iteration
    BY <1>15 DEF Finish
  <2>2. Others(s) /\ (step'[s] = Idle \/ step'[s].pc \in {"activate", "reply"})
    BY <1>15, Finishing
  <2> QED
    BY <2>1, <2>2 DEF Evaluating, Idle
<1>16. ASSUME NEW s \in Steps, Leaves(s)
       PROVE  Others(s) /\ iteration' = iteration /\ ~(step'[s].pc \in Evaluating)
  <2>1. iteration' = iteration /\ Return(s)
    BY <1>16 DEF Leaves, Send, Throws, Evicted, rows
  <2> QED
    BY <1>0, <2>1, Returning DEF Others, Evaluating, Idle
<1>17. ASSUME NEW s \in Steps, Plain(s), ~NoTasks(s), ~Complete(s)
       PROVE  /\ Others(s) /\ iteration' = iteration
              /\ ~(step'[s].pc \in Evaluating) \/ (SameRequest(s) /\ step[s].pc \in Evaluating)
  <2>1. iteration' = iteration
    BY <1>17 DEF Plain, Start, Preflight, Deactivate, Insert, Conflict, Activate, Reply, rows
  <2> QED
    BY <1>0, <1>17, <2>1, PlainMoves DEF Evaluating, Idle
<1>18. ASSUME step' = step, iteration' = iteration
       PROVE  /\ iteration' \in [Jobs \X Numbers -> {Absent, NotEvaluated} \cup Evaluated]
              /\ \A t \in Steps : RowInv(t)'
  BY <1>0, <1>18 DEF TypeOK, RowInv
<1>19. CASE (\E j \in Jobs : Create(j) \/ Cancel(j)) \/ UNCHANGED vars
  <2>1. step' = step /\ iteration' = iteration
    BY <1>19 DEF Create, Cancel, vars, rows
  <2> QED
    BY <1>18, <2>1
<1>20. CASE \E s \in Steps, j \in Jobs : PostStep(s, j) \/ PostAuto(s, j) \/ Take(s, j)
  BY <1>7, <1>9, <1>11, <1>12, <1>18, <1>20
<1>21. CASE \E s \in Steps :
              \/ MarkRunning(s) \/ TakenStep(s) \/ Claim(s) \/ Finish(s) \/ Plain(s)
              \/ Leaves(s)
              \/ \E score \in Scores : Evaluate(s, score)
  BY <1>3, <1>4, <1>5, <1>7, <1>10, <1>13, <1>14, <1>15, <1>16, <1>17, <1>21
<1> QED
  BY <1>19, <1>20, <1>21, NextCases

-----------------------------------------------------------------------------
(* The versions.                                                           *)
VersionsKept ==
    \A v \in Versions : Has(v) => Has(v)' /\ resource'[v].of = resource[v].of

LEMMA CreateResource ==
    ASSUME BaseInv, NEW j \in Jobs, Create(j)
    PROVE  /\ resource' \in [Versions -> {Absent} \cup Resources] /\ VersionsKept
           /\ Has(0)'
           /\ \/ resource' = resource
              \/ /\ \A v \in Versions : ~Has(v)
                 /\ \A v \in Versions : Has(v)' => v = 0
                 /\ resource'[0].of = j
<1> USE TrainingAssumption
<1>0. TypeOK /\ VersionsInv /\ 0 \in Versions
  BY DEF BaseInv, Versions
<1>1. CASE Has(0)
  BY <1>0, <1>1 DEF Create, Has, TypeOK, VersionsKept
<1>2. CASE ~Has(0)
  <2> DEFINE new == [of |-> j, active |-> TRUE]
  <2>1. resource' = [resource EXCEPT ![0] = new]
    BY <1>2 DEF Create, Has
  <2>2. new \in Resources /\ new # Absent /\ new.of = j
    BY DEF Resources, Absent
  <2>3. \A v \in Versions : ~Has(v)
    <3>1. \A v \in Versions : 0 <= v
      BY DEF Versions
    <3> QED
      BY <1>0, <1>2, <3>1 DEF VersionsInv
  <2> HIDE DEF new
  <2> QED
    BY <1>0, <2>1, <2>2, <2>3 DEF Has, TypeOK, VersionsKept
<1> QED
  BY <1>1, <1>2

LEMMA DeactivateResource ==
    ASSUME BaseInv, NEW s \in Steps, Deactivate(s)
    PROVE  /\ resource' \in [Versions -> {Absent} \cup Resources] /\ VersionsKept
           /\ \A v \in Versions : Has(v)' <=> Has(v)
           /\ \A v \in Versions : Has(v)' => ~resource'[v].active
<1> SUFFICES ASSUME NEW v \in Versions
             PROVE  /\ resource'[v] \in {Absent} \cup Resources
                    /\ Has(v)' <=> Has(v)
                    /\ Has(v) => resource'[v].of = resource[v].of /\ ~resource'[v].active
  BY DEF Deactivate, VersionsKept
<1>1. resource'[v] = IF resource[v] = Absent THEN Absent
                     ELSE [resource[v] EXCEPT !.active = FALSE]
  BY DEF Deactivate
<1>2. CASE ~Has(v)
  BY <1>1, <1>2 DEF Has
<1>3. CASE Has(v)
  <2>1. resource[v] \in Resources
    BY <1>3, ResourceAt DEF BaseInv
  <2>2. /\ [resource[v] EXCEPT !.active = FALSE] \in Resources
        /\ [resource[v] EXCEPT !.active = FALSE].of = resource[v].of
        /\ ~[resource[v] EXCEPT !.active = FALSE].active
    BY <2>1 DEF Resources
  <2>3. [resource[v] EXCEPT !.active = FALSE] # Absent
    BY <2>2 DEF Resources, Absent
  <2>4. resource'[v] = [resource[v] EXCEPT !.active = FALSE]
    BY <1>1, <1>3 DEF Has
  <2> QED
    BY <1>3, <2>2, <2>3, <2>4 DEF Has
<1> QED
  BY <1>2, <1>3

LEMMA InsertResource ==
    ASSUME BaseInv, NEW s \in Steps, Insert(s)
    PROVE  LET u == NextVersion(s) IN
           /\ step[s] \in Stepping /\ step[s].pc = "insert" /\ u \in Versions \ {0} /\ ~Has(u)
           /\ resource' \in [Versions -> {Absent} \cup Resources] /\ VersionsKept
           /\ resource'[u] # Absent /\ resource'[u].of = step[s].job /\ resource'[u].active
           /\ \A v \in Versions \ {u} : resource'[v] = resource[v]
<1>0. step[s] \in Stepping /\ step[s].pc = "insert" /\ step[s].job \in Jobs
  BY StepAt DEF Insert, At, BaseInv, StepPcs, Stepping
<1> DEFINE u == NextVersion(s)
           new == [of |-> step[s].job, active |-> TRUE]
<1>1. u \in Versions \ {0}
  BY <1>0, NextVersionFits DEF BaseInv
<1>2. new \in Resources /\ new # Absent /\ new.of = step[s].job /\ new.active
  BY <1>0 DEF Resources, Absent
<1>3. resource' = [resource EXCEPT ![u] = new] /\ resource[u] = Absent
  BY DEF Insert
<1>4. resource \in [Versions -> {Absent} \cup Resources]
  BY DEF BaseInv, TypeOK
<1> HIDE DEF new, u
<1>5. /\ resource' \in [Versions -> {Absent} \cup Resources] /\ resource'[u] = new
      /\ \A v \in Versions \ {u} : resource'[v] = resource[v]
  BY <1>1, <1>2, <1>3, <1>4
<1>6. VersionsKept
  BY <1>3, <1>5 DEF VersionsKept, Has
<1>7. resource'[u] # Absent /\ ~Has(u)
  BY <1>2, <1>3, <1>5 DEF Has, u
<1> QED
  BY <1>0, <1>1, <1>2, <1>5, <1>6, <1>7 DEF u

LEMMA ResourceStep ==
    ASSUME BaseInv, [Next]_vars
    PROVE  /\ resource' \in [Versions -> {Absent} \cup Resources] /\ VersionsKept
           /\ \/ resource' = resource
              \/ \E j \in Jobs : Create(j)
              \/ \E s \in Steps : Deactivate(s) \/ Insert(s)
<1>1. CASE resource' = resource
  BY <1>1 DEF BaseInv, TypeOK, VersionsKept, Has
<1>2. \/ resource' = resource
      \/ \E j \in Jobs : Create(j)
      \/ \E s \in Steps : Deactivate(s) \/ Insert(s)
  <2>1. ASSUME NEW s \in Steps, Plain(s), ~Deactivate(s), ~Insert(s)
        PROVE  resource' = resource
    BY <2>1 DEF Plain, Start, Preflight, NoTasks, Conflict, Complete, Activate, Reply, rows
  <2>2. ASSUME NEW s \in Steps,
               \/ MarkRunning(s) \/ TakenStep(s) \/ Claim(s) \/ Finish(s) \/ Leaves(s)
               \/ \E score \in Scores : Evaluate(s, score)
        PROVE  resource' = resource
    BY <2>2 DEF MarkRunning, TakenStep, Load, Claim, Finish, Leaves, Send, Throws, Evicted,
                Evaluate, rows
  <2>3. ASSUME NEW s \in Steps, NEW j \in Jobs, PostStep(s, j) \/ PostAuto(s, j) \/ Take(s, j)
        PROVE  resource' = resource
    BY <2>3 DEF PostStep, Load, PostAuto, Take, rows
  <2>4. ASSUME NEW j \in Jobs, Cancel(j)
        PROVE  resource' = resource
    BY <2>4 DEF Cancel
  <2>5. CASE UNCHANGED vars
    BY <2>5 DEF vars, rows
  <2> QED
    BY <2>1, <2>2, <2>3, <2>4, <2>5, NextCases
<1> QED
  BY <1>1, <1>2, CreateResource, DeactivateResource, InsertResource

LEMMA ZeroKept ==
    ASSUME BaseInv, [Next]_vars, NEW j \in Jobs, job'[j] # Absent
    PROVE  Has(0)'
<1>0. TypeOK /\ 0 \in Versions
  BY TrainingAssumption DEF BaseInv, Versions
<1>1. ASSUME NEW k \in Jobs, job[k] # Absent
      PROVE  Has(0)'
  <2>1. Has(0)
    BY <1>1 DEF BaseInv, VersionsInv
  <2> QED
    BY <1>0, <2>1, ResourceStep DEF VersionsKept
<1>2. ASSUME NEW k \in Jobs, Create(k)
      PROVE  Has(0)'
  BY <1>2, CreateResource
<1>3. ASSUME NEW k \in Jobs, Cancel(k)
      PROVE  Has(0)'
  <2>1. job[k] # Absent
    BY <1>3 DEF Cancel, Absent
  <2> QED
    BY <1>1, <2>1
<1>4. ASSUME NEW s \in Steps, NEW k \in Jobs, PostStep(s, k) \/ PostAuto(s, k) \/ Take(s, k)
      PROVE  Has(0)'
  <2>1. job' = job
    BY <1>4 DEF PostStep, Load, PostAuto, Take, rows
  <2> QED
    BY <1>1, <2>1
<1>5. ASSUME NEW s \in Steps, step[s] # Idle
      PROVE  Has(0)'
  <2>1. step[s].job \in Jobs /\ job[step[s].job] # Absent
    BY <1>0, <1>5, StepAt DEF BaseInv, RequestInv
  <2> QED
    BY <1>1, <2>1
<1>6. ASSUME NEW s \in Steps,
             \/ MarkRunning(s) \/ TakenStep(s) \/ Claim(s) \/ Finish(s) \/ Plain(s) \/ Leaves(s)
             \/ \E score \in Scores : Evaluate(s, score)
      PROVE  Has(0)'
  <2>1. CASE Throws(s) \/ Evicted(s)
    BY <1>5, <2>1 DEF Throws, Evicted
  <2>2. CASE ~Throws(s) /\ ~Evicted(s)
    <3>1. step[s].pc # "idle"
      BY <1>6, <2>2 DEF MarkRunning, TakenStep, Claim, Finish, Plain, Start, Preflight, NoTasks,
                  Deactivate, Insert, Conflict, Complete, Activate, Reply, Leaves, Send,
                  Evaluate, At
    <3>2. step[s] # Idle
      BY <3>1 DEF Idle
    <3> QED
      BY <1>5, <3>2
  <2> QED
    BY <2>1, <2>2
<1>7. CASE UNCHANGED vars
  BY <1>1, <1>7 DEF vars, rows
<1> QED
  BY <1>2, <1>3, <1>4, <1>6, <1>7, NextCases

LEMMA PendingOnes ==
    ASSUME BaseInv, NEW j \in Jobs, job[j] # Absent
    PROVE  Cardinality(Pending(j)) <= job[j].at
<1>1. job[j].at \in Nat
  BY AtType DEF BaseInv
<1>2. Pending(j) \subseteq 1..job[j].at
  <2> SUFFICES ASSUME NEW s \in Steps, Claimed(s), step[s].job = j
               PROVE  step[s].n \in 1..job[j].at
    BY DEF Pending
  <2>1. step[s] \in Stepping /\ step[s] # Idle /\ Owns(s)
    BY StepAt DEF BaseInv, Claimed, StepPcs, Owns
  <2> QED
    BY <1>1, <2>1 DEF BaseInv, OwnInv, RequestInv, Stepping
<1>3. IsFiniteSet(1..job[j].at) /\ Cardinality(1..job[j].at) = job[j].at
  <2> DEFINE n == job[j].at
  <2>1. 1 \in Int /\ n \in Int
    BY <1>1
  <2> HIDE DEF n
  <2>2. /\ IsFiniteSet(1..n)
        /\ Cardinality(1..n) = IF 1 > n THEN 0 ELSE n - 1 + 1
    BY <2>1, FS_Interval
  <2>3. n \in Nat
    BY <1>1 DEF n
  <2>4. Cardinality(1..n) = n
    BY <2>2, <2>3
  <2> QED
    BY <2>2, <2>4 DEF n
<1> QED
  BY <1>2, <1>3, FS_Subset

(* The step that writes a version uses up its claim.                       *)
LEMMA InsertUses ==
    ASSUME BaseInv, NEW s \in Steps, Insert(s), NEW j \in Jobs, step[s].job = j
    PROVE  /\ job' = job
           /\ Cardinality(Pending(j))' \in Nat
           /\ Cardinality(Pending(j))' <= Cardinality(Pending(j)) - 1
<1> DEFINE P == Pending(j)
           Q == Pending(j)'
<1>1. step[s] \in Stepping /\ step[s].pc = "insert" /\ j \in Jobs
  BY StepAt DEF Insert, At, BaseInv, StepPcs, Stepping
<1>2. step'[s].pc = "apply" /\ Others(s) /\ SameRequest(s) /\ job' = job
  <2>1. TypeOK /\ "apply" \in StepPcs
    BY DEF BaseInv, StepPcs
  <2>2. Go(s, "apply") /\ job' = job
    BY DEF Insert
  <2> QED
    BY <1>1, <2>1, <2>2, Going DEF Others
<1>3. step[s].n \in P
  BY <1>1 DEF Pending, Claimed
<1>4. Q \subseteq P \ {step[s].n}
  <2> SUFFICES ASSUME NEW t \in Steps, Claimed(t)', step'[t].job = j
               PROVE  step'[t].n \in P /\ step'[t].n # step[s].n
    BY <1>2 DEF Pending, SameRequest
  <2>1. t # s
    BY <1>2 DEF Claimed
  <2>2. step'[t] = step[t] /\ Claimed(t) /\ step[t].job = j
    BY <1>2, <2>1 DEF Others, Claimed
  <2>3. Owns(t) /\ Owns(s)
    BY <1>1, <2>2, StepAt DEF Owns, Claimed, StepPcs, BaseInv
  <2>4. step[t].n # step[s].n
    BY <2>1, <2>2, <2>3 DEF BaseInv, OwnInv
  <2>5. step[t].n \in P
    BY <2>2 DEF Pending
  <2> QED
    BY <2>2, <2>4, <2>5
<1>5. IsFiniteSet(P) /\ Cardinality(P) \in Nat
  BY <1>1, PendingFinite DEF BaseInv
<1> HIDE DEF P, Q
<1>6. IsFiniteSet(P \ {step[s].n}) /\ Cardinality(P \ {step[s].n}) = Cardinality(P) - 1
  BY <1>3, <1>5, FS_RemoveElement
<1>7. Cardinality(Q) \in Nat /\ Cardinality(Q) <= Cardinality(P \ {step[s].n})
  BY <1>4, <1>6, FS_Subset, FS_CardinalityType
<1>8. Cardinality(Q) <= Cardinality(P) - 1
  BY <1>6, <1>7
<1> QED
  BY <1>2, <1>7, <1>8 DEF P, Q

(* A step's next version follows on the versions there are.                *)
LEMMA Follows ==
    ASSUME BaseInv, NEW s \in Steps, step[s] \in Stepping
    PROVE  /\ NextVersion(s) \in Versions \ {0}
           /\ \A w \in Versions : w < NextVersion(s) => Has(w)
<1> USE TrainingAssumption
<1>1. NextVersion(s) \in Versions \ {0}
  BY NextVersionFits DEF BaseInv
<1>2. Has(0)
  <2>1. step[s] # Idle
    BY DEF Stepping, Idle
  <2> QED
    BY <2>1, StepAt DEF BaseInv, RequestInv, VersionsInv
<1>3. step[s].cur \in Versions \cup {Null}
  BY DEF Stepping
<1>4. CASE step[s].cur = Null
  <2>1. \A w \in Versions : w < NextVersion(s) => w = 0
    BY <1>4 DEF NextVersion, Versions
  <2> QED
    BY <1>1, <1>2, <2>1
<1>5. CASE step[s].cur \in Versions /\ step[s].cur # Null
  <2>1. Has(step[s].cur)
    BY <1>5 DEF BaseInv, CurInv
  <2>2. \A w \in Versions : w < NextVersion(s) => w <= step[s].cur
    BY <1>5 DEF NextVersion, Versions
  <2> QED
    BY <1>1, <1>5, <2>1, <2>2 DEF BaseInv, VersionsInv
<1> QED
  BY <1>3, <1>4, <1>5

(* It belongs to the job whose versions there are, and has a claim left.   *)
LEMMA Continues ==
    ASSUME BaseInv, NEW s \in Steps, Insert(s)
    PROVE  LET j == step[s].job
               u == NextVersion(s) IN
           /\ u + Cardinality(Pending(j)) - 1 <= job[j].at
           /\ \A v \in Versions : Has(v) => v < u
           /\ \A v \in Versions \ {0} : Has(v) => resource[v].of = j
<1> DEFINE x == step[s]
           j == x.job
           u == NextVersion(s)
<1> USE TrainingAssumption
<1>1. x \in Stepping /\ x # Idle /\ ~Has(u) /\ j \in Jobs
  BY InsertResource, StepAt DEF BaseInv, StepPcs
<1>2. u \in Versions \ {0} /\ \A w \in Versions : w < u => Has(w)
  BY <1>1, Follows
<1>3. \A v \in Versions : Has(v) => v < u
  <2> SUFFICES ASSUME NEW v \in Versions, Has(v), ~(v < u)
               PROVE  FALSE
    OBVIOUS
  <2> HIDE DEF u
  <2>1. u <= v
    BY <1>2 DEF Versions
  <2>2. Has(u)
    BY <1>2, <2>1 DEF BaseInv, VersionsInv
  <2> QED
    BY <1>1, <2>2
<1>4. job[j] # Absent /\ job[j].at \in Nat
  BY <1>1, AtType DEF BaseInv, RequestInv
<1>5. Cardinality(Pending(j)) \in Nat
  BY <1>1, PendingFinite DEF BaseInv
<1>6. x.cur \in Versions \cup {Null} /\ (x.cur # Null => Has(x.cur) /\ resource[x.cur].of = j)
  BY <1>1 DEF BaseInv, CurInv, Stepping
<1>7. CASE x.cur \in {Null, 0}
  <2>1. u = 1
    BY <1>7 DEF NextVersion, Null
  <2>2. \A v \in Versions \ {0} : ~Has(v)
    BY <1>3, <2>1 DEF Versions
  <2>3. Cardinality(Pending(j)) <= job[j].at
    BY <1>1, <1>4, PendingOnes
  <2>4. u + Cardinality(Pending(j)) - 1 <= job[j].at
    <3> HIDE DEF u
    <3> QED
      BY <1>4, <1>5, <2>1, <2>3
  <2> QED
    BY <1>3, <2>2, <2>4
<1>8. CASE x.cur \in Versions \ {0}
  <2>1. x.cur # Null /\ u = x.cur + 1
    BY <1>8 DEF NextVersion, Null, Versions
  <2>2. Has(x.cur) /\ resource[x.cur].of = j
    BY <1>6, <2>1
  <2>3. x.cur + Cardinality(Pending(j)) <= job[j].at
    BY <1>8, <2>2 DEF BaseInv, VersionsInv
  <2>4. u + Cardinality(Pending(j)) - 1 <= job[j].at
    <3> HIDE DEF u
    <3> QED
      BY <1>4, <1>5, <1>8, <2>1, <2>3 DEF Versions
  <2>5. \A v \in Versions \ {0} : Has(v) => resource[v].of = j
    BY <1>8, <2>2 DEF BaseInv, VersionsInv
  <2> QED
    BY <1>3, <2>4, <2>5
<1> QED
  BY <1>6, <1>7, <1>8

LEMMA VersionsStep ==
    ASSUME BaseInv, [Next]_vars
    PROVE  VersionsInv'
<1> USE TrainingAssumption
<1>0. TypeOK /\ VersionsInv /\ 0 \in Versions
  BY DEF BaseInv, Versions
<1>1. \A j \in Jobs : job'[j] # Absent => Has(0)'
  BY ZeroKept
<1>2. ASSUME NEW v \in Versions, Has(v)
      PROVE  /\ Has(v)' /\ resource'[v].of = resource[v].of /\ resource[v].of \in Jobs
             /\ job[resource[v].of] # Absent /\ job'[resource[v].of] # Absent
  <2>1. resource[v].of \in Jobs /\ job[resource[v].of] # Absent
    BY <1>0, <1>2, ResourceAt DEF VersionsInv
  <2>2. job'[resource[v].of] # Absent
    BY <2>1, PendingStep
  <2> QED
    BY <1>2, <2>1, <2>2, ResourceStep DEF VersionsKept
<1>3. ASSUME NEW v \in Versions \ {0}, Has(v), NEW k \in Jobs, resource[v].of = k
      PROVE  v + Cardinality(Pending(k))' <= job'[k].at
  <2>1. job[k] # Absent
    BY <1>2, <1>3
  <2>2. v + Cardinality(Pending(k)) <= job[k].at
    BY <1>0, <1>3 DEF VersionsInv
  <2>3. job[k].at \in Nat /\ Cardinality(Pending(k)) \in Nat
    BY <1>0, <2>1, AtType, PendingFinite
  <2>4. /\ job'[k].at \in Nat /\ Cardinality(Pending(k))' \in Nat
        /\ Cardinality(Pending(k))' + job[k].at <= Cardinality(Pending(k)) + job'[k].at
    BY <2>1, PendingStep
  <2> QED
    BY <2>2, <2>3, <2>4 DEF Versions
<1>4. ASSUME \A v \in Versions : Has(v)' <=> Has(v)
      PROVE  VersionsInv'
  <2>1. \A v \in Versions : Has(v)' => job'[resource'[v].of] # Absent
    BY <1>2, <1>4
  <2>2. \A v, w \in Versions : Has(v)' /\ w <= v => Has(w)'
    BY <1>0, <1>4 DEF VersionsInv
  <2>3. \A v, w \in Versions \ {0} : Has(v)' /\ Has(w)' => resource'[v].of = resource'[w].of
    BY <1>0, <1>2, <1>4 DEF VersionsInv
  <2>4. ASSUME NEW v \in Versions \ {0}, Has(v)'
        PROVE  (v + Cardinality(Pending(resource[v].of)) <= job[resource[v].of].at)'
    <3>1. PICK k \in Jobs : resource[v].of = k /\ resource'[v].of = k
      BY <1>2, <1>4, <2>4
    <3>2. v + Cardinality(Pending(k))' <= job'[k].at
      BY <1>3, <1>4, <2>4, <3>1
    <3> QED
      BY <3>1, <3>2
  <2> QED
    BY <1>1, <2>1, <2>2, <2>3, <2>4 DEF VersionsInv
<1>5. ASSUME NEW j \in Jobs, Create(j), \A v \in Versions : Has(v)' => v = 0,
             resource'[0].of = j
      PROVE  VersionsInv'
  <2>1. job'[j] # Absent
    BY <1>0, <1>5 DEF Create, TypeOK, Absent
  <2>2. \A v, w \in Versions : Has(v)' /\ w <= v => Has(w)'
    <3>1. \A v, w \in Versions : v = 0 /\ w <= v => w = 0
      BY DEF Versions
    <3> QED
      BY <1>5, <3>1
  <2> QED
    BY <1>1, <1>5, <2>1, <2>2 DEF VersionsInv
<1>6. ASSUME NEW s \in Steps, Insert(s)
      PROVE  VersionsInv'
  <2>1. PICK j \in Jobs : step[s].job = j
    BY <1>0, <1>6, StepAt, InsertResource DEF Stepping
  <2>2. PICK u \in Versions \ {0} : NextVersion(s) = u
    BY <1>6, InsertResource
  <2>3. /\ step[s] \in Stepping /\ ~Has(u)
        /\ resource'[u] # Absent /\ resource'[u].of = j
        /\ \A v \in Versions \ {u} : resource'[v] = resource[v]
    BY <1>6, <2>1, <2>2, InsertResource
  <2>4. /\ u + Cardinality(Pending(j)) - 1 <= job[j].at
        /\ \A v \in Versions : Has(v) => v < u
        /\ \A v \in Versions \ {0} : Has(v) => resource[v].of = j
    BY <1>6, <2>1, <2>2, Continues
  <2>5. \A w \in Versions : w < u => Has(w)
    BY <2>2, <2>3, Follows
  <2>6. job[j] # Absent /\ job[j].at \in Nat
    <3>1. step[s] # Idle
      BY <2>3 DEF Stepping, Idle
    <3> QED
      BY <1>0, <2>1, <3>1, AtType DEF BaseInv, RequestInv
  <2>7. u + Cardinality(Pending(j))' <= job'[j].at
    <3>1. Cardinality(Pending(j)) \in Nat
      BY <1>0, PendingFinite
    <3>2. /\ job' = job /\ Cardinality(Pending(j))' \in Nat
          /\ Cardinality(Pending(j))' <= Cardinality(Pending(j)) - 1
      BY <1>6, <2>1, InsertUses
    <3> QED
      BY <2>4, <2>6, <3>1, <3>2 DEF Versions
  <2>8. \A v \in Versions : Has(v)' => v <= u /\ job'[resource'[v].of] # Absent
    <3>1. ASSUME NEW v \in Versions \ {u}, Has(v)'
          PROVE  v <= u /\ job'[resource'[v].of] # Absent
      <4>1. Has(v) /\ v < u
        BY <2>3, <2>4, <3>1 DEF Has
      <4> QED
        BY <1>2, <4>1 DEF Versions
    <3>2. job'[j] # Absent
      BY <2>6, PendingStep
    <3> QED
      BY <2>3, <3>1, <3>2 DEF Versions
  <2>9. \A v, w \in Versions : Has(v)' /\ w <= v => Has(w)'
    <3> SUFFICES ASSUME NEW v \in Versions, NEW w \in Versions, Has(v)', w <= v
                 PROVE  Has(w)'
      OBVIOUS
    <3>1. CASE w = u
      BY <2>3, <3>1 DEF Has
    <3>2. CASE w # u
      <4>1. v <= u
        BY <2>8
      <4>2. w < u
        BY <3>2, <4>1 DEF Versions
      <4> QED
        BY <1>2, <2>5, <4>2
    <3> QED
      BY <3>1, <3>2
  <2>10. \A v \in Versions \ {0} : Has(v)' => resource'[v].of = j
    BY <2>3, <2>4 DEF Has
  <2>11. ASSUME NEW v \in Versions \ {0}, Has(v)'
         PROVE  (v + Cardinality(Pending(resource[v].of)) <= job[resource[v].of].at)'
    <3>1. resource'[v].of = j /\ v <= u
      BY <2>8, <2>10, <2>11
    <3>2. job'[j].at \in Nat /\ Cardinality(Pending(j))' \in Nat
      BY <2>6, PendingStep
    <3>3. v + Cardinality(Pending(j))' <= job'[j].at
      BY <2>7, <3>1, <3>2 DEF Versions
    <3> QED
      BY <3>1, <3>3
  <2> QED
    BY <1>1, <2>8, <2>9, <2>10, <2>11 DEF VersionsInv
<1>7. CASE resource' = resource
  BY <1>4, <1>7 DEF Has
<1>8. ASSUME NEW s \in Steps, Deactivate(s)
      PROVE  VersionsInv'
  BY <1>4, <1>8, DeactivateResource
<1>9. ASSUME NEW j \in Jobs, Create(j)
      PROVE  VersionsInv'
  BY <1>5, <1>7, <1>9, CreateResource
<1> QED
  BY <1>6, <1>7, <1>8, <1>9, ResourceStep

(* What a request knows of the versions, it learns when it evaluates.      *)
Learns(s) ==
    /\ step'[s] \in Stepping /\ step'[s].pc # "insert" /\ resource' = resource
    /\ step'[s].cur \in Mine(s) \cup {Null} /\ step'[s].job = step[s].job
Remembers(s) ==
    /\ step[s] \in Stepping /\ step'[s] \in Stepping
    /\ step'[s].cur = step[s].cur /\ step'[s].job = step[s].job

LEMMA VersionKnown ==
    ASSUME BaseInv, [Next]_vars
    PROVE  \/ step' = step
           \/ \E s \in Steps :
                 /\ Others(s)
                 /\ \/ step'[s] = Idle \/ step'[s] \in Routes
                    \/ step'[s] \in Stepping /\ step'[s].cur = Null /\ step'[s].pc # "insert"
                    \/ Learns(s)
                    \/ Remembers(s) /\ (step'[s].pc = "insert" => Deactivate(s))
<1>0. TypeOK
  BY DEF BaseInv
<1>1. ASSUME NEW s \in Steps, NEW j \in Jobs, NEW auto \in BOOLEAN, job[j] # Absent,
             Load(s, j, auto)
      PROVE  /\ Others(s)
             /\ \/ step'[s] = Idle
                \/ step'[s] \in Stepping /\ step'[s].cur = Null /\ step'[s].pc # "insert"
  BY <1>0, <1>1, Loading
<1>2. ASSUME NEW s \in Steps, TakenStep(s)
      PROVE  /\ Others(s)
             /\ \/ step'[s] = Idle
                \/ step'[s] \in Stepping /\ step'[s].cur = Null /\ step'[s].pc # "insert"
  <2>1. step[s].job \in Jobs /\ job[step[s].job] # Absent
    BY <1>0, <1>2, StepAt DEF TakenStep, At, BaseInv, RequestInv, Idle
  <2> QED
    BY <1>1, <1>2, <2>1 DEF TakenStep
<1>3. ASSUME NEW s \in Steps, NEW j \in Jobs, PostStep(s, j)
      PROVE  /\ Others(s)
             /\ \/ step'[s] = Idle
                \/ step'[s] \in Stepping /\ step'[s].cur = Null /\ step'[s].pc # "insert"
  BY <1>1, <1>3 DEF PostStep
<1>4. ASSUME NEW s \in Steps, NEW j \in Jobs, PostAuto(s, j) \/ Take(s, j)
      PROVE  step' = step \/ (Others(s) /\ step'[s] \in Routes)
  BY <1>0, <1>4, Posting, Taking
<1>5. ASSUME NEW s \in Steps, MarkRunning(s)
      PROVE  Others(s) /\ step'[s] \in Routes
  BY <1>0, <1>5, Marking
<1>6. ASSUME NEW s \in Steps, Claim(s)
      PROVE  /\ Others(s)
             /\ step'[s] = Idle \/ (Remembers(s) /\ step'[s].pc # "insert")
  <2>1. RequestInv(s)
    BY DEF BaseInv
  <2> QED
    BY <1>0, <1>6, <2>1, Claiming DEF Remembers
<1>7. ASSUME NEW s \in Steps, Finish(s)
      PROVE  /\ Others(s)
             /\ step'[s] = Idle \/ (Remembers(s) /\ step'[s].pc # "insert")
  BY <1>7, Finishing DEF Remembers, SameRequest
<1>8. ASSUME NEW s \in Steps, Plain(s)
      PROVE  /\ Others(s)
             /\ step'[s] = Idle \/ (Remembers(s) /\ (step'[s].pc = "insert" => Deactivate(s)))
  <2>1. step[s].pc = "deactivate" => Deactivate(s)
    BY <1>8 DEF Plain, Start, Preflight, NoTasks, Insert, Conflict, Complete, Activate, Reply,
                At
  <2> QED
    BY <1>0, <1>8, <2>1, PlainMoves DEF Remembers, SameRequest
<1>9. ASSUME NEW s \in Steps, Leaves(s)
      PROVE  Others(s) /\ step'[s] = Idle
  BY <1>0, <1>9, Returning DEF Leaves, Send, Throws, Evicted, Others
<1>10. ASSUME NEW s \in Steps, NEW score \in Scores, Evaluate(s, score)
       PROVE  Others(s) /\ Learns(s)
  <2>1. resource' = resource
    BY <1>10 DEF Evaluate
  <2> QED
    BY <1>0, <1>10, <2>1, Evaluates DEF Learns
<1>11. ASSUME NEW j \in Jobs, Create(j) \/ Cancel(j)
       PROVE  step' = step
  BY <1>11 DEF Create, Cancel
<1>12. CASE UNCHANGED vars
  BY <1>12 DEF vars
<1> QED
  BY <1>2, <1>3, <1>4, <1>5, <1>6, <1>7, <1>8, <1>9, <1>10, <1>11, <1>12, NextCases

LEMMA CurStep ==
    ASSUME BaseInv, [Next]_vars, NEW t \in Steps
    PROVE  CurInv(t)'
<1>1. ASSUME step[t] \in Stepping, step'[t].cur = step[t].cur, step'[t].job = step[t].job
      PROVE  CurInv(t)'
  <2> SUFFICES ASSUME step[t].cur # Null
               PROVE  Has(step[t].cur)' /\ resource'[step'[t].cur].of = step'[t].job
    BY <1>1 DEF CurInv
  <2> DEFINE v == step[t].cur
  <2>1. v \in Versions
    BY <1>1 DEF Stepping
  <2>2. Has(v) /\ resource[v].of = step[t].job
    BY <1>1 DEF BaseInv, CurInv
  <2>3. resource'[v] # Absent /\ resource'[v].of = resource[v].of
    BY <2>1, <2>2, ResourceStep DEF VersionsKept, Has
  <2> QED
    BY <1>1, <2>2, <2>3 DEF Has
<1>2. CASE step'[t] = step[t]
  BY <1>1, <1>2 DEF CurInv
<1>3. CASE step'[t] = Idle \/ step'[t] \in Routes
  BY <1>3 DEF CurInv, Idle, Routes, Stepping
<1>4. CASE step'[t].cur = Null
  BY <1>4 DEF CurInv
<1>5. CASE Learns(t)
  <2> SUFFICES ASSUME step'[t].cur # Null
               PROVE  resource'[step'[t].cur] # Absent
                      /\ resource'[step'[t].cur].of = step'[t].job
    BY DEF CurInv, Has
  <2>1. resource[step'[t].cur] = [of |-> step[t].job, active |-> TRUE]
    BY <1>5 DEF Learns, Mine
  <2> QED
    BY <1>5, <2>1 DEF Learns, Absent
<1>6. CASE Remembers(t)
  BY <1>1, <1>6 DEF Remembers
<1> QED
  BY <1>2, <1>3, <1>4, <1>5, <1>6, VersionKnown DEF Others

(* Two steps that could each write a version would write the same one.     *)
LEMMA InsertStep ==
    ASSUME BaseInv, [Next]_vars, NEW t \in Steps
    PROVE  InsertInv(t)'
<1> SUFFICES ASSUME step'[t].pc = "insert", resource'[NextVersion(t)'] = Absent
             PROVE  \A v \in Versions : Has(v)' => ~resource'[v].active
  BY DEF InsertInv, At, Has
<1>1. CASE \E s \in Steps : Deactivate(s)
  BY <1>1, DeactivateResource
<1>2. CASE ~\E s \in Steps : Deactivate(s)
  <2>1. step[t].pc = "insert" /\ step'[t].cur = step[t].cur
    BY <1>2, VersionKnown DEF Others, Idle, Routes, Learns, Remembers, BaseInv
  <2>2. step[t] \in Stepping
    BY <2>1, StepAt DEF BaseInv, StepPcs
  <2>3. PICK u \in Versions \ {0} : NextVersion(t) = u
    BY <2>2, Follows
  <2>4. resource'[u] = Absent
    <3>1. NextVersion(t)' = u
      BY <2>1, <2>3 DEF NextVersion
    <3> QED
      BY <3>1
  <2>5. ~Has(u)
    BY <2>4, ResourceStep DEF VersionsKept, Has
  <2>6. \A w \in Versions : w < u => Has(w)
    BY <2>2, <2>3, Follows
  <2>7. \A v \in Versions : Has(v) => ~resource[v].active
    BY <2>1, <2>3, <2>5 DEF BaseInv, InsertInv, At
  <2>8. CASE resource' = resource
    BY <2>7, <2>8 DEF Has
  <2>9. ASSUME NEW j \in Jobs, Create(j)
        PROVE  resource' = resource
    <3>1. 0 \in Versions /\ 0 < u
      BY TrainingAssumption DEF Versions
    <3>2. Has(0)
      BY <2>6, <3>1
    <3> QED
      BY <2>9, <3>1, <3>2, CreateResource
  <2>10. ASSUME NEW s \in Steps, Insert(s)
         PROVE  FALSE
    <3>1. PICK w \in Versions \ {0} : NextVersion(s) = w
      BY <2>10, InsertResource
    <3>2. step[s] \in Stepping /\ ~Has(w) /\ resource'[w] # Absent
      BY <2>10, <3>1, InsertResource
    <3>3. \A v \in Versions : v < w => Has(v)
      BY <3>1, <3>2, Follows
    <3>4. ~(u < w) /\ ~(w < u)
      BY <2>5, <2>6, <3>2, <3>3
    <3>5. u = w
      BY <3>4 DEF Versions
    <3> QED
      BY <2>4, <3>2, <3>5
  <2> QED
    BY <1>2, <2>8, <2>9, <2>10, ResourceStep
<1> QED
  BY <1>1, <1>2

-----------------------------------------------------------------------------
(* The other variables.                                                    *)
LEMMA PromptStep ==
    ASSUME BaseInv, [Next]_vars
    PROVE  prompt' \in Versions
<1>0. TypeOK
  BY DEF BaseInv
<1>1. CASE prompt' = prompt
  BY <1>0, <1>1 DEF TypeOK
<1>2. ASSUME NEW s \in Steps, Complete(s)
      PROVE  prompt' \in Versions
  <2>1. step[s] \in Stepping
    BY <1>0, <1>2, StepAt DEF Complete, StepPcs
  <2>2. NextVersion(s) \in Versions
    BY <2>1, Follows
  <2> QED
    BY <1>0, <1>2, <2>2 DEF Complete, TypeOK
<1>3. ASSUME NEW s \in Steps, Activate(s)
      PROVE  prompt' \in Versions
  <2>1. step[s] \in Stepping
    BY <1>0, <1>3, StepAt DEF Activate, At, StepPcs
  <2>2. NextVersion(s) \in Versions /\ step[s].bestVer \in Versions \cup {Null}
    BY <2>1, Follows DEF Stepping
  <2> QED
    BY <1>0, <1>3, <2>2 DEF Activate, TypeOK
<1>4. ASSUME NEW s \in Steps, Plain(s), ~Complete(s), ~Activate(s)
      PROVE  prompt' = prompt
  BY <1>4 DEF Plain, Start, Preflight, NoTasks, Deactivate, Insert, Conflict, Reply, rows
<1>5. ASSUME NEW s \in Steps,
             \/ MarkRunning(s) \/ TakenStep(s) \/ Claim(s) \/ Finish(s) \/ Leaves(s)
             \/ \E score \in Scores : Evaluate(s, score)
      PROVE  prompt' = prompt
  BY <1>5 DEF MarkRunning, TakenStep, Load, Claim, Finish, Leaves, Send, Throws, Evicted,
              Evaluate, rows
<1>6. ASSUME NEW s \in Steps, NEW j \in Jobs, PostStep(s, j) \/ PostAuto(s, j) \/ Take(s, j)
      PROVE  prompt' = prompt
  BY <1>6 DEF PostStep, Load, PostAuto, Take, rows
<1>7. ASSUME NEW j \in Jobs, Create(j) \/ Cancel(j)
      PROVE  prompt' = prompt
  BY <1>7 DEF Create, Cancel
<1>8. CASE (\E j \in Jobs : Create(j) \/ Cancel(j)) \/ UNCHANGED vars
  <2>1. prompt' = prompt
    BY <1>7, <1>8 DEF vars, rows
  <2> QED
    BY <1>1, <2>1
<1>9. CASE \E s \in Steps, j \in Jobs : PostStep(s, j) \/ PostAuto(s, j) \/ Take(s, j)
  BY <1>1, <1>6, <1>9
<1>10. CASE \E s \in Steps :
              \/ MarkRunning(s) \/ TakenStep(s) \/ Claim(s) \/ Finish(s) \/ Plain(s)
              \/ Leaves(s)
              \/ \E score \in Scores : Evaluate(s, score)
  BY <1>1, <1>2, <1>3, <1>4, <1>5, <1>10
<1> QED
  BY <1>8, <1>9, <1>10, NextCases

(* A message is added or taken at a time.                                  *)
Sent(j) == messages' = [messages EXCEPT ![j] = @ + 1]

LEMMA MessagesStep ==
    ASSUME BaseInv, [Next]_vars
    PROVE  messages' \in [Jobs -> Nat]
<1>0. TypeOK
  BY DEF BaseInv
<1>1. CASE messages' = messages
  BY <1>0, <1>1 DEF TypeOK
<1>2. ASSUME NEW j \in Jobs, Sent(j)
      PROVE  messages' \in [Jobs -> Nat]
  BY <1>0, <1>2 DEF TypeOK, Sent
<1>3. ASSUME NEW s \in Steps, NEW j \in Jobs, Take(s, j)
      PROVE  messages' \in [Jobs -> Nat]
  <2>1. messages[j] - 1 \in Nat
    BY <1>0, <1>3 DEF Take, TypeOK
  <2> QED
    BY <1>0, <1>3, <2>1 DEF Take, TypeOK
<1>4. ASSUME NEW s \in Steps, Leaves(s) \/ Reply(s)
      PROVE  messages' = messages \/ \E j \in Jobs : Sent(j)
  <2>1. CASE Send(s) \/ Reply(s)
    <3>1. step[s].job \in Jobs
      BY <1>0, <2>1, StepAt DEF Send, Reply, At, Idle
    <3> QED
      BY <2>1, <3>1 DEF Send, Reply, Sent
  <2>2. CASE Throws(s)
    BY <2>2 DEF Throws
  <2>3. CASE Evicted(s)
    <3>1. step[s].job \in Jobs
      BY <1>0, <2>3, StepAt DEF Evicted
    <3> QED
      BY <2>3, <3>1 DEF Evicted, Sent
  <2> QED
    BY <1>4, <2>1, <2>2, <2>3 DEF Leaves
<1>5. ASSUME NEW s \in Steps, Plain(s), ~Reply(s)
      PROVE  messages' = messages
  BY <1>5 DEF Plain, Start, Preflight, NoTasks, Deactivate, Insert, Conflict, Complete,
              Activate
<1>6. ASSUME NEW s \in Steps,
             \/ MarkRunning(s) \/ TakenStep(s) \/ Claim(s) \/ Finish(s)
             \/ \E score \in Scores : Evaluate(s, score)
      PROVE  messages' = messages
  BY <1>6 DEF MarkRunning, TakenStep, Load, Claim, Finish, Evaluate
<1>7. ASSUME NEW s \in Steps, NEW j \in Jobs, PostStep(s, j) \/ PostAuto(s, j)
      PROVE  messages' = messages
  BY <1>7 DEF PostStep, Load, PostAuto
<1>8. ASSUME NEW j \in Jobs, Create(j) \/ Cancel(j)
      PROVE  messages' = messages
  BY <1>8 DEF Create, Cancel
<1>9. CASE (\E j \in Jobs : Create(j) \/ Cancel(j)) \/ UNCHANGED vars
  <2>1. messages' = messages
    BY <1>8, <1>9 DEF vars
  <2> QED
    BY <1>1, <2>1
<1>10. CASE \E s \in Steps, j \in Jobs : PostStep(s, j) \/ PostAuto(s, j) \/ Take(s, j)
  BY <1>1, <1>3, <1>7, <1>10
<1>11. CASE \E s \in Steps :
              \/ MarkRunning(s) \/ TakenStep(s) \/ Claim(s) \/ Finish(s) \/ Plain(s)
              \/ Leaves(s)
              \/ \E score \in Scores : Evaluate(s, score)
  BY <1>1, <1>2, <1>4, <1>5, <1>6, <1>11
<1> QED
  BY <1>9, <1>10, <1>11, NextCases

(* The counters of the bounds, and what a step adds to the history.        *)
LEMMA BoundsStep ==
    ASSUME BaseInv, [Next]_vars
    PROVE  /\ posts' \in 0..MaxPosts /\ crashes' \in 0..MaxCrashes
           /\ posts \in Nat /\ crashes \in Nat
           /\ \/ posts' = posts
              \/ posts' = posts + 1 /\ \E s \in Steps, j \in Jobs : PostStep(s, j) \/ PostAuto(s, j)
           /\ \/ crashes' = crashes
              \/ crashes' = crashes + 1 /\ \E s \in Steps : Throws(s) \/ Evicted(s)
<1> USE TrainingAssumption
<1>0. posts \in 0..MaxPosts /\ crashes \in 0..MaxCrashes
  BY DEF BaseInv, TypeOK
<1>1. ASSUME NEW s \in Steps, NEW j \in Jobs, PostStep(s, j) \/ PostAuto(s, j)
      PROVE  posts' = posts + 1 /\ posts < MaxPosts /\ crashes' = crashes
  BY <1>1 DEF PostStep, PostAuto, Load, Post
<1>2. ASSUME NEW s \in Steps, Throws(s) \/ Evicted(s)
      PROVE  posts' = posts /\ crashes < MaxCrashes /\ crashes' = crashes + 1
  BY <1>2 DEF Throws, Evicted
<1>3. ASSUME NEW s \in Steps, NEW j \in Jobs, Take(s, j)
      PROVE  posts' = posts /\ crashes' = crashes
  BY <1>3 DEF Take, bounds
<1>4. ASSUME NEW s \in Steps,
             \/ MarkRunning(s) \/ TakenStep(s) \/ Claim(s) \/ Finish(s) \/ Plain(s) \/ Send(s)
             \/ \E score \in Scores : Evaluate(s, score)
      PROVE  posts' = posts /\ crashes' = crashes
  BY <1>4 DEF MarkRunning, TakenStep, Load, Claim, Finish, Plain, Start, Preflight, NoTasks,
              Deactivate, Insert, Conflict, Complete, Activate, Reply, Send, Evaluate, bounds
<1>5. ASSUME NEW j \in Jobs, Create(j) \/ Cancel(j)
      PROVE  posts' = posts /\ crashes' = crashes
  BY <1>5 DEF Create, Cancel, bounds
<1>6. CASE (\E j \in Jobs : Create(j) \/ Cancel(j)) \/ UNCHANGED vars
  <2>1. posts' = posts /\ crashes' = crashes
    BY <1>5, <1>6 DEF vars, bounds
  <2> QED
    BY <1>0, <2>1
<1>7. CASE \E s \in Steps, j \in Jobs : PostStep(s, j) \/ PostAuto(s, j) \/ Take(s, j)
  <2>1. PICK s \in Steps, j \in Jobs : PostStep(s, j) \/ PostAuto(s, j) \/ Take(s, j)
    BY <1>7
  <2>2. CASE PostStep(s, j) \/ PostAuto(s, j)
    BY <1>0, <1>1, <2>2
  <2>3. CASE Take(s, j)
    BY <1>0, <1>3, <2>3
  <2> QED
    BY <2>1, <2>2, <2>3
<1>8. CASE \E s \in Steps :
              \/ MarkRunning(s) \/ TakenStep(s) \/ Claim(s) \/ Finish(s) \/ Plain(s)
              \/ Leaves(s)
              \/ \E score \in Scores : Evaluate(s, score)
  <2>1. PICK s \in Steps :
              \/ MarkRunning(s) \/ TakenStep(s) \/ Claim(s) \/ Finish(s) \/ Plain(s)
              \/ Leaves(s)
              \/ \E score \in Scores : Evaluate(s, score)
    BY <1>8
  <2>2. CASE Throws(s) \/ Evicted(s)
    BY <1>0, <1>2, <2>2
  <2>3. CASE ~(Throws(s) \/ Evicted(s))
    <3>1. posts' = posts /\ crashes' = crashes
      BY <1>4, <2>1, <2>3 DEF Leaves
    <3> QED
      BY <1>0, <3>1
  <2> QED
    BY <2>2, <2>3
<1> QED
  BY <1>6, <1>7, <1>8, NextCases

LEMMA HistoryStep ==
    ASSUME BaseInv, [Next]_vars
    PROVE  /\ counted' \subseteq Jobs \X Numbers
           /\ overlapped' \subseteq Jobs /\ settled' \subseteq Jobs
           /\ counted' = counted \/ \E s \in Steps : Finish(s)
           /\ settled' = settled \/ \E j \in Jobs : Cancel(j)
           /\ overlapped \subseteq overlapped'
<1>0. counted \subseteq Jobs \X Numbers /\ overlapped \subseteq Jobs /\ settled \subseteq Jobs
  BY DEF BaseInv, TypeOK
<1>1. ASSUME NEW s \in Steps, NEW j \in Jobs, NEW auto \in BOOLEAN, Load(s, j, auto)
      PROVE  /\ counted' = counted /\ settled' = settled
             /\ overlapped' \in {overlapped, overlapped \cup {j}}
  BY <1>1 DEF Load
<1>2. ASSUME NEW s \in Steps, TakenStep(s)
      PROVE  /\ counted' = counted /\ settled' = settled
             /\ \E j \in Jobs : overlapped' \in {overlapped, overlapped \cup {j}}
  <2>1. step[s].job \in Jobs
    BY <1>2, StepAt DEF TakenStep, At, BaseInv, Idle
  <2> QED
    BY <1>1, <1>2, <2>1 DEF TakenStep
<1>3. ASSUME NEW s \in Steps, NEW j \in Jobs, PostStep(s, j) \/ PostAuto(s, j) \/ Take(s, j)
      PROVE  /\ counted' = counted /\ settled' = settled
             /\ overlapped' \in {overlapped, overlapped \cup {j}}
  <2>1. CASE PostStep(s, j)
    BY <1>1, <2>1 DEF PostStep
  <2>2. CASE PostAuto(s, j) \/ Take(s, j)
    BY <2>2 DEF PostAuto, Take, history
  <2> QED
    BY <1>3, <2>1, <2>2
<1>4. ASSUME NEW s \in Steps, Finish(s)
      PROVE  /\ counted' \subseteq Jobs \X Numbers
             /\ settled' = settled /\ overlapped' = overlapped
  BY <1>0, <1>4, Finishing DEF Finish
<1>5. ASSUME NEW s \in Steps,
             \/ MarkRunning(s) \/ Claim(s) \/ Plain(s) \/ Leaves(s)
             \/ \E score \in Scores : Evaluate(s, score)
      PROVE  counted' = counted /\ settled' = settled /\ overlapped' = overlapped
  BY <1>5 DEF MarkRunning, Claim, Plain, Start, Preflight, NoTasks, Deactivate, Insert,
              Conflict, Complete, Activate, Reply, Leaves, Send, Throws, Evicted, Evaluate,
              history
<1>6. ASSUME NEW j \in Jobs, Cancel(j)
      PROVE  /\ counted' = counted /\ overlapped' = overlapped /\ settled' \subseteq Jobs
  BY <1>0, <1>6 DEF Cancel
<1>7. ASSUME NEW j \in Jobs, Create(j)
      PROVE  counted' = counted /\ settled' = settled /\ overlapped' = overlapped
  BY <1>7 DEF Create, history
<1>8. CASE \E j \in Jobs : Create(j) \/ Cancel(j)
  BY <1>0, <1>6, <1>7, <1>8
<1>9. CASE UNCHANGED vars
  BY <1>0, <1>9 DEF vars, history
<1>10. CASE \E s \in Steps, j \in Jobs : PostStep(s, j) \/ PostAuto(s, j) \/ Take(s, j)
  BY <1>0, <1>3, <1>10
<1>11. CASE \E s \in Steps :
              \/ MarkRunning(s) \/ TakenStep(s) \/ Claim(s) \/ Finish(s) \/ Plain(s)
              \/ Leaves(s)
              \/ \E score \in Scores : Evaluate(s, score)
  <2>1. PICK s \in Steps :
              \/ MarkRunning(s) \/ TakenStep(s) \/ Claim(s) \/ Finish(s) \/ Plain(s)
              \/ Leaves(s)
              \/ \E score \in Scores : Evaluate(s, score)
    BY <1>11
  <2>2. CASE TakenStep(s)
    BY <1>0, <1>2, <2>2
  <2>3. CASE Finish(s)
    BY <1>0, <1>4, <2>3
  <2>4. CASE ~TakenStep(s) /\ ~Finish(s)
    <3>1. counted' = counted /\ settled' = settled /\ overlapped' = overlapped
      BY <1>5, <2>1, <2>4
    <3> QED
      BY <1>0, <3>1
  <2> QED
    BY <2>2, <2>3, <2>4
<1> QED
  BY <1>8, <1>9, <1>10, <1>11, NextCases

-----------------------------------------------------------------------------
LEMMA BaseInit ==
    ASSUME Init
    PROVE  BaseInv
<1> USE TrainingAssumption
<1>1. TypeOK
  BY DEF Init, TypeOK, Versions, Idle
<1>2. \A s \in Steps : step[s].pc = "idle" /\ step[s] = Idle /\ ~(step[s] \in Stepping)
  BY DEF Init, Idle, Stepping
<1>3. OwnInv
  BY <1>2 DEF OwnInv, Owns
<1>4. VersionsInv
  BY DEF Init, VersionsInv, Has
<1>5. \A s \in Steps : RequestInv(s) /\ RowInv(s) /\ CurInv(s) /\ InsertInv(s)
  BY <1>2 DEF RequestInv, RowInv, Evaluating, CurInv, InsertInv, At
<1> QED
  BY <1>1, <1>3, <1>4, <1>5 DEF BaseInv

LEMMA BaseNext ==
    ASSUME BaseInv, [Next]_vars
    PROVE  BaseInv'
<1>1. TypeOK'
  BY OneRequest, IterationStep, ResourceStep, PromptStep, MessagesStep, BoundsStep,
     HistoryStep DEF TypeOK
<1> QED
  BY <1>1, RequestsStep, VersionsStep, IterationStep, CurStep, InsertStep DEF BaseInv

(* Every variable keeps its type: no step writes a version the job's       *)
(* iterations do not leave room for, and no row of an iteration that no    *)
(* request owns (training.ts, index.ts).                                   *)
THEOREM TypeCorrect == Spec => []TypeOK
<1>1. BaseInv => TypeOK
  BY DEF BaseInv
<1> QED
  BY <1>1, BaseInit, BaseNext, PTL DEF Spec

LEMMA ActiveStep ==
    ASSUME BaseInv, AtMostOneActive, [Next]_vars
    PROVE  AtMostOneActive'
<1>1. CASE resource' = resource
  BY <1>1 DEF AtMostOneActive
<1>2. ASSUME NEW j \in Jobs, Create(j)
      PROVE  AtMostOneActive'
  BY <1>1, <1>2, CreateResource DEF AtMostOneActive, Has
<1>3. ASSUME NEW s \in Steps, Deactivate(s)
      PROVE  AtMostOneActive'
  BY <1>3, DeactivateResource DEF AtMostOneActive, Has
<1>4. ASSUME NEW s \in Steps, Insert(s)
      PROVE  AtMostOneActive'
  <2>1. PICK u \in Versions : NextVersion(s) = u
    BY <1>4, InsertResource
  <2>2. step[s].pc = "insert" /\ ~Has(u) /\ \A v \in Versions \ {u} : resource'[v] = resource[v]
    BY <1>4, <2>1, InsertResource
  <2>3. \A v \in Versions : Has(v) => ~resource[v].active
    BY <2>1, <2>2 DEF BaseInv, InsertInv, At
  <2> QED
    BY <2>2, <2>3 DEF AtMostOneActive, Has
<1> QED
  BY <1>1, <1>2, <1>3, <1>4, ResourceStep

(* No two versions of the prompt are ever active (training.ts:929-955):    *)
(* a step writes the next version only when nobody has written it, and     *)
(* then no version is active.                                              *)
THEOREM OneVersionActive == Spec => []AtMostOneActive
<1>1. Init => AtMostOneActive
  BY DEF Init, AtMostOneActive
<1>2. BaseInv /\ AtMostOneActive /\ [Next]_vars => AtMostOneActive'
  BY ActiveStep
<1> QED
  BY <1>1, <1>2, BaseInit, BaseNext, PTL DEF Spec

-----------------------------------------------------------------------------
(* A cancelled job that no request works for: queued messages find it      *)
(* cancelled, and so do new requests.                                      *)
Dormant(j) ==
    job[j].st = "cancelled" /\ \A s \in Steps : step[s] # Idle => step[s].job # j

SettledInv == \A j \in settled : Dormant(j)

LEMMA DormantStep ==
    ASSUME BaseInv, [Next]_vars, NEW j \in Jobs, Dormant(j)
    PROVE  Dormant(j)'
<1>0. TypeOK /\ job[j] # Absent /\ Over(job[j].st) /\ job[j].st = "cancelled"
  BY JobAt DEF BaseInv, Dormant, Over, Absent
<1>1. ASSUME NEW s \in Steps, Others(s), job'[j] = job[j],
             step'[s] # Idle => step'[s].job # j
      PROVE  Dormant(j)'
  BY <1>1 DEF Dormant, Others
<1>2. ASSUME job'[j] = job[j], step' = step
      PROVE  Dormant(j)'
  BY <1>2 DEF Dormant
<1>3. ASSUME NEW k \in Jobs, Create(k)
      PROVE  job'[j] = job[j] /\ step' = step
  BY <1>0, <1>3 DEF Create, TypeOK
<1>4. ASSUME NEW k \in Jobs, Cancel(k)
      PROVE  job'[j] = job[j] /\ step' = step
  <2>1. k # j
    BY <1>0, <1>4 DEF Cancel
  <2> QED
    BY <1>0, <1>4, <2>1 DEF Cancel, TypeOK
<1>5. ASSUME NEW s \in Steps, NEW k \in Jobs, PostStep(s, k)
      PROVE  Others(s) /\ job'[j] = job[j] /\ (step'[s] # Idle => step'[s].job # j)
  <2>1. job[k] # Absent /\ Load(s, k, FALSE) /\ job' = job
    BY <1>5 DEF PostStep, Load, rows
  <2> QED
    BY <1>0, <2>1, Loading
<1>6. ASSUME NEW s \in Steps, NEW k \in Jobs, PostAuto(s, k)
      PROVE  Others(s) /\ job'[j] = job[j] /\ (step'[s] # Idle => step'[s].job # j)
  <2>1. job' = job
    BY <1>6 DEF PostAuto, rows
  <2> QED
    BY <1>0, <1>6, <2>1, Posting
<1>7. ASSUME NEW s \in Steps, NEW k \in Jobs, Take(s, k)
      PROVE  /\ job'[j] = job[j]
             /\ step' = step \/ (Others(s) /\ (step'[s] # Idle => step'[s].job # j))
  <2>1. job' = job
    BY <1>7 DEF Take, rows
  <2> QED
    BY <1>0, <1>7, <2>1, Taking
<1>8. ASSUME NEW s \in Steps,
             \/ MarkRunning(s) \/ TakenStep(s) \/ Claim(s) \/ Finish(s) \/ Plain(s) \/ Leaves(s)
             \/ \E score \in Scores : Evaluate(s, score)
      PROVE  step[s].job \in Jobs \ {j} /\ job[step[s].job] # Absent
  <2>1. step[s] # Idle
    <3>1. CASE Throws(s) \/ Evicted(s)
      BY <3>1 DEF Throws, Evicted
    <3>2. CASE ~Throws(s) /\ ~Evicted(s)
      <4>1. step[s].pc # "idle"
        BY <1>8, <3>2 DEF MarkRunning, TakenStep, Claim, Finish, Plain, Start, Preflight,
                    NoTasks, Deactivate, Insert, Conflict, Complete, Activate, Reply, Leaves,
                    Send, Evaluate, At
      <4> QED
        BY <4>1 DEF Idle
    <3> QED
      BY <3>1, <3>2
  <2> QED
    BY <1>0, <2>1, StepAt DEF Dormant, BaseInv, RequestInv
<1>9. ASSUME NEW s \in Steps, MarkRunning(s)
      PROVE  Others(s) /\ job'[j] = job[j] /\ (step'[s] # Idle => step'[s].job # j)
  <2>1. job'[j] = job[j]
    BY <1>0, <1>8, <1>9 DEF MarkRunning, TypeOK
  <2> QED
    BY <1>0, <1>8, <1>9, <2>1, Marking
<1>10. ASSUME NEW s \in Steps, TakenStep(s)
       PROVE  Others(s) /\ job'[j] = job[j] /\ (step'[s] # Idle => step'[s].job # j)
  <2>1. Load(s, step[s].job, TRUE) /\ job' = job
    BY <1>10 DEF TakenStep, Load, rows
  <2> QED
    BY <1>0, <1>8, <1>10, <2>1, Loading
<1>11. ASSUME NEW s \in Steps, Claim(s)
       PROVE  Others(s) /\ job'[j] = job[j] /\ (step'[s] # Idle => step'[s].job # j)
  <2>1. RequestInv(s)
    BY DEF BaseInv
  <2> QED
    BY <1>0, <1>8, <1>11, <2>1, Claiming
<1>12. ASSUME NEW s \in Steps, Finish(s)
       PROVE  Others(s) /\ job'[j] = job[j] /\ (step'[s] # Idle => step'[s].job # j)
  <2>1. PICK i : i = step[s].job
    OBVIOUS
  <2>2. /\ step[s] \in Stepping /\ Others(s)
        /\ \/ step'[s] = Idle
           \/ step'[s] \in Stepping /\ SameRequest(s)
        /\ \A k \in Jobs \ {i} : job'[k] = job[k]
    BY <1>12, <2>1, Finishing
  <2>3. i # j
    BY <1>8, <1>12, <2>1
  <2> QED
    BY <2>1, <2>2, <2>3 DEF SameRequest
<1>13. ASSUME NEW s \in Steps, Plain(s)
       PROVE  Others(s) /\ job'[j] = job[j] /\ (step'[s] # Idle => step'[s].job # j)
  <2>1. job'[j] = job[j]
    <3>1. \/ job' = job
          \/ \E st \in Statuses : job' = [job EXCEPT ![step[s].job].st = st]
      BY <1>13 DEF Plain, Start, Preflight, NoTasks, Deactivate, Insert, Conflict, Complete,
                   Activate, Reply, rows, Statuses
    <3> QED
      BY <1>0, <1>8, <1>13, <3>1 DEF TypeOK
  <2> QED
    BY <1>0, <1>8, <1>13, <2>1, PlainMoves DEF SameRequest
<1>14. ASSUME NEW s \in Steps, Leaves(s)
       PROVE  Others(s) /\ job'[j] = job[j] /\ (step'[s] # Idle => step'[s].job # j)
  BY <1>0, <1>14, Returning DEF Leaves, Send, Throws, Evicted, Others, rows
<1>15. ASSUME NEW s \in Steps, NEW score \in Scores, Evaluate(s, score)
       PROVE  Others(s) /\ job'[j] = job[j] /\ (step'[s] # Idle => step'[s].job # j)
  <2>1. job' = job
    BY <1>15 DEF Evaluate
  <2> QED
    BY <1>0, <1>8, <1>15, <2>1, Evaluates
<1>16. CASE (\E k \in Jobs : Create(k) \/ Cancel(k)) \/ UNCHANGED vars
  <2>1. job'[j] = job[j] /\ step' = step
    BY <1>3, <1>4, <1>16 DEF vars, rows
  <2> QED
    BY <1>2, <2>1
<1>17. CASE \E s \in Steps, k \in Jobs : PostStep(s, k) \/ PostAuto(s, k) \/ Take(s, k)
  BY <1>1, <1>2, <1>5, <1>6, <1>7, <1>17
<1>18. CASE \E s \in Steps :
              \/ MarkRunning(s) \/ TakenStep(s) \/ Claim(s) \/ Finish(s) \/ Plain(s)
              \/ Leaves(s)
              \/ \E score \in Scores : Evaluate(s, score)
  BY <1>1, <1>9, <1>10, <1>11, <1>12, <1>13, <1>14, <1>15, <1>18
<1> QED
  BY <1>16, <1>17, <1>18, NextCases

LEMMA SettledStep ==
    ASSUME BaseInv, SettledInv, [Next]_vars
    PROVE  SettledInv'
<1>1. settled \subseteq Jobs /\ settled' \subseteq Jobs
  BY HistoryStep DEF BaseInv, TypeOK
<1>2. CASE settled' = settled
  BY <1>1, <1>2, DormantStep DEF SettledInv
<1>3. ASSUME NEW j \in Jobs, Cancel(j)
      PROVE  SettledInv'
  <2>1. \A k \in settled : Dormant(k)'
    BY <1>1, DormantStep DEF SettledInv
  <2>2. settled' = settled \/ (Busy(j) = {} /\ settled' = settled \cup {j})
    BY <1>3 DEF Cancel
  <2>3. Busy(j) = {} => Dormant(j)'
    <3>1. job'[j].st = "cancelled" /\ step' = step
      <4>1. TypeOK /\ job[j] # Absent /\ "cancelled" \in Statuses
        BY <1>3 DEF Cancel, BaseInv, Absent, Statuses
      <4> QED
        BY <1>3, <4>1, StatusType DEF Cancel
    <3> QED
      BY <3>1 DEF Dormant, Busy
  <2> QED
    BY <2>1, <2>2, <2>3 DEF SettledInv
<1> QED
  BY <1>2, <1>3, HistoryStep

(* A job cancelled while no request of it was under way stays cancelled,   *)
(* for any number of messages still queued and any later requests          *)
(* (training.ts:363, index.ts:795).                                        *)
THEOREM CancelStays == Spec => []CancelIsFinal
<1>1. Init => SettledInv
  BY DEF Init, SettledInv
<1>2. BaseInv /\ SettledInv /\ [Next]_vars => SettledInv'
  BY SettledStep
<1>3. SettledInv => CancelIsFinal
  BY DEF SettledInv, Dormant, CancelIsFinal
<1> QED
  BY <1>1, <1>2, <1>3, BaseInit, BaseNext, PTL DEF Spec

-----------------------------------------------------------------------------
(* The requests that can still lead to a claim, and the messages that can: *)
(* there are never more of them than requests and failures so far, and a   *)
(* claim past the last iteration costs one.                                *)
Live(s, j) ==
    /\ step[s] # Idle /\ step[s].job = j
    /\ \/ step[s].pc \in {"mark", "send", "load", "claim"}
       \/ step[s].auto /\ step[s].n < MaxIterations
Alive(j) == {s \in Steps : Live(s, j)}
Ahead(j) == messages[j] + Cardinality(Alive(j))

ClaimInv(j) ==
    /\ Ahead(j) <= posts + crashes
    /\ job[j] # Absent /\ job[j].at >= MaxIterations =>
         job[j].at - MaxIterations + 1 + Ahead(j) <= posts + crashes

ReplyInv(s) == step[s].pc = "reply" => step[s].auto /\ step[s].n < MaxIterations

LEMMA AliveFinite ==
    ASSUME NEW j \in Jobs
    PROVE  IsFiniteSet(Alive(j)) /\ Cardinality(Alive(j)) \in Nat
<1>1. Alive(j) \subseteq Steps /\ IsFiniteSet(Steps)
  BY TrainingAssumption DEF Alive
<1> QED
  BY <1>1, FS_Subset, FS_CardinalityType

(* How the number of live requests changes when one request moves.         *)
LEMMA AliveStep ==
    ASSUME NEW j \in Jobs, NEW s \in Steps, Others(s)
    PROVE  /\ Cardinality(Alive(j))' \in Nat
           /\ Cardinality(Alive(j))' <= Cardinality(Alive(j)) + 1
           /\ (Live(s, j)' => Live(s, j)) =>
                Cardinality(Alive(j))' <= Cardinality(Alive(j))
           /\ Live(s, j) /\ ~Live(s, j)' =>
                Cardinality(Alive(j))' <= Cardinality(Alive(j)) - 1
<1> DEFINE A == Alive(j)
           B == Alive(j)'
<1>1. \A t \in Steps \ {s} : t \in B <=> t \in A
  BY DEF Others, Alive, Live
<1>2. /\ A \subseteq Steps /\ B \subseteq Steps
      /\ s \in A <=> Live(s, j)
      /\ s \in B <=> Live(s, j)'
  BY DEF Alive
<1>3. IsFiniteSet(A) /\ IsFiniteSet(B) /\ Cardinality(A) \in Nat /\ Cardinality(B) \in Nat
  <2>1. IsFiniteSet(Steps)
    BY TrainingAssumption
  <2> QED
    BY <1>2, <2>1, FS_Subset, FS_CardinalityType
<1> HIDE DEF A, B
<1>4. Cardinality(B) <= Cardinality(A) + 1
  <2>1. B \subseteq A \cup {s}
    BY <1>1, <1>2
  <2>2. /\ IsFiniteSet(A \cup {s})
        /\ Cardinality(A \cup {s}) = IF s \in A THEN Cardinality(A) ELSE Cardinality(A) + 1
    BY <1>3, FS_AddElement
  <2>3. Cardinality(B) <= Cardinality(A \cup {s})
    BY <2>1, <2>2, FS_Subset
  <2> QED
    BY <1>3, <2>2, <2>3
<1>5. ASSUME s \in B => s \in A
      PROVE  Cardinality(B) <= Cardinality(A)
  <2>1. B \subseteq A
    BY <1>1, <1>2, <1>5
  <2> QED
    BY <1>3, <2>1, FS_Subset
<1>6. ASSUME s \in A, ~(s \in B)
      PROVE  Cardinality(B) <= Cardinality(A) - 1
  <2>1. B \subseteq A \ {s}
    BY <1>1, <1>2, <1>6
  <2>2. IsFiniteSet(A \ {s}) /\ Cardinality(A \ {s}) = Cardinality(A) - 1
    BY <1>3, <1>6, FS_RemoveElement
  <2>3. Cardinality(B) <= Cardinality(A \ {s})
    BY <2>1, <2>2, FS_Subset
  <2> QED
    BY <2>2, <2>3
<1> QED
  BY <1>2, <1>3, <1>4, <1>5, <1>6 DEF A, B

LEMMA ReplyStep ==
    ASSUME BaseInv, [Next]_vars, NEW t \in Steps, ReplyInv(t)
    PROVE  ReplyInv(t)'
<1>0. TypeOK
  BY DEF BaseInv
<1>1. CASE step'[t] = step[t]
  BY <1>1 DEF ReplyInv
<1>2. CASE step'[t].pc # "reply"
  BY <1>2 DEF ReplyInv
<1>3. ASSUME NEW s \in Steps, Finish(s)
      PROVE  ReplyInv(t)'
  <2>1. CASE t # s
    BY <1>1, <1>3, <2>1, Finishing DEF Others
  <2>2. CASE t = s /\ step'[s].pc = "reply"
    <3>1. step[s] \in Stepping /\ SameRequest(s)
      <4>1. step[s] \in Stepping /\ (step'[s] = Idle \/ SameRequest(s))
        BY <1>3, Finishing
      <4>2. step'[s] # Idle
        BY <2>2 DEF Idle
      <4> QED
        BY <4>1, <4>2
    <3>2. PICK more \in {FALSE, MayContinue(step[s].n)} :
             step' = [step EXCEPT ![s] = IF ~more THEN [step[s] EXCEPT !.pc = "activate"]
                                         ELSE IF step[s].auto THEN [step[s] EXCEPT !.pc = "reply"]
                                         ELSE Idle]
      BY <1>3 DEF Finish
    <3>3. step'[s] = IF ~more THEN [step[s] EXCEPT !.pc = "activate"]
                     ELSE IF step[s].auto THEN [step[s] EXCEPT !.pc = "reply"]
                     ELSE Idle
      BY <1>0, <3>2 DEF TypeOK
    <3>4. more /\ step[s].auto
      BY <2>2, <3>1, <3>3 DEF Stepping, Idle
    <3>5. step[s].n < MaxIterations
      BY <3>2, <3>4 DEF MayContinue
    <3> QED
      BY <2>2, <3>1, <3>4, <3>5 DEF ReplyInv, SameRequest
  <2> QED
    BY <1>2, <2>1, <2>2
<1>4. ASSUME NEW s \in Steps, Others(s), step'[s].pc # "reply"
      PROVE  ReplyInv(t)'
  BY <1>1, <1>2, <1>4 DEF Others
<1>5. ASSUME NEW s \in Steps, NEW j \in Jobs, PostStep(s, j)
      PROVE  Others(s) /\ step'[s].pc # "reply"
  <2>1. job[j] # Absent /\ Load(s, j, FALSE)
    BY <1>5 DEF PostStep
  <2>2. Others(s) /\ (step'[s] = Idle \/ step'[s].pc = "claim")
    BY <1>0, <2>1, Loading
  <2> QED
    BY <2>2 DEF Idle
<1>6. ASSUME NEW s \in Steps, TakenStep(s)
      PROVE  Others(s) /\ step'[s].pc # "reply"
  <2>1. step[s].job \in Jobs /\ job[step[s].job] # Absent /\ Load(s, step[s].job, TRUE)
    BY <1>0, <1>6, StepAt DEF TakenStep, At, BaseInv, RequestInv, Idle
  <2>2. Others(s) /\ (step'[s] = Idle \/ step'[s].pc = "claim")
    BY <1>0, <2>1, Loading
  <2> QED
    BY <2>2 DEF Idle
<1>7. ASSUME NEW s \in Steps, NEW j \in Jobs, PostAuto(s, j) \/ Take(s, j)
      PROVE  step' = step \/ (Others(s) /\ step'[s].pc # "reply")
  BY <1>0, <1>7, Posting, Taking
<1>8. ASSUME NEW s \in Steps, MarkRunning(s)
      PROVE  Others(s) /\ step'[s].pc # "reply"
  BY <1>0, <1>8, Marking
<1>9. ASSUME NEW s \in Steps, Claim(s)
      PROVE  Others(s) /\ step'[s].pc # "reply"
  <2>1. RequestInv(s)
    BY DEF BaseInv
  <2>2. Others(s) /\ (step'[s] = Idle \/ step'[s].pc \in {"start", "open"})
    BY <1>0, <1>9, <2>1, Claiming
  <2> QED
    BY <2>2 DEF Idle
<1>10. ASSUME NEW s \in Steps, Plain(s)
       PROVE  Others(s) /\ step'[s].pc # "reply"
  <2>1. /\ Others(s)
        /\ step'[s] = Idle \/ step'[s].pc \in {"open", "insert", "apply", "finish"}
    BY <1>0, <1>10, PlainMoves
  <2> QED
    BY <2>1 DEF Idle
<1>11. ASSUME NEW s \in Steps, Leaves(s)
       PROVE  Others(s) /\ step'[s].pc # "reply"
  BY <1>0, <1>11, Returning DEF Leaves, Send, Throws, Evicted, Others, Idle
<1>12. ASSUME NEW s \in Steps, NEW score \in Scores, Evaluate(s, score)
       PROVE  Others(s) /\ step'[s].pc # "reply"
  BY <1>0, <1>12, Evaluates
<1>13. CASE (\E j \in Jobs : Create(j) \/ Cancel(j)) \/ UNCHANGED vars
  <2>1. step' = step
    BY <1>13 DEF Create, Cancel, vars
  <2> QED
    BY <1>1, <2>1
<1>14. CASE \E s \in Steps, j \in Jobs : PostStep(s, j) \/ PostAuto(s, j) \/ Take(s, j)
  BY <1>1, <1>4, <1>5, <1>7, <1>14
<1>15. CASE \E s \in Steps :
              \/ MarkRunning(s) \/ TakenStep(s) \/ Claim(s) \/ Finish(s) \/ Plain(s)
              \/ Leaves(s)
              \/ \E score \in Scores : Evaluate(s, score)
  BY <1>3, <1>4, <1>6, <1>8, <1>9, <1>10, <1>11, <1>12, <1>15
<1> QED
  BY <1>13, <1>14, <1>15, NextCases

(* What happens to the rows of the jobs.                                   *)
NewRow == [st |-> "created", at |-> 0, best |-> Null, bestIter |-> Null, bestVer |-> Null]

LEMMA JobMoves ==
    ASSUME BaseInv, [Next]_vars
    PROVE  \/ job' = job
           \/ \E k \in Jobs : job[k] = Absent /\ job' = [job EXCEPT ![k] = NewRow] /\ step' = step
           \/ \E k \in Jobs, st \in Statuses :
                 job[k] # Absent /\ job' = [job EXCEPT ![k].st = st]
           \/ \E s \in Steps : Claim(s) \/ Finish(s)
<1> DEFINE Marked == \E k \in Jobs, st \in Statuses :
                        job[k] # Absent /\ job' = [job EXCEPT ![k].st = st]
<1>0. TypeOK
  BY DEF BaseInv
<1>1. ASSUME NEW k \in Jobs, Create(k)
      PROVE  job[k] = Absent /\ job' = [job EXCEPT ![k] = NewRow] /\ step' = step
  BY <1>1 DEF Create, NewRow
<1>2. ASSUME NEW k \in Jobs, Cancel(k)
      PROVE  Marked
  <2>1. job[k] # Absent /\ job' = [job EXCEPT ![k].st = "cancelled"] /\ "cancelled" \in Statuses
    BY <1>2 DEF Cancel, Absent, Statuses
  <2> QED
    BY <2>1
<1>3. ASSUME NEW s \in Steps, NEW k \in Jobs, PostStep(s, k) \/ PostAuto(s, k) \/ Take(s, k)
      PROVE  job' = job
  BY <1>3 DEF PostStep, Load, PostAuto, Take, rows
<1>4. ASSUME NEW s \in Steps, TakenStep(s) \/ Leaves(s) \/ \E score \in Scores : Evaluate(s, score)
      PROVE  job' = job
  BY <1>4 DEF TakenStep, Load, Leaves, Send, Throws, Evicted, Evaluate, rows
<1>5. ASSUME NEW s \in Steps, MarkRunning(s)
      PROVE  Marked
  <2>1. step[s].job \in Jobs /\ job[step[s].job] # Absent
    BY <1>0, <1>5, StepAt DEF MarkRunning, At, BaseInv, RequestInv, Idle
  <2> QED
    BY <1>5, <2>1 DEF MarkRunning, Statuses
<1>6. ASSUME NEW s \in Steps, Plain(s)
      PROVE  job' = job \/ Marked
  <2>1. step[s].job \in Jobs /\ job[step[s].job] # Absent
    <3>1. step[s] \in Stepping /\ step[s] # Idle
      BY <1>0, <1>6, PlainMoves, StepAt DEF StepPcs
    <3> QED
      BY <1>0, <3>1, StepAt DEF BaseInv, RequestInv
  <2>2. \/ job' = job
        \/ \E st \in Statuses : job' = [job EXCEPT ![step[s].job].st = st]
    BY <1>6 DEF Plain, Start, Preflight, NoTasks, Deactivate, Insert, Conflict, Complete,
                Activate, Reply, rows, Statuses
  <2> QED
    BY <2>1, <2>2
<1> HIDE DEF Marked
<1>7. \/ job' = job
      \/ \E k \in Jobs : job[k] = Absent /\ job' = [job EXCEPT ![k] = NewRow] /\ step' = step
      \/ Marked
      \/ \E s \in Steps : Claim(s) \/ Finish(s)
  <2>1. CASE \E k \in Jobs : Create(k) \/ Cancel(k)
    BY <1>1, <1>2, <2>1
  <2>2. CASE \E s \in Steps, k \in Jobs : PostStep(s, k) \/ PostAuto(s, k) \/ Take(s, k)
    BY <1>3, <2>2
  <2>3. CASE \E s \in Steps :
              \/ MarkRunning(s) \/ TakenStep(s) \/ Claim(s) \/ Finish(s) \/ Plain(s)
              \/ Leaves(s)
              \/ \E score \in Scores : Evaluate(s, score)
    BY <1>4, <1>5, <1>6, <2>3
  <2>4. CASE UNCHANGED vars
    BY <2>4 DEF vars, rows
  <2> QED
    BY <2>1, <2>2, <2>3, <2>4, NextCases
<1> QED
  BY <1>7 DEF Marked

(* Only a claim changes the number of a job's iterations.                  *)
SameAt(j) ==
    /\ job[j] # Absent => job'[j].at = job[j].at
    /\ job[j] = Absent /\ job'[j] # Absent => job'[j].at = 0

LEMMA AtKept ==
    ASSUME BaseInv, [Next]_vars, NEW j \in Jobs, ~\E s \in Steps : Claim(s)
    PROVE  SameAt(j)
<1>0. TypeOK /\ NewRow.at = 0
  BY DEF BaseInv, NewRow
<1>1. CASE job' = job
  BY <1>1 DEF SameAt
<1>2. ASSUME NEW k \in Jobs, job[k] = Absent, job' = [job EXCEPT ![k] = NewRow]
      PROVE  SameAt(j)
  <2>1. job'[k] = NewRow /\ (k # j => job'[j] = job[j])
    BY <1>0, <1>2 DEF TypeOK
  <2> QED
    BY <1>0, <1>2, <2>1 DEF SameAt
<1>3. ASSUME NEW k \in Jobs, NEW st \in Statuses,
             job[k] # Absent, job' = [job EXCEPT ![k].st = st]
      PROVE  SameAt(j)
  BY <1>0, <1>3, StatusType DEF SameAt
<1>4. ASSUME NEW s \in Steps, Finish(s)
      PROVE  SameAt(j)
  BY <1>4, Finishing DEF SameAt
<1> QED
  BY <1>1, <1>2, <1>3, <1>4, JobMoves

(* Nothing more can claim than before, but for a request or a failure.     *)
NoFurther(j) == Ahead(j)' + posts + crashes <= Ahead(j) + posts' + crashes'

(* A request that only moves on or ends leaves no more that can claim.     *)
LEMMA QuietStep ==
    ASSUME BaseInv, NEW j \in Jobs, NEW s \in Steps, Others(s), messages' = messages,
           posts' = posts, crashes' \in {crashes, crashes + 1},
           Live(s, j)' => Live(s, j)
    PROVE  NoFurther(j)
<1>1. Cardinality(Alive(j)) \in Nat /\ Cardinality(Alive(j))' \in Nat
  BY AliveFinite, AliveStep
<1>2. Cardinality(Alive(j))' <= Cardinality(Alive(j))
  BY AliveStep
<1>3. messages[j] \in Nat /\ posts \in Nat /\ crashes \in Nat
  BY TrainingAssumption DEF BaseInv, TypeOK
<1>4. messages'[j] = messages[j]
  OBVIOUS
<1> QED
  BY <1>1, <1>2, <1>3, <1>4 DEF Ahead, NoFurther

(* A new request is one more, and so is the step that makes it.            *)
LEMMA PostedStep ==
    ASSUME BaseInv, NEW j \in Jobs, NEW s \in Steps, Others(s), messages' = messages,
           posts' = posts + 1, crashes' = crashes
    PROVE  NoFurther(j)
<1>1. Cardinality(Alive(j)) \in Nat /\ Cardinality(Alive(j))' \in Nat
  BY AliveFinite, AliveStep
<1>2. Cardinality(Alive(j))' <= Cardinality(Alive(j)) + 1
  BY AliveStep
<1>3. messages[j] \in Nat /\ posts \in Nat /\ crashes \in Nat
  BY TrainingAssumption DEF BaseInv, TypeOK
<1>4. messages'[j] = messages[j]
  OBVIOUS
<1> QED
  BY <1>1, <1>2, <1>3, <1>4 DEF Ahead, NoFurther

(* A message takes the place of the live request that sends it.            *)
LEMMA SentStep ==
    ASSUME BaseInv, NEW j \in Jobs, NEW s \in Steps, Others(s), NEW k \in Jobs, Sent(k),
           step[s].job = k, ~Live(s, j)', Live(s, k) \/ crashes' = crashes + 1,
           posts' = posts, crashes' \in {crashes, crashes + 1}
    PROVE  NoFurther(j)
<1>1. Cardinality(Alive(j)) \in Nat /\ Cardinality(Alive(j))' \in Nat
  BY AliveFinite, AliveStep
<1>2. /\ Cardinality(Alive(j))' <= Cardinality(Alive(j))
      /\ Live(s, j) => Cardinality(Alive(j))' <= Cardinality(Alive(j)) - 1
  BY AliveStep
<1>3. messages[j] \in Nat /\ posts \in Nat /\ crashes \in Nat
      /\ messages \in [Jobs -> Nat]
  BY TrainingAssumption DEF BaseInv, TypeOK
<1>4. CASE k = j
  <2>1. messages'[j] = messages[j] + 1
    BY <1>3, <1>4 DEF Sent
  <2> QED
    BY <1>1, <1>2, <1>3, <1>4, <2>1 DEF Ahead, NoFurther
<1>5. CASE k # j
  <2>1. messages'[j] = messages[j]
    BY <1>3, <1>5 DEF Sent
  <2> QED
    BY <1>1, <1>2, <1>3, <2>1 DEF Ahead, NoFurther
<1> QED
  BY <1>4, <1>5

(* And a request takes the place of the message it was made for.           *)
LEMMA TakenMessage ==
    ASSUME BaseInv, NEW j \in Jobs, NEW s \in Steps, NEW k \in Jobs, Take(s, k)
    PROVE  NoFurther(j)
<1>0. TypeOK
  BY DEF BaseInv
<1>1. messages \in [Jobs -> Nat] /\ messages[j] \in Nat /\ posts \in Nat /\ crashes \in Nat
      /\ posts' = posts /\ crashes' = crashes
  BY TrainingAssumption DEF BaseInv, TypeOK, Take, bounds
<1>2. Cardinality(Alive(j)) \in Nat
  BY AliveFinite
<1>3. messages'[j] = IF k = j THEN messages[j] - 1 ELSE messages[j]
  BY <1>1 DEF Take
<1>4. CASE step' = step
  <2>1. Cardinality(Alive(j))' = Cardinality(Alive(j))
    BY <1>4 DEF Alive, Live
  <2> QED
    BY <1>1, <1>2, <1>3, <2>1 DEF Ahead, NoFurther
<1>5. CASE step' # step
  <2>1. Others(s) /\ step'[s].job = k /\ step[s] = Idle
    BY <1>0, <1>5, Taking
  <2>2. /\ Cardinality(Alive(j))' \in Nat
        /\ Cardinality(Alive(j))' <= Cardinality(Alive(j)) + 1
        /\ k # j => Cardinality(Alive(j))' <= Cardinality(Alive(j))
    <3>1. k # j => ~Live(s, j)'
      BY <2>1 DEF Live
    <3> QED
      BY <2>1, <3>1, AliveStep
  <2>3. CASE k = j
    BY <1>1, <1>2, <1>3, <2>2, <2>3 DEF Ahead, NoFurther
  <2>4. CASE k # j
    BY <1>1, <1>2, <1>3, <2>2, <2>4 DEF Ahead, NoFurther
  <2> QED
    BY <2>3, <2>4
<1> QED
  BY <1>4, <1>5

LEMMA AheadStep ==
    ASSUME BaseInv, \A s \in Steps : ReplyInv(s), [Next]_vars, NEW j \in Jobs,
           ~\E s \in Steps : Claim(s)
    PROVE  NoFurther(j)
<1>0. TypeOK
  BY DEF BaseInv
<1>1. ASSUME NEW s \in Steps, NEW k \in Jobs, PostStep(s, k) \/ PostAuto(s, k)
      PROVE  NoFurther(j)
  <2>1. messages' = messages /\ posts' = posts + 1 /\ crashes' = crashes
    BY <1>1 DEF PostStep, PostAuto, Load, Post
  <2>2. CASE PostStep(s, k)
    <3>1. job[k] # Absent /\ Load(s, k, FALSE)
      BY <2>2 DEF PostStep
    <3>2. Others(s)
      BY <1>0, <3>1, Loading
    <3> QED
      BY <2>1, <3>2, PostedStep
  <2>3. CASE PostAuto(s, k)
    <3>1. Others(s)
      BY <1>0, <2>3, Posting
    <3> QED
      BY <2>1, <3>1, PostedStep
  <2> QED
    BY <1>1, <2>2, <2>3
<1>2. ASSUME NEW s \in Steps, NEW k \in Jobs, Take(s, k)
      PROVE  NoFurther(j)
  BY <1>2, TakenMessage
<1>3. ASSUME NEW s \in Steps, MarkRunning(s)
      PROVE  NoFurther(j)
  <2>1. messages' = messages /\ posts' = posts /\ crashes' = crashes
    BY <1>3 DEF MarkRunning, bounds
  <2>2. /\ Others(s) /\ step[s].pc = "mark" /\ step[s] # Idle
        /\ step'[s].job = step[s].job
    BY <1>0, <1>3, Marking, StepAt
  <2>3. Live(s, j)' => Live(s, j)
    BY <2>2 DEF Live
  <2> QED
    BY <2>1, <2>2, <2>3, QuietStep
<1>4. ASSUME NEW s \in Steps, TakenStep(s)
      PROVE  NoFurther(j)
  <2>1. messages' = messages /\ posts' = posts /\ crashes' = crashes
    BY <1>4 DEF TakenStep, Load
  <2>2. /\ step[s].job \in Jobs /\ job[step[s].job] # Absent /\ Load(s, step[s].job, TRUE)
        /\ step[s].pc = "load" /\ step[s] # Idle
    BY <1>0, <1>4, StepAt DEF TakenStep, At, BaseInv, RequestInv, Idle
  <2>3. Others(s) /\ (step'[s] = Idle \/ step'[s].job = step[s].job)
    BY <1>0, <2>2, Loading
  <2>4. Live(s, j)' => Live(s, j)
    BY <2>2, <2>3 DEF Live
  <2> QED
    BY <2>1, <2>3, <2>4, QuietStep
<1>5. ASSUME NEW s \in Steps, step[s] # Idle, Others(s), messages' = messages,
             posts' = posts, crashes' = crashes,
             step'[s] = Idle \/
               (/\ step'[s].job = step[s].job /\ step'[s].auto = step[s].auto
                /\ step'[s].n = step[s].n
                /\ ~(step'[s].pc \in {"mark", "send", "load", "claim"}))
      PROVE  NoFurther(j)
  <2>1. Live(s, j)' => Live(s, j)
    BY <1>5 DEF Live
  <2> QED
    BY <1>5, <2>1, QuietStep
<1>6. ASSUME NEW s \in Steps, NEW score \in Scores, Evaluate(s, score)
      PROVE  NoFurther(j)
  <2>1. messages' = messages /\ posts' = posts /\ crashes' = crashes
    BY <1>6 DEF Evaluate, bounds
  <2>2. /\ step[s] # Idle /\ Others(s) /\ step'[s].pc \in {"deactivate", "complete"}
        /\ step'[s].job = step[s].job /\ step'[s].auto = step[s].auto
        /\ step'[s].n = step[s].n
    BY <1>0, <1>6, Evaluates, StepAt DEF StepPcs
  <2> QED
    BY <1>5, <2>1, <2>2
<1>7. ASSUME NEW s \in Steps, Finish(s)
      PROVE  NoFurther(j)
  <2>1. messages' = messages /\ posts' = posts /\ crashes' = crashes
    BY <1>7 DEF Finish, bounds
  <2>2. /\ step[s] \in Stepping /\ Others(s)
        /\ step'[s] = Idle \/ (SameRequest(s) /\ step'[s].pc \in {"activate", "reply"})
    BY <1>7, Finishing
  <2>3. step[s] # Idle
    BY <1>0, <2>2, StepAt DEF StepPcs
  <2> QED
    BY <1>5, <2>1, <2>2, <2>3 DEF SameRequest
<1>8. ASSUME NEW s \in Steps, Plain(s), messages' = messages
      PROVE  NoFurther(j)
  <2>1. posts' = posts /\ crashes' = crashes
    BY <1>8 DEF Plain, Start, Preflight, NoTasks, Deactivate, Insert, Conflict, Complete,
                Activate, Reply, bounds
  <2>2. /\ step[s] \in Stepping /\ Others(s)
        /\ step'[s] = Idle \/ (SameRequest(s) /\ step'[s].pc \in {"open", "insert", "apply", "finish"})
    BY <1>0, <1>8, PlainMoves
  <2>3. step[s] # Idle
    BY <1>0, <2>2, StepAt DEF StepPcs
  <2> QED
    BY <1>5, <1>8, <2>1, <2>2, <2>3 DEF SameRequest
<1>9. ASSUME NEW s \in Steps, Plain(s)
      PROVE  NoFurther(j)
  <2>1. CASE ~Reply(s)
    <3>1. messages' = messages
      BY <1>9, <2>1 DEF Plain, Start, Preflight, NoTasks, Deactivate, Insert, Conflict,
                  Complete, Activate
    <3> QED
      BY <1>8, <1>9, <3>1
  <2>2. CASE Reply(s) /\ messages' # messages
    <3>1. PICK k \in Jobs : step[s].job = k
      BY <1>0, <2>2, StepAt DEF Reply, At, Idle
    <3>2. Sent(k) /\ posts' = posts /\ crashes' = crashes
      BY <2>2, <3>1 DEF Reply, Sent, bounds
    <3>3. step[s].pc = "reply" /\ step'[s] = Idle /\ Others(s)
      BY <1>0, <2>2, Returning DEF Reply, At, Others
    <3>4. Live(s, k) /\ ~Live(s, j)'
      BY <3>1, <3>3 DEF Live, ReplyInv, Idle
    <3> QED
      BY <3>1, <3>2, <3>3, <3>4, SentStep
  <2> QED
    BY <1>8, <1>9, <2>1, <2>2
<1>10. ASSUME NEW s \in Steps, Leaves(s)
       PROVE  NoFurther(j)
  <2>1. /\ step'[s] = Idle /\ Others(s) /\ ~Live(s, j)' /\ posts' = posts
        /\ crashes' \in {crashes, crashes + 1} /\ step[s] # Idle
    BY <1>0, <1>10, Returning DEF Leaves, Send, Throws, Evicted, Others, Live, At, Idle, bounds
  <2>2. CASE messages' = messages
    BY <2>1, <2>2, QuietStep
  <2>3. CASE messages' # messages
    <3>1. PICK k \in Jobs : step[s].job = k
      BY <1>0, <2>1, StepAt
    <3>2. Sent(k)
      BY <1>10, <2>3, <3>1 DEF Leaves, Send, Throws, Evicted, Sent
    <3>3. step[s].pc = "send" \/ crashes' = crashes + 1
      BY <1>10, <2>3 DEF Leaves, Send, Throws, Evicted, At
    <3>4. Live(s, k) \/ crashes' = crashes + 1
      BY <2>1, <3>1, <3>3 DEF Live
    <3> QED
      BY <2>1, <3>1, <3>2, <3>4, SentStep
  <2> QED
    BY <2>2, <2>3
<1>11. CASE (\E k \in Jobs : Create(k) \/ Cancel(k)) \/ UNCHANGED vars
  <2>1. step' = step /\ messages' = messages /\ posts' = posts /\ crashes' = crashes
    BY <1>11 DEF Create, Cancel, vars, bounds
  <2>2. Ahead(j)' = Ahead(j)
    BY <2>1 DEF Ahead, Alive, Live
  <2>3. Ahead(j) \in Int /\ posts \in Int /\ crashes \in Int
    BY <1>0, AliveFinite, TrainingAssumption DEF Ahead, TypeOK
  <2> QED
    BY <2>1, <2>2, <2>3 DEF NoFurther
<1>12. CASE \E s \in Steps, k \in Jobs : PostStep(s, k) \/ PostAuto(s, k) \/ Take(s, k)
  BY <1>1, <1>2, <1>12
<1>13. CASE \E s \in Steps :
              \/ MarkRunning(s) \/ TakenStep(s) \/ Claim(s) \/ Finish(s) \/ Plain(s)
              \/ Leaves(s)
              \/ \E score \in Scores : Evaluate(s, score)
  BY <1>3, <1>4, <1>6, <1>7, <1>9, <1>10, <1>13
<1> QED
  BY <1>11, <1>12, <1>13, NextCases

LEMMA ClaimStep ==
    ASSUME BaseInv, \A s \in Steps : ReplyInv(s), [Next]_vars, NEW j \in Jobs, ClaimInv(j)
    PROVE  ClaimInv(j)'
<1> USE TrainingAssumption
<1>0. /\ TypeOK /\ MaxIterations \in Nat /\ posts \in Nat /\ crashes \in Nat
      /\ posts' \in Nat /\ crashes' \in Nat
  BY BoundsStep DEF BaseInv
<1>1. Ahead(j) \in Nat
  BY <1>0, AliveFinite DEF Ahead, TypeOK
<1>2. job[j] # Absent => job[j].at \in Nat
  BY <1>0, AtType
<1>3. ASSUME Ahead(j)' \in Nat, NoFurther(j), SameAt(j)
      PROVE  ClaimInv(j)'
  <2>1. Ahead(j)' <= posts' + crashes'
    BY <1>0, <1>1, <1>3 DEF ClaimInv, NoFurther
  <2>2. ASSUME job'[j] # Absent, job'[j].at >= MaxIterations
        PROVE  job'[j].at - MaxIterations + 1 + Ahead(j)' <= posts' + crashes'
    <3>1. job[j] # Absent /\ job'[j].at = job[j].at
      BY <1>0, <1>3, <2>2 DEF SameAt
    <3>2. job[j].at - MaxIterations + 1 + Ahead(j) <= posts + crashes
      BY <2>2, <3>1 DEF ClaimInv
    <3> QED
      BY <1>0, <1>1, <1>2, <1>3, <3>1, <3>2 DEF NoFurther
  <2> QED
    BY <2>1, <2>2 DEF ClaimInv
<1>4. ASSUME NEW s \in Steps, Others(s)
      PROVE  Ahead(j)' \in Nat
  <2>1. Cardinality(Alive(j))' \in Nat /\ messages'[j] \in Nat
    BY <1>4, AliveStep, MessagesStep
  <2> QED
    BY <2>1 DEF Ahead
<1>5. CASE ~\E s \in Steps : Claim(s)
  <2>1. Ahead(j)' \in Nat
    <3>1. CASE step' = step
      <4>1. Cardinality(Alive(j))' = Cardinality(Alive(j)) /\ messages'[j] \in Nat
        BY <3>1, MessagesStep DEF Alive, Live
      <4> QED
        BY <4>1, AliveFinite DEF Ahead
    <3> QED
      BY <1>4, <3>1, OneRequest
  <2> QED
    BY <1>3, <1>5, <2>1, AtKept, AheadStep
<1>6. ASSUME NEW s \in Steps, Claim(s)
      PROVE  ClaimInv(j)'
  <2>1. messages' = messages /\ posts' = posts /\ crashes' = crashes
    BY <1>6 DEF Claim, bounds
  <2>2. RequestInv(s)
    BY DEF BaseInv
  <2>3. step[s].pc = "claim" /\ step[s] # Idle /\ Others(s) /\ step[s] \in Stepping
    BY <1>0, <1>6, <2>2, Claiming, StepAt DEF StepPcs
  <2>4. CASE step'[s] = Idle /\ job' = job
    <3>1. ~Live(s, j)'
      BY <2>4 DEF Live
    <3>2. NoFurther(j)
      BY <2>1, <2>3, <3>1, QuietStep
    <3>3. SameAt(j)
      BY <2>4 DEF SameAt
    <3> QED
      BY <1>3, <1>4, <2>3, <3>2, <3>3
  <2>5. CASE step'[s] # Idle
    <3>1. /\ step[s].n = job[step[s].job].at /\ step'[s].n = step[s].n + 1
          /\ step'[s].pc \in {"start", "open"}
          /\ step'[s].job = step[s].job /\ step'[s].auto = step[s].auto
          /\ job'[step[s].job].at = job[step[s].job].at + 1
          /\ \A k \in Jobs \ {step[s].job} : job'[k] = job[k]
      BY <1>0, <1>6, <2>2, <2>5, Claiming
    <3>2. CASE step[s].job # j
      <4>1. SameAt(j) /\ ~Live(s, j)'
        BY <3>1, <3>2 DEF SameAt, Live
      <4>2. NoFurther(j)
        BY <2>1, <2>3, <4>1, QuietStep
      <4> QED
        BY <1>3, <1>4, <2>3, <4>1, <4>2
    <3>3. CASE step[s].job = j
      <4>1. Live(s, j) /\ job[j] # Absent
        BY <2>2, <2>3, <3>3 DEF Live, RequestInv
      <4>2. NoFurther(j)
        BY <2>1, <2>3, <4>1, QuietStep
      <4>3. Ahead(j)' <= posts' + crashes'
        BY <1>0, <1>1, <1>4, <2>3, <4>2 DEF ClaimInv, NoFurther
      <4>4. ASSUME job'[j].at >= MaxIterations
            PROVE  job'[j].at - MaxIterations + 1 + Ahead(j)' <= posts' + crashes'
        <5>1. job'[j].at = job[j].at + 1 /\ job[j].at \in Nat /\ step'[s].n = job[j].at + 1
          BY <1>2, <3>1, <3>3, <4>1
        <5>2. ~Live(s, j)'
          <6>1. ~(step'[s].n < MaxIterations)
            BY <1>0, <4>4, <5>1
          <6> QED
            BY <3>1, <6>1 DEF Live
        <5>3. Cardinality(Alive(j))' <= Cardinality(Alive(j)) - 1
          BY <2>3, <4>1, <5>2, AliveStep
        <5>4. messages'[j] = messages[j] /\ messages[j] \in Nat
          BY <1>0, <2>1 DEF TypeOK
        <5>5. Cardinality(Alive(j)) \in Nat /\ Cardinality(Alive(j))' \in Nat
          BY <2>3, AliveFinite, AliveStep
        <5>6. Ahead(j)' <= Ahead(j) - 1
          BY <5>3, <5>4, <5>5 DEF Ahead
        <5>7. Ahead(j)' \in Nat
          BY <1>4, <2>3
        <5>8. CASE job[j].at >= MaxIterations
          <6>1. job[j].at - MaxIterations + 1 + Ahead(j) <= posts + crashes
            BY <4>1, <5>8 DEF ClaimInv
          <6> QED
            BY <1>0, <1>1, <2>1, <5>1, <5>6, <5>7, <6>1
        <5>9. CASE job[j].at < MaxIterations
          <6>1. Ahead(j) <= posts + crashes
            BY DEF ClaimInv
          <6> QED
            BY <1>0, <1>1, <2>1, <4>4, <5>1, <5>6, <5>7, <5>9, <6>1
        <5> QED
          BY <1>0, <5>1, <5>8, <5>9
      <4> QED
        BY <4>3, <4>4 DEF ClaimInv
    <3> QED
      BY <3>2, <3>3
  <2>6. step'[s] # Idle \/ job' = job
    <3>1. step'[s] \in Stepping \/ job' = job
      BY <1>0, <1>6, <2>2, Claiming
    <3> QED
      BY <3>1 DEF Stepping, Idle
  <2> QED
    BY <2>4, <2>5, <2>6
<1> QED
  BY <1>5, <1>6

(* Unattended training ends: beyond its last iteration a job makes at most *)
(* one claim for each request and for each failure there has been          *)
(* (training.ts:369, 1449 and index.ts:813-846), whatever the order in     *)
(* which callers, messages and redeliveries arrive.                        *)
THEOREM IterationsEnd == Spec => []IterationsBounded
<1> DEFINE Inv == BaseInv /\ (\A s \in Steps : ReplyInv(s)) /\ (\A j \in Jobs : ClaimInv(j))
<1>1. Init => Inv
  <2> SUFFICES ASSUME Init PROVE Inv
    OBVIOUS
  <2>1. \A s \in Steps : step[s] = Idle /\ step[s].pc # "reply"
    BY DEF Init, Idle
  <2>2. ASSUME NEW j \in Jobs
        PROVE  ClaimInv(j)
    <3>1. Alive(j) = {}
      BY <2>1 DEF Alive, Live
    <3>2. Ahead(j) = 0
      BY <3>1, FS_EmptySet DEF Ahead, Init
    <3> QED
      BY <3>2 DEF ClaimInv, Init
  <2> QED
    BY <2>1, <2>2, BaseInit DEF ReplyInv
<1>2. Inv /\ [Next]_vars => Inv'
  BY BaseNext, ReplyStep, ClaimStep
<1>3. Inv => IterationsBounded
  <2> SUFFICES ASSUME Inv, NEW j \in Jobs, job[j] # Absent
               PROVE  job[j].at <= MaxIterations - 1 + posts + crashes
    BY DEF IterationsBounded
  <2>1. /\ job[j].at \in Nat /\ posts \in Nat /\ crashes \in Nat /\ MaxIterations \in Nat
        /\ Ahead(j) \in Nat
    BY AtType, AliveFinite, TrainingAssumption DEF BaseInv, TypeOK, Ahead
  <2>2. CASE job[j].at >= MaxIterations
    BY <2>1, <2>2 DEF ClaimInv
  <2>3. CASE job[j].at < MaxIterations
    BY <2>1, <2>3
  <2> QED
    BY <2>1, <2>2, <2>3
<1> QED
  BY <1>1, <1>2, <1>3, PTL DEF Spec

-----------------------------------------------------------------------------
(* An iteration that reached its job's row keeps the score it had.         *)
CountedInv ==
    /\ \A j \in Jobs, n \in Numbers :
          <<j, n>> \in counted =>
             job[j] # Absent /\ n <= job[j].at /\ iteration[<<j, n>>] \in Evaluated
    /\ \A s \in Steps : Weighing(s) => ~(<<step[s].job, step[s].n>> \in counted)

(* Unless it was overlapped, a job has one step past its claim, and that   *)
(* step knows the best score of the row.                                   *)
Passed(s, j) == step[s] \in Stepping /\ step[s].pc # "claim" /\ step[s].job = j

Contends(s, j) == step[s].pc = "claim" /\ step[s].job = j /\ step[s].n = job[j].at
Weighs(s, j) == Weighing(s) /\ step[s].job = j

Alone(j) ==
    /\ \A s, t \in Steps : Passed(s, j) /\ Passed(t, j) => s = t
    /\ \A s \in Steps :
          Contends(s, j) => step[s].best = job[j].best /\ \A t \in Steps : ~Passed(t, j)
    /\ \A s \in Steps : Weighs(s, j) => step[s].best = job[j].best

AloneInv(j) == job[j] # Absent /\ ~(j \in overlapped) => Alone(j)

(* The best score is one that reached the row, and none is above it.       *)
BestInv(j) ==
    job[j] # Absent /\ ~(j \in overlapped) =>
      /\ \/ job[j].best = Null
         \/ \E n \in Numbers : <<j, n>> \in counted /\ job[j].best = iteration[<<j, n>>].score
      /\ \A n \in Numbers : <<j, n>> \in counted => iteration[<<j, n>>].score <= job[j].best

LEMMA ScoresAreNumbers ==
    /\ Null \in Int
    /\ \A x \in Scores : x \in Int /\ Null <= x
<1>1. \A x \in Scores : x \in Nat
  BY TrainingAssumption
<1> QED
  BY <1>1 DEF Null

LEMMA BestKept ==
    ASSUME BaseInv, [Next]_vars, NEW j \in Jobs,
           ~\E s \in Steps : Finish(s) /\ step[s].job = j
    PROVE  /\ job[j] # Absent => job'[j].best = job[j].best
           /\ job[j] = Absent /\ job'[j] # Absent => job'[j].best = Null
<1> DEFINE Same == /\ job[j] # Absent => job'[j].best = job[j].best
                   /\ job[j] = Absent /\ job'[j] # Absent => job'[j].best = Null
<1>0. TypeOK /\ NewRow.best = Null
  BY DEF BaseInv, NewRow
<1>1. CASE job' = job
  BY <1>1
<1>2. ASSUME NEW k \in Jobs, job[k] = Absent, job' = [job EXCEPT ![k] = NewRow]
      PROVE  Same
  <2>1. job'[k] = NewRow /\ (k # j => job'[j] = job[j])
    BY <1>0, <1>2 DEF TypeOK
  <2>2. CASE k = j
    BY <1>0, <1>2, <2>1, <2>2
  <2>3. CASE k # j
    BY <2>1, <2>3
  <2> QED
    BY <2>2, <2>3
<1>3. ASSUME NEW k \in Jobs, NEW st \in Statuses,
             job[k] # Absent, job' = [job EXCEPT ![k].st = st]
      PROVE  Same
  BY <1>0, <1>3, StatusType
<1>4. ASSUME NEW s \in Steps, Finish(s)
      PROVE  Same
  BY <1>4, Finishing
<1>5. ASSUME NEW s \in Steps, Claim(s)
      PROVE  Same
  <2>1. RequestInv(s)
    BY DEF BaseInv
  <2>2. \/ job' = job
        \/ /\ job'[step[s].job].best = job[step[s].job].best
           /\ \A k \in Jobs \ {step[s].job} : job'[k] = job[k]
    BY <1>0, <1>5, <2>1, Claiming
  <2>3. job[step[s].job] # Absent
    <3>1. step[s] # Idle
      BY <1>0, <1>5, <2>1, Claiming, StepAt DEF StepPcs
    <3> QED
      BY <2>1, <3>1 DEF RequestInv
  <2>4. CASE step[s].job = j
    BY <2>2, <2>3, <2>4
  <2>5. CASE step[s].job # j
    BY <2>2, <2>5
  <2> QED
    BY <2>4, <2>5
<1> QED
  BY <1>1, <1>2, <1>3, <1>4, <1>5, JobMoves

LEMMA CountedStep ==
    ASSUME BaseInv, CountedInv, [Next]_vars
    PROVE  /\ CountedInv'
           /\ \A j \in Jobs, n \in Numbers :
                 <<j, n>> \in counted => iteration'[<<j, n>>].score = iteration[<<j, n>>].score
<1>0. TypeOK /\ OwnInv
  BY DEF BaseInv
<1>1. ASSUME NEW s \in Steps, Weighing(s)
      PROVE  /\ Owns(s) /\ step[s].job \in Jobs /\ step[s].n \in Numbers /\ step[s] # Idle
             /\ job[step[s].job] # Absent /\ step[s].n <= job[step[s].job].at
  <2>1. step[s] \in Stepping /\ step[s] # Idle /\ Owns(s)
    BY <1>0, <1>1, StepAt DEF Weighing, StepPcs, Owns
  <2> QED
    BY <1>0, <2>1, OwnedNumber DEF Stepping, BaseInv, RequestInv
<1>2. ASSUME NEW j \in Jobs, NEW n \in Numbers, <<j, n>> \in counted
      PROVE  /\ iteration'[<<j, n>>] \in Evaluated
             /\ iteration'[<<j, n>>].score = iteration[<<j, n>>].score
  <2> DEFINE p == <<j, n>>
  <2>1. iteration[p] \in Evaluated /\ p \in Jobs \X Numbers
    BY <1>2 DEF CountedInv
  <2>2. ASSUME NEW s \in Steps, Weighing(s), NEW x,
               iteration' = [iteration EXCEPT ![<<step[s].job, step[s].n>>] = x]
        PROVE  iteration'[p] = iteration[p]
    <3>1. <<step[s].job, step[s].n>> # p
      BY <1>2, <2>2 DEF CountedInv
    <3> QED
      BY <1>0, <2>1, <2>2, <3>1 DEF TypeOK
  <2>3. ASSUME NEW s \in Steps, NoTasks(s)
        PROVE  iteration'[p] = iteration[p]
    BY <2>2, <2>3 DEF NoTasks, At, Weighing
  <2>4. ASSUME NEW s \in Steps, NEW score \in Scores, Evaluate(s, score)
        PROVE  iteration'[p] = iteration[p]
    <3>1. Weighing(s)
      BY <2>4 DEF Evaluate, At, Weighing
    <3>2. iteration' = [iteration EXCEPT ![<<step[s].job, step[s].n>>] =
                          [st |-> "optimizing", score |-> score, tested |-> Tested(step'[s].cur)]]
      BY <1>0, <2>4, Evaluates
    <3> QED
      BY <2>2, <3>1, <3>2
  <2>5. ASSUME NEW s \in Steps, Complete(s)
        PROVE  iteration'[p] = iteration[p]
    BY <2>2, <2>5 DEF Complete, Weighing
  <2>6. ASSUME NEW s \in Steps, Plain(s), ~NoTasks(s), ~Complete(s)
        PROVE  iteration' = iteration
    BY <2>6 DEF Plain, Start, Preflight, Deactivate, Insert, Conflict, Activate, Reply, rows
  <2>7. ASSUME NEW s \in Steps,
               MarkRunning(s) \/ TakenStep(s) \/ Claim(s) \/ Finish(s) \/ Leaves(s)
        PROVE  iteration' = iteration
    BY <2>7 DEF MarkRunning, TakenStep, Load, Claim, Finish, Leaves, Send, Throws, Evicted, rows
  <2>8. ASSUME NEW s \in Steps, NEW k \in Jobs, PostStep(s, k) \/ PostAuto(s, k) \/ Take(s, k)
        PROVE  iteration' = iteration
    BY <2>8 DEF PostStep, Load, PostAuto, Take, rows
  <2> HIDE DEF p
  <2>9. iteration'[p] = iteration[p]
    <3>1. CASE \E s \in Steps :
              \/ MarkRunning(s) \/ TakenStep(s) \/ Claim(s) \/ Finish(s) \/ Plain(s)
              \/ Leaves(s)
              \/ \E score \in Scores : Evaluate(s, score)
      BY <2>3, <2>4, <2>5, <2>6, <2>7, <3>1
    <3>2. CASE iteration' = iteration
      BY <3>2
    <3>3. (\E k \in Jobs : Create(k) \/ Cancel(k)) \/ UNCHANGED vars => iteration' = iteration
      BY DEF Create, Cancel, vars, rows
    <3> QED
      BY <2>8, <3>1, <3>2, <3>3, NextCases
  <2> QED
    BY <2>1, <2>9 DEF p
<1>3. ASSUME NEW j \in Jobs, NEW n \in Numbers, <<j, n>> \in counted
      PROVE  job'[j] # Absent /\ n <= job'[j].at
  <2>1. job[j] # Absent /\ n <= job[j].at
    BY <1>3 DEF CountedInv
  <2>2. job[j].at \in Nat
    BY <1>0, <2>1, AtType
  <2>3. job'[j] # Absent /\ (job'[j].at = job[j].at \/ job'[j].at = job[j].at + 1)
    BY <2>1, OneRequest DEF JobsKept, SameJob, Won
  <2> QED
    BY <2>1, <2>2, <2>3 DEF Numbers
<1>4. ASSUME NEW s \in Steps, Finish(s)
      PROVE  CountedInv'
  <2>1. PICK j \in Jobs : step[s].job = j
    BY <1>4, Finishing
  <2>2. PICK n \in Numbers : step[s].n = n
    BY <1>4, Finishing
  <2>3. counted' = counted \cup {<<j, n>>} /\ Others(s)
    BY <1>4, <2>1, <2>2, Finishing
  <2>4. Weighing(s) /\ ~Weighing(s)'
    <3>1. step[s].pc = "finish" /\ (step'[s] = Idle \/ step'[s].pc \in {"activate", "reply"})
      BY <1>4, Finishing
    <3> QED
      BY <3>1 DEF Weighing, Idle
  <2>5. job'[j] # Absent /\ n <= job'[j].at
    BY <1>1, <1>4, <2>1, <2>2, <2>4, Finishing
  <2>6. iteration'[<<j, n>>] \in Evaluated
    <3>1. step[s].pc \in Evaluating
      BY <1>4 DEF Finish, At, Evaluating
    <3> QED
      BY <1>4, <2>1, <2>2, <3>1 DEF BaseInv, RowInv, Finish
  <2>7. ASSUME NEW k \in Jobs, NEW m \in Numbers, <<k, m>> \in counted'
        PROVE  job'[k] # Absent /\ m <= job'[k].at /\ iteration'[<<k, m>>] \in Evaluated
    <3>1. CASE <<k, m>> \in counted
      BY <1>2, <1>3, <3>1
    <3>2. CASE k = j /\ m = n
      BY <2>5, <2>6, <3>2
    <3> QED
      BY <2>3, <2>7, <3>1, <3>2
  <2>8. ASSUME NEW t \in Steps, Weighing(t)'
        PROVE  ~(<<step'[t].job, step'[t].n>> \in counted')
    <3>1. t # s /\ step'[t] = step[t] /\ Weighing(t)
      BY <2>3, <2>4, <2>8 DEF Others, Weighing
    <3>2. step[t].job # j \/ step[t].n # n
      BY <1>0, <1>1, <2>1, <2>2, <2>4, <3>1 DEF OwnInv
    <3> QED
      BY <2>3, <3>1, <3>2 DEF CountedInv
  <2> QED
    BY <2>7, <2>8 DEF CountedInv
<1>5. CASE ~\E s \in Steps : Finish(s)
  <2>1. counted' = counted
    BY <1>5, HistoryStep
  <2>2. ASSUME NEW t \in Steps, Weighing(t)'
        PROVE  ~(<<step'[t].job, step'[t].n>> \in counted)
    <3>1. CASE step'[t] = step[t]
      BY <2>2, <3>1 DEF Weighing, CountedInv
    <3>2. CASE MovesOn(t)
      BY <2>2, <3>2 DEF MovesOn, CountedInv
    <3>3. CASE Won(t)
      <4>1. step[t].job \in Jobs /\ step[t] # Idle
        BY <3>3 DEF Won, Stepping, Idle
      <4>2. job[step[t].job] # Absent /\ job[step[t].job].at \in Nat
        BY <1>0, <4>1, AtType DEF BaseInv, RequestInv
      <4>3. step'[t].n = job[step[t].job].at + 1 /\ step'[t].job = step[t].job
        BY <3>3 DEF Won
      <4>4. counted \subseteq Jobs \X Numbers
        BY <1>0 DEF TypeOK
      <4> QED
        BY <4>1, <4>2, <4>3, <4>4 DEF CountedInv
    <3>4. CASE step'[t] = Idle \/ Enters(t) \/ Loaded(t)
      BY <2>2, <3>4 DEF Weighing, Idle, Enters, Routes, Loaded
    <3> QED
      BY <3>1, <3>2, <3>3, <3>4, OneRequest DEF Others
  <2> QED
    BY <1>2, <1>3, <2>1, <2>2 DEF CountedInv
<1> QED
  BY <1>2, <1>4, <1>5

LEMMA AloneStep ==
    ASSUME BaseInv, [Next]_vars, NEW j \in Jobs, AloneInv(j)
    PROVE  AloneInv(j)'
<1> SUFFICES ASSUME job'[j] # Absent, ~(j \in overlapped')
             PROVE  Alone(j)'
  BY DEF AloneInv
<1>0. TypeOK /\ ~(j \in overlapped)
  BY HistoryStep DEF BaseInv
<1>1. ASSUME NEW s \in Steps, step[s] # Idle, step[s].job = j
      PROVE  job[j] # Absent /\ (step[s] \in Stepping => step[s].n <= job[j].at)
  BY <1>1 DEF BaseInv, RequestInv
<1>2. ASSUME NEW s \in Steps
      PROVE  /\ Weighs(s, j) => Passed(s, j)
             /\ Passed(s, j) \/ Contends(s, j) => step[s] # Idle /\ step[s] \in Stepping
  BY <1>0, StepAt DEF Passed, Weighs, Contends, Weighing, StepPcs
<1>3. ASSUME NEW s \in Steps, step'[s] = Idle \/ step'[s] \in Routes
      PROVE  ~Passed(s, j)' /\ ~Contends(s, j)' /\ ~Weighs(s, j)'
  <2>1. ~(step'[s] \in Stepping)
    BY <1>3 DEF Idle, Routes, Stepping
  <2>2. step'[s].pc \in {"idle", "mark", "send", "load"}
    BY <1>3 DEF Idle, Routes
  <2> QED
    BY <2>1, <2>2 DEF Passed, Contends, Weighs, Weighing
<1>4. CASE job[j] = Absent
  <2>1. ASSUME NEW t \in Steps
        PROVE  step'[t] = Idle \/ step'[t] \in Routes \/ step'[t].job # j
    <3>1. CASE step'[t] = step[t]
      BY <1>1, <1>4, <3>1
    <3>2. CASE Enters(t) \/ Loaded(t)
      BY <1>4, <3>2 DEF Enters, Loaded
    <3>3. CASE MovesOn(t) \/ Won(t)
      <4>1. step[t] # Idle /\ step'[t].job = step[t].job
        BY <3>3 DEF MovesOn, Won, Stepping, Idle
      <4> QED
        BY <1>1, <1>4, <4>1
    <3> QED
      BY <3>1, <3>2, <3>3, OneRequest DEF Others
  <2>2. ASSUME NEW t \in Steps
        PROVE  ~Passed(t, j)' /\ ~Contends(t, j)' /\ ~Weighs(t, j)'
    <3>1. CASE step'[t].job # j
      BY <3>1 DEF Passed, Contends, Weighs
    <3> QED
      BY <1>3, <2>1, <3>1
  <2> QED
    BY <2>2 DEF Alone
<1>5. CASE job[j] # Absent
  <2>0. Alone(j) /\ job[j].at \in Nat
    BY <1>0, <1>5, AtType DEF AloneInv
  <2>1. ASSUME NEW s \in Steps, Finish(s), step[s].job = j
        PROVE  Alone(j)'
    <3>1. /\ step[s] \in Stepping /\ step[s].pc = "finish" /\ Others(s)
          /\ job'[j].at = job[j].at
          /\ step'[s] = Idle \/ (SameRequest(s) /\ step'[s].pc \in {"activate", "reply"})
      BY <2>1, Finishing
    <3>2. Passed(s, j)
      BY <2>1, <3>1 DEF Passed
    <3>3. ~Contends(s, j)' /\ ~Weighs(s, j)'
      <4>1. step'[s].pc \in {"idle", "activate", "reply"}
        BY <3>1 DEF Idle
      <4> QED
        BY <4>1 DEF Contends, Weighs, Weighing
    <3>4. ASSUME NEW t \in Steps \ {s}
          PROVE  ~Passed(t, j)' /\ ~Contends(t, j)' /\ ~Weighs(t, j)'
      <4>1. ~Passed(t, j) /\ ~Contends(t, j) /\ ~Weighs(t, j)
        BY <1>2, <2>0, <3>2 DEF Alone
      <4> QED
        BY <3>1, <4>1 DEF Others, Passed, Contends, Weighs, Weighing
    <3> QED
      BY <3>3, <3>4 DEF Alone
  <2>2. CASE ~\E s \in Steps : Finish(s) /\ step[s].job = j
    <3>0. job'[j].best = job[j].best
      BY <1>5, <2>2, BestKept
    <3>1. ASSUME job'[j].at = job[j].at,
                 \A t \in Steps : Passed(t, j)' => Passed(t, j),
                 \A t \in Steps : Contends(t, j)' =>
                    \/ Contends(t, j) /\ step'[t].best = step[t].best
                    \/ step'[t].best = job[j].best /\ \A u \in Steps : ~Passed(u, j),
                 \A t \in Steps : Weighs(t, j)' => Weighs(t, j) /\ step'[t].best = step[t].best
          PROVE  Alone(j)'
      BY <2>0, <3>0, <3>1 DEF Alone
    <3>2. ASSUME NEW t \in Steps, step'[t] = step[t], job'[j].at = job[j].at
          PROVE  /\ Passed(t, j)' <=> Passed(t, j)
                 /\ Contends(t, j)' <=> Contends(t, j)
                 /\ Weighs(t, j)' <=> Weighs(t, j)
      BY <3>2 DEF Passed, Contends, Weighs, Weighing
    <3>3. CASE step' = step /\ JobsKept
      <4>1. job'[j].at = job[j].at
        BY <1>5, <3>3 DEF JobsKept, SameJob
      <4> QED
        BY <3>1, <3>2, <3>3, <4>1
    <3>4. ASSUME NEW s \in Steps, Others(s), JobsKept, step'[s] = Idle \/ Enters(s)
          PROVE  Alone(j)'
      <4>1. job'[j].at = job[j].at
        BY <1>5, <3>4 DEF JobsKept, SameJob
      <4>2. ~Passed(s, j)' /\ ~Contends(s, j)' /\ ~Weighs(s, j)'
        BY <1>3, <3>4 DEF Enters
      <4> QED
        BY <3>1, <3>2, <3>4, <4>1, <4>2 DEF Others
    <3>5. ASSUME NEW s \in Steps, Others(s), JobsKept, Loaded(s)
          PROVE  Alone(j)'
      <4>1. job'[j].at = job[j].at
        BY <1>5, <3>5 DEF JobsKept, SameJob
      <4>2. ~Passed(s, j)' /\ ~Weighs(s, j)'
        BY <3>5 DEF Loaded, Passed, Weighs, Weighing
      <4>3. Contends(s, j)' => step'[s].best = job[j].best /\ Past(j) = {}
        BY <3>5 DEF Loaded, Contends
      <4>4. Past(j) = {} => \A u \in Steps : ~Passed(u, j)
        <5> SUFFICES ASSUME NEW u \in Steps, Passed(u, j)
                     PROVE  u \in Past(j)
          OBVIOUS
        <5>1. step[u] # Idle /\ step[u].pc \in StepPcs \ {"claim"} /\ step[u].job = j
          BY <1>0, <1>2, StepAt DEF Passed
        <5> QED
          BY <5>1 DEF Past, Busy, StepPcs
      <4> QED
        BY <3>1, <3>2, <3>5, <4>1, <4>2, <4>3, <4>4 DEF Others
    <3>6. ASSUME NEW s \in Steps, Others(s), JobsKept, MovesOn(s)
          PROVE  Alone(j)'
      <4>1. job'[j].at = job[j].at
        BY <1>5, <3>6 DEF JobsKept, SameJob
      <4>2. /\ Passed(s, j)' => Passed(s, j)
            /\ ~Contends(s, j)'
            /\ Weighs(s, j)' => Weighs(s, j) /\ step'[s].best = step[s].best
        BY <3>6 DEF MovesOn, Passed, Contends, Weighs
      <4> QED
        BY <3>1, <3>2, <3>6, <4>1, <4>2 DEF Others
    <3>7. ASSUME NEW s \in Steps, Others(s), Won(s), step[s].job # j, SameJob(j)
          PROVE  Alone(j)'
      <4>1. job'[j].at = job[j].at
        BY <1>5, <3>7 DEF SameJob
      <4>2. ~Passed(s, j)' /\ ~Contends(s, j)' /\ ~Weighs(s, j)'
        BY <3>7 DEF Won, Passed, Contends, Weighs
      <4> QED
        BY <3>1, <3>2, <3>7, <4>1, <4>2 DEF Others
    <3>8. ASSUME NEW s \in Steps, Others(s), Won(s), step[s].job = j
          PROVE  Alone(j)'
      <4>1. Contends(s, j)
        BY <3>8 DEF Won, Contends
      <4>2. step[s].best = job[j].best /\ \A t \in Steps : ~Passed(t, j)
        BY <2>0, <4>1 DEF Alone
      <4>3. job'[j].at = job[j].at + 1 /\ step'[s].best = job'[j].best
        BY <3>0, <3>8, <4>2 DEF Won
      <4>4. ~Contends(s, j)'
        BY <3>8 DEF Won, Contends
      <4>5. ASSUME NEW t \in Steps \ {s}
            PROVE  ~Passed(t, j)' /\ ~Contends(t, j)' /\ ~Weighs(t, j)'
        <5>1. step'[t] = step[t]
          BY <3>8 DEF Others
        <5>2. ~Passed(t, j)' /\ ~Weighs(t, j)'
          BY <1>2, <4>2, <5>1 DEF Passed, Weighs, Weighing
        <5>3. ~Contends(t, j)'
          <6> SUFFICES ASSUME step[t].pc = "claim", step[t].job = j, step[t].n = job'[j].at
                       PROVE  FALSE
            BY <5>1 DEF Contends
          <6>1. step[t] # Idle /\ step[t] \in Stepping
            BY <1>0, StepAt DEF StepPcs
          <6>2. step[t].n <= job[j].at /\ step[t].n \in Nat
            BY <1>1, <6>1 DEF Stepping
          <6> QED
            BY <2>0, <4>3, <6>2
        <5> QED
          BY <5>2, <5>3
      <4> QED
        BY <4>3, <4>4, <4>5 DEF Alone
    <3> QED
      BY <3>3, <3>4, <3>5, <3>6, <3>7, <3>8, OneRequest
  <2> QED
    BY <2>1, <2>2
<1> QED
  BY <1>4, <1>5

LEMMA BestStep ==
    ASSUME BaseInv, CountedInv, [Next]_vars, NEW j \in Jobs, AloneInv(j), BestInv(j)
    PROVE  BestInv(j)'
<1> SUFFICES ASSUME job'[j] # Absent, ~(j \in overlapped')
             PROVE  /\ \/ job'[j].best = Null
                       \/ \E n \in Numbers : <<j, n>> \in counted'
                                             /\ job'[j].best = iteration'[<<j, n>>].score
                    /\ \A n \in Numbers : <<j, n>> \in counted' =>
                          iteration'[<<j, n>>].score <= job'[j].best
  BY DEF BestInv
<1>0. TypeOK /\ ~(j \in overlapped)
  BY HistoryStep DEF BaseInv
<1>1. \A n \in Numbers : <<j, n>> \in counted =>
         job[j] # Absent /\ iteration'[<<j, n>>].score = iteration[<<j, n>>].score
  BY CountedStep DEF CountedInv
<1>2. ASSUME NEW s \in Steps, Finish(s), step[s].job = j
      PROVE  /\ \/ job'[j].best = Null
                \/ \E n \in Numbers : <<j, n>> \in counted'
                                      /\ job'[j].best = iteration'[<<j, n>>].score
             /\ \A n \in Numbers : <<j, n>> \in counted' =>
                   iteration'[<<j, n>>].score <= job'[j].best
  <2>1. PICK n \in Numbers : step[s].n = n
    BY <1>2, Finishing
  <2>2. /\ job[j] # Absent /\ counted' = counted \cup {<<j, n>>} /\ step[s].score \in Scores
        /\ job'[j].best = IF IsBest(s) THEN step[s].score ELSE step[s].best
    BY <1>2, <2>1, Finishing
  <2>3. step[s].best = job[j].best
    <3>1. Weighs(s, j)
      BY <1>2 DEF Finish, At, Weighs, Weighing
    <3> QED
      BY <1>0, <2>2, <3>1 DEF AloneInv, Alone
  <2>4. iteration'[<<j, n>>].score = step[s].score
    <3>1. step[s].pc \in Evaluating /\ iteration' = iteration
      BY <1>2 DEF Finish, At, Evaluating
    <3> QED
      BY <1>2, <2>1, <3>1 DEF BaseInv, RowInv
  <2>5. job[j].best \in Int /\ step[s].score \in Int
    <3>1. job[j] \in Rows
      BY <1>0, <2>2, JobAt
    <3> QED
      BY <2>2, <3>1, TrainingAssumption DEF Rows, Null
  <2>6. /\ \/ job[j].best = Null
           \/ \E m \in Numbers : <<j, m>> \in counted /\ job[j].best = iteration[<<j, m>>].score
        /\ \A m \in Numbers : <<j, m>> \in counted => iteration[<<j, m>>].score <= job[j].best
    BY <1>0, <2>2 DEF BestInv
  <2>7. CASE step[s].score > job[j].best
    <3>1. job'[j].best = step[s].score
      BY <2>2, <2>3, <2>7 DEF IsBest
    <3>2. ASSUME NEW m \in Numbers, <<j, m>> \in counted'
          PROVE  iteration'[<<j, m>>].score <= job'[j].best
      <4>1. CASE m = n
        BY <2>4, <2>5, <3>1, <4>1
      <4>2. CASE <<j, m>> \in counted
        <5>1. iteration[<<j, m>>].score <= job[j].best
              /\ iteration'[<<j, m>>].score = iteration[<<j, m>>].score
          BY <1>1, <2>6, <4>2
        <5>2. iteration[<<j, m>>].score \in Int
          <6>1. iteration[<<j, m>>] \in Evaluated
            BY <4>2 DEF CountedInv
          <6>2. iteration[<<j, m>>].score \in Scores
            BY <6>1 DEF Evaluated
          <6> QED
            BY <6>2, ScoresAreNumbers
        <5> QED
          BY <2>5, <2>7, <3>1, <5>1, <5>2
      <4> QED
        BY <2>2, <3>2, <4>1, <4>2
    <3> QED
      BY <2>1, <2>2, <2>4, <3>1, <3>2
  <2>8. CASE ~(step[s].score > job[j].best)
    <3>1. job'[j].best = job[j].best /\ step[s].score <= job[j].best
      BY <2>2, <2>3, <2>5, <2>8 DEF IsBest
    <3>2. ASSUME NEW m \in Numbers, <<j, m>> \in counted'
          PROVE  iteration'[<<j, m>>].score <= job'[j].best
      BY <1>1, <2>2, <2>4, <2>6, <3>1, <3>2
    <3>3. \/ job'[j].best = Null
          \/ \E m \in Numbers : <<j, m>> \in counted'
                                /\ job'[j].best = iteration'[<<j, m>>].score
      BY <1>1, <2>2, <2>6, <3>1
    <3> QED
      BY <3>2, <3>3
  <2> QED
    BY <2>7, <2>8
<1>3. CASE ~\E s \in Steps : Finish(s) /\ step[s].job = j
  <2>1. \A n \in Numbers : <<j, n>> \in counted' <=> <<j, n>> \in counted
    <3>1. CASE counted' = counted
      BY <3>1
    <3>2. ASSUME NEW s \in Steps, Finish(s)
          PROVE  \A n \in Numbers : <<j, n>> \in counted' <=> <<j, n>> \in counted
      <4>1. counted' = counted \cup {<<step[s].job, step[s].n>>} /\ step[s].job # j
        BY <1>3, <3>2, Finishing
      <4> QED
        BY <4>1
    <3> QED
      BY <3>1, <3>2, HistoryStep
  <2>2. CASE job[j] # Absent
    <3>1. job'[j].best = job[j].best
      BY <1>3, <2>2, BestKept
    <3>2. /\ \/ job[j].best = Null
             \/ \E m \in Numbers : <<j, m>> \in counted /\ job[j].best = iteration[<<j, m>>].score
          /\ \A m \in Numbers : <<j, m>> \in counted => iteration[<<j, m>>].score <= job[j].best
      BY <1>0, <2>2 DEF BestInv
    <3> QED
      BY <1>1, <2>1, <3>1, <3>2
  <2>3. CASE job[j] = Absent
    <3>1. job'[j].best = Null
      BY <1>3, <2>3, BestKept
    <3> QED
      BY <1>1, <2>1, <2>3, <3>1
  <2> QED
    BY <2>2, <2>3
<1> QED
  BY <1>2, <1>3

Weighed(j) == {iteration[p].score : p \in counted \cap ({j} \X Numbers)}

LEMMA BestIsMax ==
    ASSUME BaseInv, CountedInv, NEW j \in Jobs, BestInv(j), job[j] # Absent,
           ~(j \in overlapped)
    PROVE  job[j].best = Max({Null} \cup Weighed(j))
<1> DEFINE S == {Null} \cup Weighed(j)
           b == job[j].best
<1>1. \A x \in Weighed(j) : x \in Scores /\ \E n \in Numbers : <<j, n>> \in counted
                                                        /\ x = iteration[<<j, n>>].score
  <2> SUFFICES ASSUME NEW n \in Numbers, <<j, n>> \in counted
               PROVE  iteration[<<j, n>>].score \in Scores
    BY DEF Weighed
  <2>1. iteration[<<j, n>>] \in Evaluated
    BY DEF CountedInv
  <2> QED
    BY <2>1 DEF Evaluated
<1>2. IsFiniteSet(S) /\ S # {} /\ S \subseteq Int
  <2>1. Weighed(j) \subseteq Scores /\ IsFiniteSet(Scores)
    BY <1>1, TrainingAssumption
  <2>2. IsFiniteSet(Weighed(j))
    BY <2>1, FS_Subset
  <2>3. IsFiniteSet(Weighed(j) \cup {Null})
    BY <2>2, FS_AddElement
  <2>4. S = Weighed(j) \cup {Null}
    OBVIOUS
  <2>5. S # {} /\ S \subseteq Int
    <3>1. Null \in Int /\ \A x \in Weighed(j) : x \in Int
      BY <1>1, ScoresAreNumbers
    <3> QED
      BY <3>1
  <2>6. IsFiniteSet(S)
    BY <2>3, <2>4
  <2> QED
    BY <2>5, <2>6
<1>3. Max(S) \in S /\ \A x \in S : x <= Max(S)
  BY <1>2, MaxOfFinite
<1>4. b \in S
  BY DEF BestInv, Weighed
<1>5. \A x \in S : x <= b
  <2>1. b \in Int /\ Null <= b
    <3>1. job[j] \in Rows
      BY JobAt DEF BaseInv
    <3>2. b \in Scores \cup {Null}
      BY <3>1 DEF Rows
    <3> HIDE DEF b
    <3> QED
      BY <3>2, ScoresAreNumbers
  <2>2. ASSUME NEW x \in Weighed(j)
        PROVE  x <= b
    BY <1>1, <2>2 DEF BestInv
  <2> QED
    BY <2>1, <2>2
<1>6. Max(S) <= b /\ b <= Max(S) /\ b \in Int /\ Max(S) \in Int
  BY <1>2, <1>3, <1>4, <1>5
<1> QED
  BY <1>6

(* The score a job calls its best is the highest of the iterations that    *)
(* reached its row (training.ts:976, 1029-1037), for any number of         *)
(* requests, messages, failures and redeliveries, as long as no two steps  *)
(* of the job ran beside each other.                                       *)
THEOREM BestIsTheBest == Spec => []BestIsBest
<1> DEFINE Inv == /\ BaseInv /\ CountedInv
                  /\ \A j \in Jobs : AloneInv(j) /\ BestInv(j)
<1>1. Init => Inv
  <2> SUFFICES ASSUME Init PROVE Inv
    OBVIOUS
  <2>1. \A s \in Steps : ~Weighing(s)
    BY DEF Init, Weighing, Idle
  <2>2. CountedInv
    BY <2>1 DEF Init, CountedInv
  <2>3. \A j \in Jobs : AloneInv(j) /\ BestInv(j)
    BY DEF Init, AloneInv, BestInv
  <2> QED
    BY <2>2, <2>3, BaseInit
<1>2. Inv /\ [Next]_vars => Inv'
  BY BaseNext, CountedStep, AloneStep, BestStep
<1>3. Inv => BestIsBest
  BY BestIsMax DEF BestIsBest, Weighed
<1> QED
  BY <1>1, <1>2, <1>3, PTL DEF Spec
=============================================================================
