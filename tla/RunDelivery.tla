---------------------------- MODULE RunDelivery ----------------------------
(***************************************************************************)
(* How a session (the Durable Object of deploy/src/index.ts) runs an agent *)
(* for the clients connected to it: the guard against a second run, the    *)
(* poller that waits for the workflow and records its answer, what happens *)
(* when a client closes its connection, and the recovery of the workflows  *)
(* that a restarted object finds in its table active_workflows.            *)
(*                                                                         *)
(* The object is single-threaded: an action is what it executes between    *)
(* two awaits.  A write to its own SQLite may fail; its reads do not.  The *)
(* workflow is external here (AgentRun models it): it runs by itself and   *)
(* ends complete, errored or terminated, and its output is some text: an   *)
(* empty one is recorded by nobody (index.ts:887, 1523).                   *)
(***************************************************************************)
EXTENDS Integers, FiniteSets

CONSTANTS
    Clients,      \* connections
    Runs,         \* the run messages of a behaviour
    NoRun,
    MaxOpens,     \* bound on the connections opened after the first ones
    MaxRestarts,  \* bound on the restarts of the object
    MaxFailures   \* bound on the writes to its SQLite that fail

ASSUME DeliveryAssumption ==
    /\ NoRun \notin Runs
    /\ MaxOpens \in Nat /\ MaxRestarts \in Nat /\ MaxFailures \in Nat

VARIABLES
    open,         \* connections that are open
    activeRun,    \* _activeRun
    activeWf,     \* _activeWorkflow, as the run it belongs to
    aborted,      \* runs whose _activeWorkflow object has abortPoll set
    closers,      \* onClose handlers that await the end of terminate()
    poller,       \* the handler of each run message
    recoverer,    \* _recoverOrphanedWorkflow for each run
    tracked,      \* the rows of active_workflows
    failed,       \* history: the writes to SQLite that failed, and of which run
    wf,           \* status of each workflow
    events,       \* which of done and error a workflow has put into the KV store
    answers,      \* answers of each run in the conversation history
    opens, restarts, \* the bounds' counters
    closed,       \* history: some client has closed its connection
    redo,         \* history: runs whose answer was recorded, but not their end
    excused       \* history: runs that were given up

memory == <<activeRun, activeWf, aborted, closers>>
table == <<tracked, failed>>
bounds == <<opens, restarts>>
history == <<closed, redo, excused>>
vars == <<open, memory, poller, recoverer, table, wf, events, answers,
          bounds, history>>

New == [pc |-> "new"]
Gone == [pc |-> "gone"]
Writes == {"question", "track", "untrack"}
Working == [pc: {"check", "create", "track", "sleep", "ending"}, client: Clients]

TypeOK ==
    /\ open \subseteq Clients
    /\ activeRun \in BOOLEAN
    /\ activeWf \in Runs \cup {NoRun}
    /\ aborted \subseteq Runs
    /\ closers \in Nat
    /\ poller \in [Runs -> {New, Gone} \cup Working]
    /\ recoverer \in [Runs -> {"off", "poll", "ending"}]
    /\ tracked \subseteq Runs /\ failed \subseteq Writes \X Runs
    /\ wf \in [Runs -> {"none", "running", "complete", "errored", "terminated"}]
    /\ events \in [Runs -> SUBSET {"done", "error"}]
    /\ answers \in [Runs -> Nat]
    /\ opens \in 0..MaxOpens /\ restarts \in 0..MaxRestarts
    /\ closed \in BOOLEAN /\ redo \subseteq Runs /\ excused \subseteq Runs

Init ==
    /\ open = Clients
    /\ activeRun = FALSE /\ activeWf = NoRun /\ aborted = {} /\ closers = 0
    /\ poller = [r \in Runs |-> New]
    /\ recoverer = [r \in Runs |-> "off"]
    /\ tracked = {} /\ failed = {}
    /\ wf = [r \in Runs |-> "none"]
    /\ events = [r \in Runs |-> {}]
    /\ answers = [r \in Runs |-> 0]
    /\ opens = 0 /\ restarts = 0
    /\ closed = FALSE /\ redo = {} /\ excused = {}

-----------------------------------------------------------------------------
At(r, pc) == poller[r].pc = pc
Go(r, pc) == poller' = [poller EXCEPT ![r].pc = pc]
Stop(r) == poller' = [poller EXCEPT ![r] = Gone]
Polling(r) == ~(poller[r].pc \in {"new", "gone"})
Left(r) == poller[r].client \notin open
Answer(r) == answers' = [answers EXCEPT ![r] = @ + 1]
Excuse(rs) == excused' = excused \cup rs
Terminated(r) == [wf EXCEPT ![r] = IF @ = "running" THEN "terminated" ELSE @]

(* Conditions that a plausible mistake would change, each preceded by the  *)
(* form the mistake would give it.                                         *)
GuardRebuiltNever == FALSE
GuardRebuilt == tracked # {}

OrphansNone == {}
Orphans == tracked

UntrackedNothing(r) == tracked
Untracked(r) == tracked \ {r}

AwaitingAlways == TRUE
Awaiting == closers > 0

(* A write that fails.  Of a row of active_workflows the failure is        *)
(* swallowed, and the row stays away, or stays.                            *)
Fails(write, r) ==
    /\ Cardinality(failed) < MaxFailures
    /\ failed' = failed \cup {<<write, r>>}

Insert(r) ==
    \/ tracked' = tracked \cup {r} /\ UNCHANGED failed
    \/ UNCHANGED tracked /\ Fails("track", r)

Untrack(r) ==
    \/ tracked' = Untracked(r) /\ UNCHANGED failed
    \/ UNCHANGED tracked /\ Fails("untrack", r)

-----------------------------------------------------------------------------
Connect(c) ==
    /\ c \notin open
    /\ opens < MaxOpens /\ opens' = opens + 1
    /\ open' = open \cup {c}
    /\ UNCHANGED <<memory, poller, recoverer, table, wf, events, answers,
                   restarts, history>>

(* A run message; it is refused while the guard is set.                    *)
Ask(c, r) ==
    /\ c \in open /\ poller[r] = New
    /\ ~activeRun
    /\ activeRun' = TRUE
    /\ poller' = [poller EXCEPT ![r] = [pc |-> "check", client |-> c]]
    /\ UNCHANGED <<open, activeWf, aborted, closers, recoverer, table, wf,
                   events, answers, bounds, history>>

(* The credit check denies the run,                                        *)
DenyStuck(r) ==
    /\ At(r, "check")
    /\ Stop(r)
    /\ UNCHANGED <<open, memory, recoverer, table, wf, events, answers,
                   bounds, history>>

Deny(r) ==
    /\ At(r, "check")
    /\ activeRun' = FALSE
    /\ Stop(r)
    /\ UNCHANGED <<open, activeWf, aborted, closers, recoverer, table, wf,
                   events, answers, bounds, history>>

(* or lets it pass, and the question is recorded.                          *)
Admit(r) ==
    /\ At(r, "check")
    /\ Go(r, "create")
    /\ UNCHANGED <<open, memory, recoverer, table, wf, events, answers,
                   bounds, history>>

(* When the question cannot be stored the handler ends there, outside of   *)
(* the try that would clear the guard.                                     *)
AdmitThrows(r) ==
    /\ At(r, "check")
    /\ Fails("question", r)
    /\ Stop(r)
    /\ UNCHANGED <<open, memory, recoverer, tracked, wf, events, answers,
                   bounds, history>>

(* The end of a run: untrack it and clear the guard.                       *)
Exit(r) ==
    /\ Untrack(r)
    /\ activeRun' = FALSE
    /\ activeWf' = NoRun
    /\ Stop(r)
    /\ UNCHANGED <<aborted, closers>>

CreateFails(r) ==
    /\ At(r, "create")
    /\ Exit(r)
    /\ UNCHANGED <<open, recoverer, wf, events, answers, bounds, history>>

Create(r) ==
    /\ At(r, "create")
    /\ wf' = [wf EXCEPT ![r] = "running"]
    /\ Go(r, "track")
    /\ UNCHANGED <<open, memory, recoverer, table, events, answers, bounds,
                   history>>

(* create() has answered: remember the workflow, begin to poll.            *)
Track(r) ==
    /\ At(r, "track")
    /\ activeWf' = r
    /\ Insert(r)
    /\ Go(r, "sleep")
    /\ UNCHANGED <<open, activeRun, aborted, closers, recoverer, wf, events,
                   answers, bounds, history>>

(* The poller wakes up and finds done in the KV store: it sends it to the  *)
(* client, which may throw when the client is gone, and records the answer.*)
Deliver(r) ==
    /\ At(r, "sleep") /\ "done" \in events[r]
    /\ Answer(r)
    /\ Go(r, "ending")
    /\ UNCHANGED <<open, memory, recoverer, table, wf, events, bounds, history>>

(* When the answer cannot be stored the poller ends all the same.          *)
AnswerThrows(r) ==
    /\ At(r, "sleep") /\ "done" \in events[r]
    /\ Exit(r)
    /\ Excuse({r})
    /\ UNCHANGED <<open, recoverer, wf, events, answers, bounds, closed, redo>>

SendThrows(r) ==
    /\ At(r, "sleep") /\ events[r] # {} /\ Left(r)
    /\ Exit(r)
    /\ UNCHANGED <<open, recoverer, wf, events, answers, bounds, history>>

(* An error event ends the poller, whatever the workflow does next.        *)
ErrorEvent(r) ==
    /\ At(r, "sleep") /\ "error" \in events[r]
    /\ Exit(r)
    /\ Excuse({r})
    /\ UNCHANGED <<open, recoverer, wf, events, answers, bounds, closed, redo>>

(* Or the status of the workflow tells that it is over: the poller makes   *)
(* up a done event.                                                        *)
Synthesize(r) ==
    /\ At(r, "sleep") /\ wf[r] = "complete"
    /\ Answer(r)
    /\ Exit(r)
    /\ UNCHANGED <<open, recoverer, wf, events, bounds, history>>

(* But when it reads the status as complete after it has read the store    *)
(* and then finds done there, it takes it for sent, and ends.              *)
DoneTooLate(r) ==
    /\ At(r, "sleep") /\ wf[r] = "complete" /\ "done" \in events[r]
    /\ Exit(r)
    /\ Excuse({r})
    /\ UNCHANGED <<open, recoverer, wf, events, answers, bounds, closed, redo>>

NoAnswer(r) ==
    /\ At(r, "sleep") /\ wf[r] \in {"errored", "terminated"}
    /\ Exit(r)
    /\ UNCHANGED <<open, recoverer, wf, events, answers, bounds, history>>

(* Otherwise it sleeps again, unless its client is gone, which terminates  *)
(* the workflow,                                                           *)
ClientGone(r) ==
    /\ At(r, "sleep") /\ Left(r)
    /\ wf' \in {wf, Terminated(r)}
    /\ Go(r, "ending")
    /\ UNCHANGED <<open, memory, recoverer, table, events, answers, bounds,
                   history>>

(* or onClose has set abortPoll on the current object,                     *)
Abort(r) ==
    /\ At(r, "sleep") /\ ~Left(r) /\ activeWf \in aborted
    /\ Exit(r)
    /\ Excuse({r})
    /\ UNCHANGED <<open, recoverer, wf, events, answers, bounds, closed, redo>>

(* or five minutes have passed.                                            *)
TimeOut(r) ==
    /\ At(r, "sleep") /\ ~Left(r)
    /\ Exit(r)
    /\ Excuse({r})
    /\ UNCHANGED <<open, recoverer, wf, events, answers, bounds, closed, redo>>

End(r) ==
    /\ At(r, "ending")
    /\ Exit(r)
    /\ UNCHANGED <<open, recoverer, wf, events, answers, bounds, history>>

-----------------------------------------------------------------------------
(* onClose: the handler terminates whatever workflow is the active one,    *)
(* and awaits that.  (The cancel() it also awaits does not exist on an     *)
(* instance: it returns at once.)                                          *)
OwnRuns(c) == {r \in Runs : Polling(r) /\ poller[r].client = c}

Close(c) ==
    /\ c \in open
    /\ open' = open \ {c}
    /\ IF activeWf = NoRun
       THEN activeRun' = FALSE /\ UNCHANGED <<aborted, wf, closers>>
       ELSE /\ aborted' = aborted \cup {activeWf}
            /\ wf' \in {wf, Terminated(activeWf)}
            /\ closers' = closers + 1
            /\ UNCHANGED activeRun
    /\ closed' = TRUE
    /\ Excuse(OwnRuns(c) \cup ({activeWf} \ {NoRun}))
    /\ UNCHANGED <<activeWf, poller, recoverer, table, events, answers,
                   bounds, redo>>

(* and when terminate() has answered, untracks whatever workflow is the    *)
(* active one by then.  Without any it throws before it clears the guard.  *)
CloseEnds ==
    /\ Awaiting
    /\ closers' = closers - 1
    /\ IF activeWf = NoRun
       THEN UNCHANGED <<activeRun, activeWf, table, excused>>
       ELSE /\ Untrack(activeWf)
            /\ activeRun' = FALSE
            /\ activeWf' = NoRun
            /\ Excuse({activeWf})
    /\ UNCHANGED <<open, aborted, poller, recoverer, wf, events, answers,
                   bounds, closed, redo>>

-----------------------------------------------------------------------------
(* The object restarts: its memory and its connections are gone.  onStart  *)
(* reads the table, sets the guard if it has rows, and recovers each one.  *)
Restart ==
    /\ restarts < MaxRestarts /\ restarts' = restarts + 1
    /\ open' = {}
    /\ activeRun' = GuardRebuilt
    /\ activeWf' = NoRun /\ aborted' = {} /\ closers' = 0
    /\ poller' = [r \in Runs |-> IF Polling(r) THEN Gone ELSE poller[r]]
    /\ recoverer' = [r \in Runs |-> IF r \in Orphans THEN "poll" ELSE "off"]
    /\ redo' = redo \cup {r \in Runs : recoverer[r] = "ending"
                                       \/ (At(r, "ending") /\ answers[r] > 0)}
    /\ Excuse({r \in Runs : Polling(r)} \ tracked)
    /\ UNCHANGED <<table, wf, events, answers, opens, closed>>

Recovering(r, pc) == recoverer[r] = pc
Recovered(r) ==
    /\ recoverer' = [recoverer EXCEPT ![r] = "off"]
    /\ Untrack(r)

Recover(r) ==
    /\ Recovering(r, "poll") /\ wf[r] = "complete"
    /\ Answer(r)
    /\ recoverer' = [recoverer EXCEPT ![r] = "ending"]
    /\ UNCHANGED <<open, memory, poller, table, wf, events, bounds, history>>

RecoverNothing(r) ==
    /\ Recovering(r, "poll") /\ wf[r] \in {"errored", "terminated"}
    /\ Recovered(r)
    /\ UNCHANGED <<open, memory, poller, wf, events, answers, bounds, history>>

(* Five minutes have passed, or the status cannot be read, or the answer   *)
(* cannot be stored.                                                       *)
RecoverGivesUp(r) ==
    /\ Recovering(r, "poll")
    /\ Recovered(r)
    /\ Excuse({r})
    /\ UNCHANGED <<open, memory, poller, wf, events, answers, bounds, closed, redo>>

RecoverEnds(r) ==
    /\ Recovering(r, "ending")
    /\ Recovered(r)
    /\ UNCHANGED <<open, memory, poller, wf, events, answers, bounds, history>>

-----------------------------------------------------------------------------
(* The workflow: progress events that may never be seen, and its end.      *)
Emit(r, e) ==
    /\ wf[r] = "running"
    /\ events' = [events EXCEPT ![r] = @ \cup {e}]
    /\ UNCHANGED <<open, memory, poller, recoverer, table, wf, answers,
                   bounds, history>>

Finish(r, status) ==
    /\ wf[r] = "running"
    /\ wf' = [wf EXCEPT ![r] = status]
    /\ UNCHANGED <<open, memory, poller, recoverer, table, events, answers,
                   bounds, history>>

Poll(r) ==
    \/ Deny(r) \/ Admit(r) \/ AdmitThrows(r) \/ CreateFails(r) \/ Create(r)
    \/ Track(r) \/ Deliver(r) \/ AnswerThrows(r) \/ SendThrows(r) \/ ErrorEvent(r)
    \/ Synthesize(r) \/ DoneTooLate(r) \/ NoAnswer(r)
    \/ ClientGone(r) \/ Abort(r) \/ TimeOut(r) \/ End(r)

RecoverRun(r) ==
    Recover(r) \/ RecoverNothing(r) \/ RecoverGivesUp(r) \/ RecoverEnds(r)

Next ==
    \/ \E c \in Clients : Connect(c) \/ Close(c) \/ \E r \in Runs : Ask(c, r)
    \/ \E r \in Runs :
          \/ Poll(r) \/ RecoverRun(r)
          \/ \E e \in {"done", "error"} : Emit(r, e)
          \/ \E status \in {"complete", "errored"} : Finish(r, status)
    \/ CloseEnds \/ Restart

Spec == Init /\ [][Next]_vars

-----------------------------------------------------------------------------
(* The runs that a poller or a recovery looks after.  A run that was given *)
(* up is none of them, though its workflow may go on.                      *)
UnderWay == {r \in Runs : Polling(r) \/ recoverer[r] # "off"}
Failed(write, r) == <<write, r>> \in failed

(* "Concurrency guard: only one run at a time per session" (index.ts:1167) *)
(* holds as long as no client closes its connection and no row fails to be *)
(* deleted, over restarts and the recovery of the runs they interrupt.     *)
OneRunUnlessClosed ==
    ~closed /\ (\A r \in Runs : ~Failed("untrack", r)) => Cardinality(UnderWay) <= 1

(* Unless the object has restarted, the guard is only set while a run is   *)
(* under way: no denied, failed, aborted or abandoned run leaves the       *)
(* session locked, in whatever order pollers and onClose handlers end,     *)
(* but for a run whose question could not be stored.                       *)
(* (After a restart it stays set until a client closes: index.ts:578.)     *)
GuardIsFreed ==
    restarts = 0 /\ activeRun => \E r \in Runs : Polling(r) \/ Failed("question", r)

(* The answer of a run is recorded once, by its poller or by a recovery,   *)
(* unless a restart came between the record and the end of the run, or its *)
(* row could not be deleted.                                               *)
AnswerRecordedOnce ==
    \A r \in Runs \ redo : Failed("untrack", r) \/ answers[r] <= 1

(* No complete workflow is forgotten over a restart: its answer is in the  *)
(* history when nobody looks after it any more, unless the run was given   *)
(* up.  The ways to give one up: its client left; a closing client took    *)
(* its row; an error event; the five minutes; a done that the poller found *)
(* only after it had read the status (index.ts:1410); an answer that could *)
(* not be stored; and a restart that finds no row of it, since it had not  *)
(* been inserted, or could not be.                                         *)
AnswerKept ==
    \A r \in Runs \ (excused \cup UnderWay) : wf[r] = "complete" => answers[r] > 0
=============================================================================
