------------------------------ MODULE AgentRun ------------------------------
(***************************************************************************)
(* One agent run: AgentRunWorkflow.run of deploy/src/workflow.ts, with its *)
(* idempotency cache (runtime/idempotency.ts) and its cost snapshot        *)
(* (runtime/do-lifecycle.ts).                                              *)
(*                                                                         *)
(* The workflow engine records the result of each step.do.  When the       *)
(* worker is evicted the engine calls run() again from the top: recorded   *)
(* steps return their result at once, everything between them runs again,  *)
(* and the local variables start anew.  The engine retries the attempts of *)
(* a step; a step out of retries throws, and run() fails.                  *)
(*                                                                         *)
(* Costs are whole numbers.  Code between two effects that a replay could  *)
(* see is part of the action of the first.                                 *)
(***************************************************************************)
EXTENDS Integers, SequencesExt, FiniteSetsExt

CONSTANTS
    MaxTurns,       \* config.max_turns
    Budget,         \* config.budget_limit_usd
    LLMCosts,       \* what one LLM call may cost
    Tools,          \* the names of the tools a model may call
    Arguments,      \* the arguments it may give them
    MaxBatch,       \* bound on the tool calls of one turn
    Estimate,       \* estimateToolCost
    ToolCosts,      \* what one execution of a tool may cost
    ToolRetries,    \* retries of a tool step (2)
    BackupEvery,    \* turns between two cost backups (5)
    MaxCrashes      \* bound on the evictions of a behaviour

ASSUME RunAssumption ==
    /\ MaxTurns \in Nat \ {0}
    /\ Budget \in Nat \ {0}
    /\ LLMCosts \subseteq Nat /\ LLMCosts # {} /\ IsFiniteSet(LLMCosts)
    /\ MaxBatch \in Nat \ {0}
    /\ Estimate \in Nat
    /\ ToolCosts \subseteq Nat /\ ToolCosts # {} /\ IsFiniteSet(ToolCosts)
    /\ ToolRetries \in Nat
    /\ BackupEvery \in Nat \ {0}
    /\ MaxCrashes \in Nat

VARIABLES
    status,     \* of the instance: running, complete or errored
    llmStep,    \* recorded result of step llm-<turn>
    toolStep,   \* recorded result of step tool-<turn>-<i>
    recovery,   \* recorded result of step recovery-llm
    finalize,   \* the result announced by step finalize
    cleaned,    \* step session-cleanup is recorded
    cache,      \* KV idem/...: results of tools by turn and call
    snapshot,   \* KV session-state/...: the backed-up cost
    run,        \* the local variables of run()
    tool,       \* the attempts at the tool steps of the current turn
    out,        \* what run() returned
    executed,   \* history: executions of each call of each turn
    lost,       \* history: those whose result a later attempt could not read
    refused,    \* history: the session limit turned a replay away
    rebased,    \* history: a replay started from a backed-up cost
    stopped,    \* history: the clock or an error ended a turn loop
    crashes     \* evictions so far (bounded by MaxCrashes)

durable == <<llmStep, toolStep, recovery, finalize, cleaned, cache, snapshot>>
history == <<executed, lost, refused, rebased, stopped>>
vars == <<status, durable, run, tool, out, history, crashes>>

Turns == 1..MaxTurns
Slots == 1..MaxBatch
Calls == Tools \X Arguments
Keys == Turns \X Calls
None == [none |-> TRUE]

(* What an LLM call returns: text, nothing at all, a search for tools that *)
(* is answered without a step, or a batch of calls.  A refusal ends the    *)
(* loop like text does.  Text with a skill activation tag is left out: the *)
(* prompts of the skills are loaded outside a step (workflow.ts:731), and  *)
(* a replay that finds others than before rewrites the text differently.   *)
Replies == {"text", "silent", "discover", "calls"}
Batches == UNION {[1..n -> Calls] : n \in Slots}
LLMResults == [kind: {"text", "silent", "discover"}, batch: {<<>>}, cost: LLMCosts]
                \cup [kind: {"calls"}, batch: Batches, cost: LLMCosts]
LastReplies == [cost: LLMCosts, text: BOOLEAN]
Entries == [err: BOOLEAN, cost: ToolCosts]
(* The result of run(): its trace_id is drawn anew each time run() starts, *)
(* so that the number of the start stands for it.                          *)
Results == [cost: Nat, text: BOOLEAN, trace: 0..MaxCrashes]

Locals == [pc: {"start", "turn", "tools", "recover", "finalize", "cleanup",
                "record", "return"},
           turn: Turns, cost: Nat, called: BOOLEAN, text: BOOLEAN,
           sigs: Seq([tool: Tools, err: BOOLEAN])]
Attempts == [st: {"todo", "ran", "cached", "done"}, entry: {None} \cup Entries,
             tries: 0..ToolRetries]

TypeOK ==
    /\ status \in {"running", "complete", "errored"}
    /\ llmStep \in [Turns -> {None} \cup LLMResults]
    /\ toolStep \in [Turns \X Slots -> {None} \cup Entries]
    /\ recovery \in {None} \cup LastReplies
    /\ finalize \in {None} \cup Results
    /\ cleaned \in BOOLEAN
    /\ cache \in [Keys -> {None} \cup Entries]
    /\ snapshot \in Nat
    /\ run \in Locals
    /\ tool \in [Slots -> Attempts]
    /\ out \in {None} \cup Results
    /\ executed \in [Keys -> Nat]
    /\ lost \in [Keys -> Nat]
    /\ refused \in BOOLEAN /\ rebased \in BOOLEAN /\ stopped \in BOOLEAN
    /\ crashes \in 0..MaxCrashes

Fresh == [pc |-> "start", turn |-> 1, cost |-> 0, called |-> FALSE, text |-> FALSE,
          sigs |-> <<>>]
NoAttempts == [i \in Slots |-> [st |-> "todo", entry |-> None, tries |-> 0]]

Init ==
    /\ status = "running"
    /\ llmStep = [t \in Turns |-> None]
    /\ toolStep = [p \in Turns \X Slots |-> None]
    /\ recovery = None /\ finalize = None /\ cleaned = FALSE
    /\ cache = [k \in Keys |-> None]
    /\ snapshot = 0
    /\ run = Fresh /\ tool = NoAttempts /\ out = None
    /\ executed = [k \in Keys |-> 0] /\ lost = [k \in Keys |-> 0]
    /\ refused = FALSE /\ rebased = FALSE /\ stopped = FALSE
    /\ crashes = 0

-----------------------------------------------------------------------------
(* Conditions and effects that a plausible mistake would change, each      *)
(* preceded by the form the mistake would give it.                         *)
ExhaustedLate(cost) == cost > Budget
Exhausted(cost) == cost >= Budget

Recompute(t) == LLMResults
RepliesAt(t) == IF llmStep[t] # None THEN {llmStep[t]} ELSE LLMResults

CachedNever(k) == FALSE
Cached(k) == cache[k] # None

ToolCostDropped(t) == 0
ToolCost(t) ==
    MapThenSumSet(LAMBDA i : toolStep[<<t, i>>].cost, DOMAIN llmStep[t].batch)

TurnLeftLate(t) == t <= MaxTurns
TurnLeft(t) == t < MaxTurns

SameTurn(t) == t
NextTurn(t) == t + 1

-----------------------------------------------------------------------------
Active(pc) == status = "running" /\ run.pc = pc

(* The turn loop ends: one more LLM call if there were tools but no text.  *)
AfterLoop(r) ==
    [r EXCEPT !.pc = IF ~r.text /\ r.called THEN "recover" ELSE "finalize"]

(* The loop's counter moves on, or the loop has used all its turns.        *)
Advance(r) ==
    IF TurnLeft(r.turn) THEN [r EXCEPT !.turn = NextTurn(@), !.pc = "turn"]
    ELSE AfterLoop(r)

(* The top of run(): the session limit, the snapshot, the registration and *)
(* the bootstrap.  Other sessions of the org, and this one's own earlier   *)
(* registration, may have the counter at its limit.                        *)
Start ==
    /\ Active("start")
    /\ run' = [run EXCEPT !.pc = "turn", !.cost = snapshot]
    /\ rebased' = (rebased \/ snapshot > 0)
    /\ UNCHANGED <<status, durable, tool, out, executed, lost, refused,
                   stopped, crashes>>

LimitReached ==
    /\ Active("start")
    /\ status' = "complete"
    /\ out' = [cost |-> 0, text |-> TRUE, trace |-> crashes]
    /\ refused' = (refused \/ crashes > 0)
    /\ UNCHANGED <<durable, run, tool, executed, lost, rebased, stopped,
                   crashes>>

(* The guards at the top of a turn.                                        *)
BudgetStops ==
    /\ Active("turn")
    /\ Exhausted(run.cost)
    /\ run' = AfterLoop(run)
    /\ UNCHANGED <<status, durable, tool, out, history, crashes>>

WallClockStops ==
    /\ Active("turn")
    /\ run.turn > 1
    /\ run' = AfterLoop([run EXCEPT !.text = TRUE])
    /\ stopped' = TRUE
    /\ UNCHANGED <<status, durable, tool, out, executed, lost, refused,
                   rebased, crashes>>

(* Step llm-<turn>, and what the loop does with the reply.                 *)
LLMTurn(reply) ==
    /\ Active("turn")
    /\ ~Exhausted(run.cost)
    /\ reply \in RepliesAt(run.turn)
    /\ llmStep' = [llmStep EXCEPT ![run.turn] = reply]
    /\ LET r == [run EXCEPT !.cost = @ + reply.cost]
           n == Len(reply.batch)
       IN run' = CASE reply.kind = "text" -> AfterLoop([r EXCEPT !.text = TRUE])
                   [] reply.kind = "silent" -> AfterLoop(r)
                   [] reply.kind = "discover" ->
                        Advance([r EXCEPT !.called = TRUE])
                   [] reply.kind = "calls" /\ r.cost + n * Estimate > Budget ->
                        AfterLoop([r EXCEPT !.text = TRUE])
                   [] OTHER -> [r EXCEPT !.pc = "tools"]
    /\ tool' = NoAttempts
    /\ UNCHANGED <<status, toolStep, recovery, finalize, cleaned, cache,
                   snapshot, out, history, crashes>>

(* Any other error, and a step out of retries, ends the instance.          *)
RunThrows ==
    /\ status = "running"
    /\ run.pc \in {"start", "turn", "tools", "recover", "cleanup", "record"}
    /\ status' = "errored"
    /\ UNCHANGED <<durable, run, tool, out, history, crashes>>

-----------------------------------------------------------------------------
(* Step tool-<turn>-<i>, which runs beside the others of its turn.         *)
Batch == llmStep[run.turn].batch
Key(i) == <<run.turn, Batch[i]>>
InBatch(i) == Active("tools") /\ i \in DOMAIN Batch

Attempt(i, st, entry) ==
    tool' = [tool EXCEPT ![i].st = st, ![i].entry = entry]

(* An attempt returns the cached result of its key, or executes the tool:  *)
(* also when the cache holds a result and cannot be read.                  *)
ToolRun(i) ==
    /\ InBatch(i)
    /\ tool[i].st = "todo"
    /\ \/ /\ toolStep[<<run.turn, i>>] # None
          /\ Attempt(i, "done", toolStep[<<run.turn, i>>])
          /\ UNCHANGED <<executed, lost>>
       \/ /\ toolStep[<<run.turn, i>>] = None /\ Cached(Key(i))
          /\ Attempt(i, "cached", cache[Key(i)])
          /\ UNCHANGED <<executed, lost>>
       \/ /\ toolStep[<<run.turn, i>>] = None /\ ~Cached(Key(i))
          /\ \E e \in Entries : Attempt(i, "ran", e)
          /\ executed' = [executed EXCEPT ![Key(i)] = @ + 1]
          /\ UNCHANGED lost
       \/ /\ toolStep[<<run.turn, i>>] = None /\ cache[Key(i)] # None
          /\ \E e \in Entries : Attempt(i, "ran", e)
          /\ executed' = [executed EXCEPT ![Key(i)] = @ + 1]
          /\ lost' = [lost EXCEPT ![Key(i)] = @ + 1]
    /\ UNCHANGED <<status, durable, run, out, refused, rebased, stopped,
                   crashes>>

(* cacheStepResult: write once, and best effort.  Its get and its put are  *)
(* one step here: between them only a twin of the call, in the same batch, *)
(* could write the key.                                                    *)
ToolCache(i) ==
    /\ InBatch(i)
    /\ tool[i].st = "ran"
    /\ Attempt(i, "cached", tool[i].entry)
    /\ \/ cache[Key(i)] = None /\ cache' = [cache EXCEPT ![Key(i)] = tool[i].entry]
       \/ UNCHANGED cache
    /\ UNCHANGED <<status, llmStep, toolStep, recovery, finalize, cleaned,
                   snapshot, run, out, history, crashes>>

ToolRecord(i) ==
    /\ InBatch(i)
    /\ tool[i].st = "cached"
    /\ Attempt(i, "done", tool[i].entry)
    /\ toolStep' = [toolStep EXCEPT ![<<run.turn, i>>] = tool[i].entry]
    /\ UNCHANGED <<status, llmStep, recovery, finalize, cleaned, cache,
                   snapshot, run, out, history, crashes>>

(* The executions under way whose result only the worker's memory has.     *)
Unsaved(i) ==
    InBatch(i) /\ tool[i].st \in {"ran", "cached"} /\ cache[Key(i)] = None
Lose(S) ==
    lost' = [k \in Keys |-> lost[k] + Cardinality({i \in S : Unsaved(i) /\ Key(i) = k})]

(* An attempt throws or runs into the step's timeout: the engine retries.  *)
ToolRetry(i) ==
    /\ InBatch(i)
    /\ tool[i].st \in {"ran", "cached"}
    /\ tool[i].tries < ToolRetries
    /\ tool' = [tool EXCEPT ![i] = [st |-> "todo", entry |-> None,
                                    tries |-> @.tries + 1]]
    /\ Lose({i})
    /\ UNCHANGED <<status, durable, run, out, executed, refused, rebased,
                   stopped, crashes>>

(* An error that is not to be retried stops the loop with its message.     *)
TurnFails ==
    /\ Active("turn") \/ Active("tools")
    /\ run' = AfterLoop([run EXCEPT !.text = TRUE])
    /\ stopped' = TRUE
    /\ Lose(Slots)
    /\ UNCHANGED <<status, durable, tool, out, executed, refused, rebased,
                   crashes>>

-----------------------------------------------------------------------------
(* The last five tool results.  Three failures of the tool that failed     *)
(* last, or four failures of any tools, stop the loop.                     *)
Window(sigs) == SubSeq(sigs, Max({1, Len(sigs) - 4}), Len(sigs))
Failures(sigs) == Cardinality({i \in DOMAIN sigs : sigs[i].err})
Repeats(sigs) ==
    Cardinality({i \in DOMAIN sigs : sigs[i] = sigs[Len(sigs)]})
Stuck(sigs) ==
    \/ sigs[Len(sigs)].err /\ Repeats(sigs) >= 3
    \/ Failures(sigs) >= 4

(* All tools of the turn have a result: count them, perhaps back up the    *)
(* cost (nobody waits for the write), and go on unless the run is stuck or *)
(* its parent has asked it to shut down.                                   *)
EndTurn ==
    /\ Active("tools")
    /\ \A i \in DOMAIN Batch : tool[i].st = "done"
    /\ LET sig(i) == [tool |-> Batch[i][1], err |-> toolStep[<<run.turn, i>>].err]
           r == [run EXCEPT !.cost = @ + ToolCost(run.turn),
                            !.called = TRUE,
                            !.sigs = Window(@ \o [i \in DOMAIN Batch |-> sig(i)])]
       IN /\ \/ /\ run' = IF Stuck(r.sigs)
                           THEN AfterLoop([r EXCEPT !.text = TRUE])
                           ELSE Advance(r)
                /\ UNCHANGED stopped
             \/ /\ run' = AfterLoop([r EXCEPT !.text = TRUE])
                /\ stopped' = TRUE
          /\ \/ run.turn % BackupEvery = 0 /\ snapshot' = r.cost
             \/ UNCHANGED snapshot
    /\ tool' = NoAttempts
    /\ UNCHANGED <<status, llmStep, toolStep, recovery, finalize, cleaned,
                   cache, out, executed, lost, refused, rebased, crashes>>

(* Step recovery-llm: a last call without tools.                           *)
Recover ==
    /\ Active("recover")
    /\ \E r \in IF recovery # None THEN {recovery} ELSE LastReplies :
          /\ recovery' = r
          /\ run' = [run EXCEPT !.cost = @ + r.cost, !.text = r.text,
                                !.pc = "finalize"]
    /\ UNCHANGED <<status, llmStep, toolStep, finalize, cleaned, cache,
                   snapshot, tool, out, history, crashes>>

Result == [cost |-> run.cost, text |-> run.text, trace |-> crashes]

(* Step finalize: the done event, with the result.                         *)
Finalize ==
    /\ Active("finalize")
    /\ finalize' = IF finalize = None THEN Result ELSE finalize
    /\ run' = [run EXCEPT !.pc = "cleanup"]
    /\ UNCHANGED <<status, llmStep, toolStep, recovery, cleaned, cache,
                   snapshot, tool, out, history, crashes>>

(* Step session-cleanup: the final cost backup, then the step's record.    *)
Cleanup ==
    /\ Active("cleanup")
    /\ snapshot' = IF cleaned THEN snapshot ELSE run.cost
    /\ run' = [run EXCEPT !.pc = "record"]
    /\ UNCHANGED <<status, llmStep, toolStep, recovery, finalize, cleaned,
                   cache, tool, out, history, crashes>>

CleanupRecord ==
    /\ Active("record")
    /\ cleaned' = TRUE
    /\ run' = [run EXCEPT !.pc = "return"]
    /\ UNCHANGED <<status, llmStep, toolStep, recovery, finalize, cache,
                   snapshot, tool, out, history, crashes>>

Return ==
    /\ Active("return")
    /\ status' = "complete"
    /\ out' = Result
    /\ UNCHANGED <<durable, run, tool, history, crashes>>

(* The worker is evicted; the engine starts run() again.                   *)
Crash ==
    /\ status = "running"
    /\ crashes < MaxCrashes
    /\ crashes' = crashes + 1
    /\ run' = Fresh
    /\ tool' = NoAttempts
    /\ Lose(Slots)
    /\ UNCHANGED <<status, durable, out, executed, refused, rebased, stopped>>

ToolStep(i) == ToolRun(i) \/ ToolCache(i) \/ ToolRecord(i)
Progress ==
    \/ Start \/ BudgetStops \/ \E reply \in LLMResults : LLMTurn(reply)
    \/ \E i \in Slots : ToolStep(i)
    \/ EndTurn \/ Recover \/ Finalize \/ Cleanup \/ CleanupRecord \/ Return

Next ==
    \/ Progress
    \/ LimitReached \/ WallClockStops \/ TurnFails \/ RunThrows \/ Crash
    \/ \E i \in Slots : ToolRetry(i)

Spec == Init /\ [][Next]_vars

(* The engine keeps running an instance until it ends.                     *)
FairSpec == Spec /\ WF_vars(Progress)

-----------------------------------------------------------------------------
CostOf(step) == IF step = None THEN 0 ELSE step.cost
LoopCost ==
    MapThenSumSet(LAMBDA t : CostOf(llmStep[t]), Turns)
      + MapThenSumSet(LAMBDA p : CostOf(toolStep[p]), Turns \X Slots)
Recorded == LoopCost + CostOf(recovery)

(* What the two budget checks are worth, over all replays: the recorded    *)
(* steps of the loop exceed the budget by less than one LLM call, or by    *)
(* what the tools of one turn cost beyond their estimate.  (The last call, *)
(* without tools, comes on top: no check precedes it.)                     *)
BudgetRespected ==
    \/ LoopCost < Budget + Max(LLMCosts)
    \/ LoopCost <= Budget + MaxBatch * (Max(ToolCosts) - Estimate)

CallsOf(k) ==
    LET reply == llmStep[k[1]]
    IN IF reply = None THEN 0
       ELSE Cardinality({i \in DOMAIN reply.batch : reply.batch[i] = k[2]})

(* The idempotency cache: a call is executed once for each time the model  *)
(* made it in the turn, and once more for each execution whose result was  *)
(* lost before the cache had it, or could not be read there.               *)
ToolsRunOncePerCall ==
    \A k \in Keys : executed[k] <= CallsOf(k) + lost[k]

(* A run that was replayed, with no cost backup in between and no guard    *)
(* that depends on the moment, returns the output and the cost that the    *)
(* done event announced, and its cost is that of its recorded steps.  Its  *)
(* trace_id is the announced one only where run() was not started again:   *)
(* no step records it.  (For text without a skill activation tag.)         *)
Outcome(r) == [cost |-> r.cost, text |-> r.text]
ReplayFaithful ==
    status = "complete" /\ finalize # None /\ ~rebased /\ ~stopped /\ ~refused
      => /\ Outcome(out) = Outcome(finalize) /\ out.cost = Recorded
         /\ crashes = 0 => out = finalize

(* Every run ends, however often it is evicted.                            *)
RunEnds == <>(status # "running")
=============================================================================
