-------------------------- MODULE AgentRun_proofs --------------------------
(***************************************************************************)
(* Proofs about AgentRun for any limits, costs, tools and numbers of       *)
(* retries and evictions: types, executions of tools, the budget, and what *)
(* a replay returns.                                                       *)
(***************************************************************************)
EXTENDS AgentRun, FiniteSetFacts, SequenceTheorems

(* Tool call i of turn t is one that the recorded reply of the turn asks   *)
(* for.                                                                    *)
Has(t, i) == llmStep[t] # None /\ i \in DOMAIN llmStep[t].batch

(* Only such calls have a recorded step.                                   *)
StepsAsked == \A t \in Turns, i \in Slots : toolStep[<<t, i>>] # None => Has(t, i)

(* While the tools of a turn run, its reply is recorded and asks for them, *)
(* and an attempt that has a result is either recorded or not yet.         *)
HandInv ==
    run.pc = "tools" =>
        /\ llmStep[run.turn] # None
        /\ llmStep[run.turn].kind = "calls"
        /\ \A i \in DOMAIN Batch :
              /\ tool[i].st # "todo" => tool[i].entry \in Entries
              /\ tool[i].st = "done" => toolStep[<<run.turn, i>>] = tool[i].entry
              /\ tool[i].st \in {"ran", "cached"} => toolStep[<<run.turn, i>>] = None

IInv == TypeOK /\ StepsAsked /\ HandInv

-----------------------------------------------------------------------------
LEMMA Limits ==
    /\ MaxTurns \in Nat /\ MaxTurns >= 1 /\ MaxBatch \in Nat /\ MaxBatch >= 1
    /\ Budget \in Nat /\ Estimate \in Nat /\ ToolRetries \in Nat /\ MaxCrashes \in Nat
    /\ \A c \in LLMCosts : c \in Nat
    /\ \A c \in ToolCosts : c \in Nat
<1>1. \A c \in LLMCosts : c \in Nat
  BY RunAssumption
<1>2. \A c \in ToolCosts : c \in Nat
  BY RunAssumption
<1> QED
  BY <1>1, <1>2, RunAssumption

(* What the records hold.                                                  *)
LEMMA ReplyFacts ==
    ASSUME NEW r \in LLMResults
    PROVE  /\ r # None
           /\ r.kind \in Replies
           /\ r.cost \in LLMCosts /\ r.cost \in Nat
           /\ r.batch \in Seq(Calls)
           /\ Len(r.batch) \in 0..MaxBatch
           /\ DOMAIN r.batch = 1..Len(r.batch) /\ DOMAIN r.batch \subseteq Slots
           /\ r.kind = "calls" => Len(r.batch) >= 1
           /\ r.kind # "calls" => Len(r.batch) = 0
<1>1. CASE r \in [kind: {"text", "silent", "discover"}, batch: {<<>>}, cost: LLMCosts]
  <2>1. /\ r.kind \in {"text", "silent", "discover"} /\ r.batch = <<>>
        /\ r.cost \in LLMCosts
    BY <1>1
  <2>2. r # None
    <3>1. "kind" \in DOMAIN r /\ "kind" \notin DOMAIN None
      BY <1>1 DEF None
    <3> QED
      BY <3>1
  <2>3. <<>> \in Seq(Calls) /\ Len(<<>>) = 0 /\ DOMAIN <<>> = 1..0
    BY EmptySeq, LenProperties
  <2>4. Len(r.batch) = 0 /\ DOMAIN r.batch = 1..0 /\ r.batch \in Seq(Calls)
    BY <2>1, <2>3
  <2>5. r.cost \in Nat /\ 0 \in 0..MaxBatch
    BY <2>1, Limits
  <2>6. r.kind \in Replies /\ r.kind # "calls"
    BY <2>1 DEF Replies
  <2>7. DOMAIN r.batch \subseteq Slots
    BY <2>4
  <2> QED
    BY <2>1, <2>2, <2>4, <2>5, <2>6, <2>7
<1>2. CASE r \in [kind: {"calls"}, batch: Batches, cost: LLMCosts]
  <2>1. r.kind = "calls" /\ r.batch \in Batches /\ r.cost \in LLMCosts
    BY <1>2
  <2>2. r # None
    <3>1. "kind" \in DOMAIN r /\ "kind" \notin DOMAIN None
      BY <1>2 DEF None
    <3> QED
      BY <3>1
  <2>3. PICK n \in Slots : r.batch \in [1..n -> Calls]
    BY <2>1 DEF Batches
  <2>4. r.batch \in Seq(Calls)
    BY <2>3, SeqDef DEF Slots
  <2>5. Len(r.batch) = n /\ DOMAIN r.batch = 1..n
    BY <2>3, <2>4, LenProperties DEF Slots
  <2>6. n \in 0..MaxBatch /\ n >= 1 /\ 1..n \subseteq Slots /\ r.cost \in Nat
    BY <2>1, Limits DEF Slots
  <2> QED
    BY <2>1, <2>2, <2>4, <2>5, <2>6 DEF Replies
<1> QED
  BY <1>1, <1>2 DEF LLMResults

LEMMA EntryFacts ==
    ASSUME NEW e \in Entries
    PROVE  e # None /\ e.cost \in ToolCosts /\ e.cost \in Nat /\ e.err \in BOOLEAN
<1>1. "err" \in DOMAIN e /\ "err" \notin DOMAIN None
  BY DEF Entries, None
<1>2. e # None
  BY <1>1
<1> QED
  BY <1>2, Limits DEF Entries

(* The recorded reply of a turn.                                           *)
LEMMA RecordedReply ==
    ASSUME TypeOK, NEW t \in Turns, llmStep[t] # None
    PROVE  llmStep[t] \in LLMResults
  BY DEF TypeOK

(* The tools of a turn that runs them.                                     *)
LEMMA BatchFacts ==
    ASSUME IInv, run.pc = "tools"
    PROVE  /\ run.turn \in Turns
           /\ llmStep[run.turn] \in LLMResults
           /\ Batch \in Seq(Calls) /\ DOMAIN Batch = 1..Len(Batch)
           /\ DOMAIN Batch \subseteq Slots
           /\ \A i \in DOMAIN Batch : Key(i) \in Keys
<1>1. run.turn \in Turns /\ llmStep[run.turn] \in LLMResults
  BY DEF IInv, HandInv, TypeOK, Locals
<1>2. Batch \in Seq(Calls) /\ DOMAIN Batch = 1..Len(Batch) /\ DOMAIN Batch \subseteq Slots
  BY <1>1, ReplyFacts DEF Batch
<1>3. \A i \in DOMAIN Batch : Batch[i] \in Calls
  BY <1>2, ElementOfSeq
<1> QED
  BY <1>1, <1>2, <1>3 DEF Key, Keys

-----------------------------------------------------------------------------
(* Where the loop goes.                                                    *)
LEMMA AfterLoopFacts ==
    ASSUME NEW r \in Locals
    PROVE  /\ AfterLoop(r) \in Locals
           /\ AfterLoop(r).pc \in {"recover", "finalize"}
           /\ AfterLoop(r).cost = r.cost
  BY DEF AfterLoop, Locals

LEMMA AdvanceFacts ==
    ASSUME NEW r \in Locals
    PROVE  /\ Advance(r) \in Locals
           /\ Advance(r).cost = r.cost
           /\ \/ Advance(r).pc \in {"recover", "finalize"}
              \/ /\ Advance(r).pc = "turn" /\ Advance(r).turn = r.turn + 1
                 /\ r.turn < MaxTurns
<1>1. r.turn \in Nat /\ r.turn >= 1 /\ MaxTurns \in Nat
  BY RunAssumption DEF Locals, Turns
<1>2. CASE TurnLeft(r.turn)
  <2>1. r.turn + 1 \in Turns
    BY <1>1, <1>2 DEF TurnLeft, Turns
  <2>2. Advance(r) = [r EXCEPT !.turn = r.turn + 1, !.pc = "turn"]
    BY <1>2 DEF Advance, NextTurn
  <2>3. Advance(r) \in Locals /\ Advance(r).cost = r.cost
        /\ Advance(r).pc = "turn" /\ Advance(r).turn = r.turn + 1
    BY <2>1, <2>2 DEF Locals
  <2> QED
    BY <1>2, <2>3 DEF TurnLeft
<1>3. CASE ~TurnLeft(r.turn)
  BY <1>3, AfterLoopFacts DEF Advance
<1> QED
  BY <1>2, <1>3

LEMMA FreshFacts == Fresh \in Locals /\ NoAttempts \in [Slots -> Attempts]
<1>1. <<>> \in Seq([tool: Tools, err: BOOLEAN]) /\ 1 \in Turns
  BY EmptySeq, RunAssumption DEF Turns
<1>2. Fresh \in Locals
  BY <1>1 DEF Fresh, Locals
<1>3. NoAttempts \in [Slots -> Attempts]
  BY RunAssumption DEF NoAttempts, Attempts
<1> QED
  BY <1>2, <1>3

-----------------------------------------------------------------------------
LEMMA InitInv == Init => IInv
<1> SUFFICES ASSUME Init PROVE IInv
  OBVIOUS
<1>1. TypeOK
  <2>1. /\ run \in Locals /\ tool \in [Slots -> Attempts]
    BY FreshFacts DEF Init
  <2>2. /\ status \in {"running", "complete", "errored"}
        /\ llmStep \in [Turns -> {None} \cup LLMResults]
        /\ toolStep \in [Turns \X Slots -> {None} \cup Entries]
        /\ recovery \in {None} \cup LastReplies
        /\ finalize \in {None} \cup Results
        /\ cleaned \in BOOLEAN
        /\ cache \in [Keys -> {None} \cup Entries]
    BY DEF Init
  <2>3. /\ snapshot \in Nat /\ out \in {None} \cup Results
        /\ executed \in [Keys -> Nat] /\ lost \in [Keys -> Nat]
        /\ crashes \in 0..MaxCrashes
    BY Limits DEF Init
  <2>4. refused \in BOOLEAN /\ rebased \in BOOLEAN /\ stopped \in BOOLEAN
    BY DEF Init
  <2> QED
    BY <2>1, <2>2, <2>3, <2>4 DEF TypeOK
<1>2. run.pc # "tools"
  BY DEF Init, Fresh
<1>3. \A t \in Turns, i \in Slots : toolStep[<<t, i>>] = None
  BY DEF Init
<1> QED
  BY <1>1, <1>2, <1>3 DEF IInv, HandInv, StepsAsked

(* The local variables move on, away from the tools or to another step.    *)
LEMMA MoveKeeps ==
    ASSUME IInv, UNCHANGED <<llmStep, toolStep>>, TypeOK', run'.pc # "tools"
    PROVE  IInv'
  BY DEF IInv, HandInv, StepsAsked, Has

-----------------------------------------------------------------------------
(* The actions that change the local variables outside the tools.          *)
LEMMA StartKeeps ==
    ASSUME IInv, Start \/ LimitReached
    PROVE  IInv'
<1>1. CASE Start
  <2>1. run' \in Locals /\ run'.pc = "turn"
    BY <1>1 DEF Start, IInv, TypeOK, Locals
  <2>2. UNCHANGED <<status, llmStep, toolStep, recovery, finalize, cleaned, cache,
                    snapshot, tool, out, executed, lost, refused, stopped, crashes>>
    BY <1>1 DEF Start, durable
  <2>3. rebased' \in BOOLEAN
    BY <1>1 DEF Start
  <2>4. TypeOK'
    BY <2>1, <2>2, <2>3 DEF IInv, TypeOK
  <2> QED
    BY <2>1, <2>2, <2>4, MoveKeeps
<1>2. CASE LimitReached
  <2>1. UNCHANGED <<llmStep, toolStep, recovery, finalize, cleaned, cache,
                    snapshot, run, tool, executed, lost, rebased, stopped, crashes>>
    BY <1>2 DEF LimitReached, durable
  <2>2. status' = "complete" /\ out' \in Results /\ run.pc = "start"
    BY <1>2 DEF LimitReached, Active, Results, IInv, TypeOK
  <2>3. refused' \in BOOLEAN
    BY <1>2 DEF LimitReached
  <2>4. TypeOK'
    BY <2>1, <2>2, <2>3 DEF IInv, TypeOK
  <2> QED
    BY <2>1, <2>2, <2>4, MoveKeeps
<1> QED
  BY <1>1, <1>2

LEMMA StopKeeps ==
    ASSUME IInv, BudgetStops \/ WallClockStops
    PROVE  IInv'
<1>1. UNCHANGED <<status, llmStep, toolStep, recovery, finalize, cleaned, cache,
                  snapshot, tool, out, executed, lost, refused, rebased, crashes>>
  BY DEF BudgetStops, WallClockStops, durable, history
<1>2. run \in Locals /\ [run EXCEPT !.text = TRUE] \in Locals
  BY DEF IInv, TypeOK, Locals
<1>3. run' \in Locals /\ run'.pc \in {"recover", "finalize"}
  BY <1>2, AfterLoopFacts DEF BudgetStops, WallClockStops
<1>4. stopped' \in BOOLEAN
  BY DEF BudgetStops, WallClockStops, history, IInv, TypeOK
<1>5. TypeOK'
  BY <1>1, <1>3, <1>4 DEF IInv, TypeOK
<1> QED
  BY <1>1, <1>3, <1>5, MoveKeeps

(* What a turn's reply leads to.                                           *)
AfterReply(r0, reply) ==
    LET r == [r0 EXCEPT !.cost = @ + reply.cost]
        n == Len(reply.batch)
    IN CASE reply.kind = "text" -> AfterLoop([r EXCEPT !.text = TRUE])
         [] reply.kind = "silent" -> AfterLoop(r)
         [] reply.kind = "discover" -> Advance([r EXCEPT !.called = TRUE])
         [] reply.kind = "calls" /\ r.cost + n * Estimate > Budget ->
              AfterLoop([r EXCEPT !.text = TRUE])
         [] OTHER -> [r EXCEPT !.pc = "tools"]

LEMMA AfterReplyFacts ==
    ASSUME NEW s \in Locals, NEW reply \in LLMResults, NEW x, x = AfterReply(s, reply)
    PROVE  /\ x \in Locals
           /\ x.cost = s.cost + reply.cost
           /\ \/ x.pc \in {"recover", "finalize"}
              \/ /\ x.pc = "turn" /\ reply.kind = "discover"
                 /\ x.turn = s.turn + 1 /\ s.turn < MaxTurns
              \/ /\ x.pc = "tools" /\ reply.kind = "calls"
                 /\ x.turn = s.turn
                 /\ x.cost + Len(reply.batch) * Estimate <= Budget
<1> DEFINE r == [s EXCEPT !.cost = @ + reply.cost]
           rt == [r EXCEPT !.text = TRUE]
           rc == [r EXCEPT !.called = TRUE]
           rb == [r EXCEPT !.pc = "tools"]
<1>1. s \in Locals /\ reply.cost \in Nat /\ reply.kind \in Replies
      /\ Len(reply.batch) \in Nat
  BY ReplyFacts, Limits
<1>2. r \in Locals /\ r.cost = s.cost + reply.cost /\ r.turn = s.turn
  BY <1>1 DEF Locals
<1>3. /\ rt \in Locals /\ rt.cost = r.cost
      /\ rc \in Locals /\ rc.cost = r.cost /\ rc.turn = r.turn
      /\ rb \in Locals /\ rb.cost = r.cost /\ rb.turn = r.turn /\ rb.pc = "tools"
  BY <1>2 DEF Locals
<1>4. x = CASE reply.kind = "text" -> AfterLoop(rt)
               [] reply.kind = "silent" -> AfterLoop(r)
               [] reply.kind = "discover" -> Advance(rc)
               [] reply.kind = "calls" /\ r.cost + Len(reply.batch) * Estimate > Budget ->
                    AfterLoop(rt)
               [] OTHER -> rb
  BY DEF AfterReply
<1> HIDE DEF r, rt, rc, rb
<1>5. CASE reply.kind = "text"
  <2>1. x = AfterLoop(rt)
    BY <1>4, <1>5
  <2> QED
    BY <1>2, <1>3, <2>1, AfterLoopFacts
<1>6. CASE reply.kind = "silent"
  <2>1. x = AfterLoop(r)
    BY <1>4, <1>6
  <2> QED
    BY <1>2, <1>3, <2>1, AfterLoopFacts
<1>7. CASE reply.kind = "discover"
  <2>1. x = Advance(rc)
    BY <1>4, <1>7
  <2> QED
    BY <1>2, <1>3, <1>7, <2>1, AdvanceFacts
<1>8. CASE reply.kind = "calls"
  <2>1. CASE r.cost + Len(reply.batch) * Estimate > Budget
    <3>1. x = AfterLoop(rt)
      BY <1>4, <1>8, <2>1
    <3> QED
      BY <1>2, <1>3, <3>1, AfterLoopFacts
  <2>2. CASE ~(r.cost + Len(reply.batch) * Estimate > Budget)
    <3>1. x = rb
      BY <1>4, <1>8, <2>2
    <3>2. r.cost \in Nat /\ Budget \in Nat /\ Estimate \in Nat
      BY <1>2, Limits DEF Locals
    <3>3. r.cost + Len(reply.batch) * Estimate <= Budget
      BY <1>1, <2>2, <3>2
    <3> QED
      BY <1>2, <1>3, <1>8, <3>1, <3>3
  <2> QED
    BY <2>1, <2>2
<1> QED
  BY <1>1, <1>5, <1>6, <1>7, <1>8 DEF Replies

LEMMA ReplyMoves ==
    ASSUME IInv, NEW reply \in LLMResults, LLMTurn(reply)
    PROVE  /\ run' \in Locals
           /\ run'.cost = run.cost + reply.cost
           /\ \/ run'.pc \in {"recover", "finalize"}
              \/ /\ run'.pc = "turn" /\ reply.kind = "discover"
                 /\ run'.turn = run.turn + 1 /\ run.turn < MaxTurns
              \/ /\ run'.pc = "tools" /\ reply.kind = "calls"
                 /\ run'.turn = run.turn
                 /\ run'.cost + Len(reply.batch) * Estimate <= Budget
<1>1. run' = AfterReply(run, reply)
  BY DEF LLMTurn, AfterReply
<1>2. run \in Locals
  BY DEF IInv, TypeOK
<1> QED
  BY <1>1, <1>2, AfterReplyFacts

LEMMA LLMTurnKeeps ==
    ASSUME IInv, NEW reply \in LLMResults, LLMTurn(reply)
    PROVE  IInv'
<1>1. /\ UNCHANGED <<status, toolStep, recovery, finalize, cleaned, cache,
                     snapshot, out, executed, lost, refused, rebased, stopped, crashes>>
      /\ llmStep' = [llmStep EXCEPT ![run.turn] = reply]
      /\ tool' = NoAttempts /\ reply \in RepliesAt(run.turn) /\ run.pc = "turn"
  BY DEF LLMTurn, history, Active
<1>2. run.turn \in Turns /\ reply # None
  BY ReplyFacts DEF IInv, TypeOK, Locals
<1>3. llmStep'[run.turn] = reply /\ (llmStep[run.turn] # None => llmStep' = llmStep)
  BY <1>1, <1>2 DEF RepliesAt, IInv, TypeOK
<1>4. TypeOK'
  <2>1. run' \in Locals /\ tool' \in [Slots -> Attempts]
    BY <1>1, FreshFacts, ReplyMoves
  <2>2. llmStep' \in [Turns -> {None} \cup LLMResults]
    BY <1>1, <1>2 DEF IInv, TypeOK
  <2> QED
    BY <1>1, <2>1, <2>2 DEF IInv, TypeOK
<1>5. StepsAsked'
  BY <1>1, <1>2, <1>3 DEF IInv, TypeOK, StepsAsked, Has
<1>6. HandInv'
  <2>1. SUFFICES ASSUME run'.pc = "tools"
                 PROVE  /\ llmStep'[run'.turn] # None
                        /\ llmStep'[run'.turn].kind = "calls"
                        /\ \A i \in DOMAIN llmStep'[run'.turn].batch : tool'[i].st = "todo"
    BY DEF HandInv, Batch
  <2>2. run'.turn = run.turn /\ reply.kind = "calls"
    BY <2>1, ReplyMoves
  <2>3. \A i \in Slots : tool'[i].st = "todo"
    BY <1>1 DEF NoAttempts
  <2>4. DOMAIN reply.batch \subseteq Slots
    BY ReplyFacts
  <2> QED
    BY <1>2, <1>3, <2>2, <2>3, <2>4
<1> QED
  BY <1>4, <1>5, <1>6 DEF IInv

-----------------------------------------------------------------------------
(* The sums of the model, as Totals.                                       *)
CostSum(m, S) == MapThenSumSet(LAMBDA x : CostOf(m[x]), S)
CostsOf(m, S) == [x \in S |-> CostOf(m[x])]
IsCostSum(m, S, f) ==
    f = [T \in SUBSET S |->
           IF T = {} THEN 0 ELSE CostOf(m[First(T)]) + f[T \ {First(T)}]]

LEMMA CostSumIs ==
    ASSUME NEW m, NEW S, IsFiniteSet(S)
    PROVE  CostSum(m, S) = Total(CostsOf(m, S), S)
<1> DEFINE g == CostsOf(m, S)
           c == CHOOSE f : IsCostSum(m, S, f)
<1>1. ASSUME NEW f
      PROVE  IsSum(g, S, f) <=> IsCostSum(m, S, f)
  <2>1. \A T \in SUBSET S : T # {} => First(T) \in S
    BY FirstIn
  <2>2. \A T \in SUBSET S : T # {} => g[First(T)] = CostOf(m[First(T)])
    BY <2>1 DEF CostsOf
  <2> HIDE DEF g
  <2>3. [T \in SUBSET S |-> IF T = {} THEN 0 ELSE g[First(T)] + f[T \ {First(T)}]]
         = [T \in SUBSET S |->
              IF T = {} THEN 0 ELSE CostOf(m[First(T)]) + f[T \ {First(T)}]]
    BY <2>2
  <2> QED
    BY <2>3 DEF IsSum, IsCostSum
<1>2. IsSum(g, S, SumOf(g, S))
  BY SumExists
<1>3. IsSum(g, S, c)
  BY <1>1, <1>2
<1>4. c[S] = SumOf(g, S)[S]
  <2> HIDE DEF g, c
  <2>1. PICK f : f = c
    OBVIOUS
  <2>2. PICK h : h = SumOf(g, S)
    OBVIOUS
  <2>3. IsSum(g, S, f) /\ IsSum(g, S, h) /\ S \in SUBSET S
    BY <1>2, <1>3, <2>1, <2>2
  <2>4. \A U \in SUBSET S : f[U] = h[U]
    BY <2>3, SumUnique
  <2> QED
    BY <2>1, <2>2, <2>4
<1>5. CostSum(m, S) = c[S]
  BY DEF CostSum, MapThenSumSet, MapThenFoldSet, IsCostSum, First
<1> QED
  BY <1>4, <1>5, TotalIs

RowSum(m, t, S) == MapThenSumSet(LAMBDA i : m[<<t, i>>].cost, S)
RowOf(m, t, S) == [i \in S |-> m[<<t, i>>].cost]
IsRowSum(m, t, S, f) ==
    f = [T \in SUBSET S |->
           IF T = {} THEN 0 ELSE m[<<t, First(T)>>].cost + f[T \ {First(T)}]]

LEMMA RowSumIs ==
    ASSUME NEW m, NEW t, NEW S, IsFiniteSet(S)
    PROVE  RowSum(m, t, S) = Total(RowOf(m, t, S), S)
<1> DEFINE g == RowOf(m, t, S)
           c == CHOOSE f : IsRowSum(m, t, S, f)
<1>1. ASSUME NEW f
      PROVE  IsSum(g, S, f) <=> IsRowSum(m, t, S, f)
  <2>1. \A T \in SUBSET S : T # {} => First(T) \in S
    BY FirstIn
  <2>2. \A T \in SUBSET S : T # {} => g[First(T)] = m[<<t, First(T)>>].cost
    BY <2>1 DEF RowOf
  <2> HIDE DEF g
  <2>3. [T \in SUBSET S |-> IF T = {} THEN 0 ELSE g[First(T)] + f[T \ {First(T)}]]
         = [T \in SUBSET S |->
              IF T = {} THEN 0 ELSE m[<<t, First(T)>>].cost + f[T \ {First(T)}]]
    BY <2>2
  <2> QED
    BY <2>3 DEF IsSum, IsRowSum
<1>2. IsSum(g, S, SumOf(g, S))
  BY SumExists
<1>3. IsSum(g, S, c)
  BY <1>1, <1>2
<1>4. c[S] = SumOf(g, S)[S]
  <2> HIDE DEF g, c
  <2>1. PICK f : f = c
    OBVIOUS
  <2>2. PICK h : h = SumOf(g, S)
    OBVIOUS
  <2>3. IsSum(g, S, f) /\ IsSum(g, S, h) /\ S \in SUBSET S
    BY <1>2, <1>3, <2>1, <2>2
  <2>4. \A U \in SUBSET S : f[U] = h[U]
    BY <2>3, SumUnique
  <2> QED
    BY <2>1, <2>2, <2>4
<1>5. RowSum(m, t, S) = c[S]
  BY DEF RowSum, MapThenSumSet, MapThenFoldSet, IsRowSum, First
<1> QED
  BY <1>4, <1>5, TotalIs

LEMMA ToolCostIs ==
    ASSUME NEW t, IsFiniteSet(DOMAIN llmStep[t].batch)
    PROVE  ToolCost(t) = Total(RowOf(toolStep, t, DOMAIN llmStep[t].batch),
                               DOMAIN llmStep[t].batch)
<1>1. ToolCost(t) = RowSum(toolStep, t, DOMAIN llmStep[t].batch)
  BY DEF ToolCost, RowSum, MapThenSumSet, MapThenFoldSet
<1> QED
  BY <1>1, RowSumIs

LEMMA FiniteRanges ==
    IsFiniteSet(Turns) /\ IsFiniteSet(Slots) /\ IsFiniteSet(Turns \X Slots)
<1>1. IsFiniteSet(Turns)
  BY FS_Interval, Limits DEF Turns
<1>2. IsFiniteSet(Slots)
  BY FS_Interval, Limits DEF Slots
<1> QED
  BY <1>1, <1>2, FS_Product

LEMMA LoopCostIs ==
    /\ LoopCost = Total(CostsOf(llmStep, Turns), Turns)
                    + Total(CostsOf(toolStep, Turns \X Slots), Turns \X Slots)
    /\ LoopCost' = Total(CostsOf(llmStep', Turns), Turns)
                     + Total(CostsOf(toolStep', Turns \X Slots), Turns \X Slots)
<1>1. IsFiniteSet(Turns) /\ IsFiniteSet(Turns \X Slots)
  BY FiniteRanges
<1>2. /\ LoopCost = CostSum(llmStep, Turns) + CostSum(toolStep, Turns \X Slots)
      /\ LoopCost' = CostSum(llmStep', Turns) + CostSum(toolStep', Turns \X Slots)
  BY DEF LoopCost, CostSum, MapThenSumSet, MapThenFoldSet
<1> QED
  BY <1>1, <1>2, CostSumIs

-----------------------------------------------------------------------------
(* The attempts at a tool step.                                            *)
AttemptMade(i, st, entry) == [tool[i] EXCEPT !.st = st, !.entry = entry]

LEMMA AttemptFacts ==
    ASSUME IInv, NEW i \in Slots, NEW st \in {"ran", "cached", "done"},
           NEW e \in {None} \cup Entries, Attempt(i, st, e)
    PROVE  /\ tool' \in [Slots -> Attempts]
           /\ tool'[i].st = st /\ tool'[i].entry = e
           /\ \A j \in Slots : j # i => tool'[j] = tool[j]
<1>1. AttemptMade(i, st, e) \in Attempts /\ AttemptMade(i, st, e).st = st
      /\ AttemptMade(i, st, e).entry = e
  BY DEF AttemptMade, Attempts, IInv, TypeOK
<1>2. tool' = [tool EXCEPT ![i] = AttemptMade(i, st, e)]
  BY DEF Attempt, AttemptMade, IInv, TypeOK
<1> QED
  BY <1>1, <1>2 DEF IInv, TypeOK

LEMMA AttemptKeeps ==
    ASSUME IInv, TypeOK', NEW i, InBatch(i), NEW st \in {"ran", "cached", "done"},
           NEW e \in Entries, Attempt(i, st, e), UNCHANGED <<run, llmStep>>,
           \A p \in Turns \X Slots : p # <<run.turn, i>> => toolStep'[p] = toolStep[p],
           IF st = "done" THEN toolStep'[<<run.turn, i>>] = e
           ELSE toolStep'[<<run.turn, i>>] = None
    PROVE  IInv'
<1>1. run.pc = "tools" /\ i \in DOMAIN Batch
  BY DEF InBatch, Active
<1>2. i \in Slots /\ run.turn \in Turns /\ llmStep[run.turn] \in LLMResults
      /\ DOMAIN Batch \subseteq Slots
  BY <1>1, BatchFacts
<1>3. /\ tool'[i].st = st /\ tool'[i].entry = e
      /\ \A j \in Slots : j # i => tool'[j] = tool[j]
  BY <1>2, AttemptFacts
<1>4. StepsAsked'
  <2>1. Has(run.turn, i)
    BY <1>1, <1>2, ReplyFacts DEF Has, Batch
  <2> SUFFICES ASSUME NEW t \in Turns, NEW j \in Slots, toolStep'[<<t, j>>] # None
               PROVE  Has(t, j)'
    BY DEF StepsAsked
  <2>2. CASE <<t, j>> = <<run.turn, i>>
    BY <2>1, <2>2 DEF Has
  <2>3. CASE <<t, j>> # <<run.turn, i>>
    <3>1. toolStep[<<t, j>>] # None
      BY <2>3
    <3> QED
      BY <3>1 DEF IInv, StepsAsked, Has
  <2> QED
    BY <2>2, <2>3
<1>5. HandInv'
  <2>1. Batch' = Batch
    BY DEF Batch
  <2>2. ASSUME NEW j \in DOMAIN Batch
        PROVE  /\ tool'[j].st # "todo" => tool'[j].entry \in Entries
               /\ tool'[j].st = "done" => toolStep'[<<run.turn, j>>] = tool'[j].entry
               /\ tool'[j].st \in {"ran", "cached"} => toolStep'[<<run.turn, j>>] = None
    <3>1. CASE j = i
      BY <1>3, <3>1
    <3>2. CASE j # i
      <4>1. j \in Slots /\ <<run.turn, j>> \in Turns \X Slots
            /\ <<run.turn, j>> # <<run.turn, i>>
        BY <1>2, <3>2
      <4>2. toolStep'[<<run.turn, j>>] = toolStep[<<run.turn, j>>] /\ tool'[j] = tool[j]
        BY <1>3, <3>2, <4>1
      <4> QED
        BY <1>1, <4>2 DEF IInv, HandInv
    <3> QED
      BY <3>1, <3>2
  <2> QED
    BY <1>1, <2>1, <2>2 DEF IInv, HandInv
<1> QED
  BY <1>4, <1>5 DEF IInv

(* What an attempt finds or makes.                                         *)
LEMMA ToolRunFacts ==
    ASSUME IInv, NEW i, ToolRun(i)
    PROVE  /\ InBatch(i) /\ i \in Slots /\ tool[i].st = "todo"
           /\ run.turn \in Turns /\ Key(i) \in Keys
           /\ UNCHANGED <<status, llmStep, toolStep, recovery, finalize, cleaned, cache,
                          snapshot, run, out, refused, rebased, stopped, crashes>>
           /\ \E e \in Entries :
                \/ /\ toolStep[<<run.turn, i>>] = e /\ Attempt(i, "done", e)
                   /\ UNCHANGED <<executed, lost>>
                \/ /\ toolStep[<<run.turn, i>>] = None /\ cache[Key(i)] = e
                   /\ Attempt(i, "cached", e)
                   /\ UNCHANGED <<executed, lost>>
                \/ /\ toolStep[<<run.turn, i>>] = None
                   /\ Attempt(i, "ran", e)
                   /\ executed' = [executed EXCEPT ![Key(i)] = @ + 1]
                   /\ \/ cache[Key(i)] = None /\ UNCHANGED lost
                      \/ /\ cache[Key(i)] # None
                         /\ lost' = [lost EXCEPT ![Key(i)] = @ + 1]
<1>1. InBatch(i) /\ run.pc = "tools" /\ i \in DOMAIN Batch /\ tool[i].st = "todo"
  BY DEF ToolRun, InBatch, Active
<1>2. i \in Slots /\ run.turn \in Turns /\ Key(i) \in Keys
      /\ <<run.turn, i>> \in Turns \X Slots
  BY <1>1, BatchFacts
<1>3. /\ toolStep[<<run.turn, i>>] \in {None} \cup Entries
      /\ cache[Key(i)] \in {None} \cup Entries
  BY <1>2 DEF IInv, TypeOK
<1>4. UNCHANGED <<status, llmStep, toolStep, recovery, finalize, cleaned, cache,
                  snapshot, run, out, refused, rebased, stopped, crashes>>
  BY DEF ToolRun, durable
<1>5. \/ /\ toolStep[<<run.turn, i>>] # None
         /\ Attempt(i, "done", toolStep[<<run.turn, i>>])
         /\ UNCHANGED <<executed, lost>>
      \/ /\ toolStep[<<run.turn, i>>] = None /\ cache[Key(i)] # None
         /\ Attempt(i, "cached", cache[Key(i)])
         /\ UNCHANGED <<executed, lost>>
      \/ /\ toolStep[<<run.turn, i>>] = None /\ cache[Key(i)] = None
         /\ \E e \in Entries : Attempt(i, "ran", e)
         /\ executed' = [executed EXCEPT ![Key(i)] = @ + 1]
         /\ UNCHANGED lost
      \/ /\ toolStep[<<run.turn, i>>] = None /\ cache[Key(i)] # None
         /\ \E e \in Entries : Attempt(i, "ran", e)
         /\ executed' = [executed EXCEPT ![Key(i)] = @ + 1]
         /\ lost' = [lost EXCEPT ![Key(i)] = @ + 1]
  BY DEF ToolRun, Cached
<1>6. \E e \in Entries :
         \/ /\ toolStep[<<run.turn, i>>] = e /\ Attempt(i, "done", e)
            /\ UNCHANGED <<executed, lost>>
         \/ /\ toolStep[<<run.turn, i>>] = None /\ cache[Key(i)] = e
            /\ Attempt(i, "cached", e)
            /\ UNCHANGED <<executed, lost>>
         \/ /\ toolStep[<<run.turn, i>>] = None
            /\ Attempt(i, "ran", e)
            /\ executed' = [executed EXCEPT ![Key(i)] = @ + 1]
            /\ \/ cache[Key(i)] = None /\ UNCHANGED lost
               \/ /\ cache[Key(i)] # None
                  /\ lost' = [lost EXCEPT ![Key(i)] = @ + 1]
  BY <1>3, <1>5
<1> QED
  BY <1>1, <1>2, <1>4, <1>6

LEMMA ToolRunKeeps ==
    ASSUME IInv, NEW i, ToolRun(i)
    PROVE  IInv'
<1>1. /\ InBatch(i) /\ i \in Slots /\ Key(i) \in Keys
      /\ UNCHANGED <<status, llmStep, toolStep, recovery, finalize, cleaned, cache,
                     snapshot, run, out, refused, rebased, stopped, crashes>>
  BY ToolRunFacts
<1>2. executed' \in [Keys -> Nat] /\ lost' \in [Keys -> Nat]
  <2>1. executed' = executed \/ executed' = [executed EXCEPT ![Key(i)] = @ + 1]
    BY ToolRunFacts
  <2>2. lost' = lost \/ lost' = [lost EXCEPT ![Key(i)] = @ + 1]
    BY ToolRunFacts
  <2> QED
    BY <2>1, <2>2 DEF IInv, TypeOK
<1>3. PICK e \in Entries, st \in {"ran", "cached", "done"} :
         /\ Attempt(i, st, e)
         /\ IF st = "done" THEN toolStep[<<run.turn, i>>] = e
            ELSE toolStep[<<run.turn, i>>] = None
  BY ToolRunFacts
<1>4. TypeOK'
  <2>1. tool' \in [Slots -> Attempts]
    BY <1>1, <1>3, AttemptFacts
  <2> QED
    BY <1>1, <1>2, <2>1 DEF IInv, TypeOK
<1> QED
  BY <1>1, <1>3, <1>4, AttemptKeeps

LEMMA ToolCacheKeeps ==
    ASSUME IInv, NEW i, ToolCache(i)
    PROVE  IInv'
<1>1. /\ InBatch(i) /\ run.pc = "tools" /\ i \in DOMAIN Batch /\ tool[i].st = "ran"
      /\ Attempt(i, "cached", tool[i].entry)
      /\ UNCHANGED <<status, llmStep, toolStep, recovery, finalize, cleaned,
                     snapshot, run, out, executed, lost, refused, rebased, stopped,
                     crashes>>
  BY DEF ToolCache, InBatch, Active, history
<1>2. i \in Slots /\ Key(i) \in Keys
  BY <1>1, BatchFacts
<1>3. tool[i].entry \in Entries /\ toolStep[<<run.turn, i>>] = None
  BY <1>1 DEF IInv, HandInv
<1>4. cache' \in [Keys -> {None} \cup Entries]
  <2>1. cache' = cache \/ cache' = [cache EXCEPT ![Key(i)] = tool[i].entry]
    BY DEF ToolCache
  <2> QED
    BY <1>2, <1>3, <2>1 DEF IInv, TypeOK
<1>5. TypeOK'
  <2>1. tool' \in [Slots -> Attempts]
    BY <1>1, <1>2, <1>3, AttemptFacts
  <2> QED
    BY <1>1, <1>4, <2>1 DEF IInv, TypeOK
<1> QED
  BY <1>1, <1>3, <1>5, AttemptKeeps

LEMMA ToolRecordKeeps ==
    ASSUME IInv, NEW i, ToolRecord(i)
    PROVE  IInv'
<1>1. /\ InBatch(i) /\ run.pc = "tools" /\ i \in DOMAIN Batch /\ tool[i].st = "cached"
      /\ Attempt(i, "done", tool[i].entry)
      /\ toolStep' = [toolStep EXCEPT ![<<run.turn, i>>] = tool[i].entry]
      /\ UNCHANGED <<status, llmStep, recovery, finalize, cleaned, cache,
                     snapshot, run, out, executed, lost, refused, rebased, stopped,
                     crashes>>
  BY DEF ToolRecord, InBatch, Active, history
<1>2. i \in Slots /\ <<run.turn, i>> \in Turns \X Slots
  BY <1>1, BatchFacts
<1>3. tool[i].entry \in Entries
  BY <1>1 DEF IInv, HandInv
<1>4. /\ toolStep' \in [Turns \X Slots -> {None} \cup Entries]
      /\ toolStep'[<<run.turn, i>>] = tool[i].entry
      /\ \A p \in Turns \X Slots : p # <<run.turn, i>> => toolStep'[p] = toolStep[p]
  BY <1>1, <1>2, <1>3 DEF IInv, TypeOK
<1>5. TypeOK'
  <2>1. tool' \in [Slots -> Attempts]
    BY <1>1, <1>2, <1>3, AttemptFacts
  <2> QED
    BY <1>1, <1>4, <2>1 DEF IInv, TypeOK
<1> QED
  BY <1>1, <1>3, <1>4, <1>5, AttemptKeeps

-----------------------------------------------------------------------------
(* Executions whose result is lost.                                        *)
LEMMA LoseType ==
    ASSUME IInv, NEW S \in SUBSET Slots, Lose(S)
    PROVE  lost' \in [Keys -> Nat]
<1>1. ASSUME NEW k \in Keys
      PROVE  lost[k] + Cardinality({i \in S : Unsaved(i) /\ Key(i) = k}) \in Nat
  <2>1. IsFiniteSet({i \in S : Unsaved(i) /\ Key(i) = k})
    BY FiniteRanges, FS_Subset
  <2>2. Cardinality({i \in S : Unsaved(i) /\ Key(i) = k}) \in Nat
    BY <2>1, FS_CardinalityType
  <2>3. lost[k] \in Nat
    BY DEF IInv, TypeOK
  <2> QED
    BY <2>2, <2>3
<1> QED
  BY <1>1 DEF Lose

LEMMA ToolRetryKeeps ==
    ASSUME IInv, NEW i \in Slots, ToolRetry(i)
    PROVE  IInv'
<1> DEFINE a == [st |-> "todo", entry |-> None, tries |-> tool[i].tries + 1]
<1>1. /\ run.pc = "tools" /\ tool' = [tool EXCEPT ![i] = a]
      /\ tool[i].tries < ToolRetries
      /\ UNCHANGED <<status, llmStep, toolStep, recovery, finalize, cleaned, cache,
                     snapshot, run, out, executed, refused, rebased, stopped, crashes>>
  BY DEF ToolRetry, InBatch, Active, durable
<1>2. tool[i].tries \in 0..ToolRetries
  BY DEF IInv, TypeOK, Attempts
<1>3. a \in Attempts /\ a.st = "todo"
  BY <1>1, <1>2, Limits DEF Attempts
<1>4. lost' \in [Keys -> Nat]
  BY LoseType DEF ToolRetry
<1> HIDE DEF a
<1>5. TypeOK'
  BY <1>1, <1>3, <1>4 DEF IInv, TypeOK
<1>6. \A j \in Slots : tool'[j] = IF j = i THEN a ELSE tool[j]
  BY <1>1 DEF IInv, TypeOK
<1>7. HandInv'
  <2>1. Batch' = Batch /\ DOMAIN Batch \subseteq Slots
    BY <1>1, BatchFacts DEF Batch
  <2> QED
    BY <1>1, <1>3, <1>6, <2>1 DEF IInv, HandInv
<1>8. StepsAsked'
  BY <1>1 DEF IInv, StepsAsked, Has
<1> QED
  BY <1>5, <1>7, <1>8 DEF IInv

LEMMA TurnFailsKeeps ==
    ASSUME IInv, TurnFails
    PROVE  IInv'
<1>1. UNCHANGED <<status, llmStep, toolStep, recovery, finalize, cleaned, cache,
                  snapshot, tool, out, executed, refused, rebased, crashes>>
  BY DEF TurnFails, durable
<1>2. [run EXCEPT !.text = TRUE] \in Locals
  BY DEF IInv, TypeOK, Locals
<1>3. run' \in Locals /\ run'.pc \in {"recover", "finalize"}
  BY <1>2, AfterLoopFacts DEF TurnFails
<1>4. stopped' \in BOOLEAN
  BY DEF TurnFails
<1>5. lost' \in [Keys -> Nat]
  BY LoseType DEF TurnFails
<1>6. TypeOK'
  BY <1>1, <1>3, <1>4, <1>5 DEF IInv, TypeOK
<1> QED
  BY <1>1, <1>3, <1>6, MoveKeeps

LEMMA CrashKeeps ==
    ASSUME IInv, Crash
    PROVE  IInv'
<1>1. /\ UNCHANGED <<status, llmStep, toolStep, recovery, finalize, cleaned, cache,
                     snapshot, out, executed, refused, rebased, stopped>>
      /\ run' = Fresh /\ tool' = NoAttempts
  BY DEF Crash, durable
<1>2. crashes' \in 0..MaxCrashes
  BY Limits DEF Crash, IInv, TypeOK
<1>3. lost' \in [Keys -> Nat]
  BY LoseType DEF Crash
<1>4. TypeOK'
  BY <1>1, <1>2, <1>3, FreshFacts DEF IInv, TypeOK
<1>5. run'.pc # "tools"
  BY <1>1 DEF Fresh
<1> QED
  BY <1>1, <1>4, <1>5, MoveKeeps

LEMMA ThrowKeeps ==
    ASSUME IInv, RunThrows
    PROVE  IInv'
<1>1. /\ UNCHANGED <<llmStep, toolStep, recovery, finalize, cleaned, cache,
                     snapshot, run, tool, out, executed, lost, refused, rebased,
                     stopped, crashes>>
      /\ status' = "errored"
  BY DEF RunThrows, durable, history
<1>2. TypeOK'
  BY <1>1 DEF IInv, TypeOK
<1>3. Batch' = Batch
  BY <1>1 DEF Batch
<1> QED
  BY <1>1, <1>2, <1>3 DEF IInv, HandInv, StepsAsked, Has

-----------------------------------------------------------------------------
(* The end of a turn.                                                      *)
LEMMA WindowType ==
    ASSUME NEW S, NEW s \in Seq(S)
    PROVE  Window(s) \in Seq(S)
<1>1. Len(s) \in Nat
  BY LenProperties
<1> DEFINE b == {1, Len(s) - 4}
<1>2. Max(b) \in b /\ \A x \in b : x <= Max(b)
  <2>1. b \subseteq Int /\ b # {}
    BY <1>1
  <2>2. IsFiniteSet(b)
    <3>1. IsFiniteSet({1}) /\ b = {1} \cup {Len(s) - 4}
      BY FS_Singleton
    <3> HIDE DEF b
    <3> QED
      BY <3>1, FS_AddElement
  <2> HIDE DEF b
  <2> QED
    BY <2>1, <2>2, MaxOfFinite
<1>3. Max(b) \in 1..(Len(s) + 1)
  <2> DEFINE m == Max(b)
  <2>1. m = 1 \/ m = Len(s) - 4
    BY <1>2
  <2>2. 1 <= m
    BY <1>2
  <2> HIDE DEF m
  <2>3. m \in 1..(Len(s) + 1)
    BY <1>1, <2>1, <2>2
  <2> QED
    BY <2>3 DEF m
<1> HIDE DEF b
<1>4. SubSeq(s, Max(b), Len(s)) \in Seq(S)
  BY <1>1, <1>3, SubSeqProperties
<1> QED
  BY <1>4 DEF Window, b

(* The tool results of a turn, as the window keeps them.                   *)
Signature == [tool: Tools, err: BOOLEAN]
Signatures(l, s, t) ==
    [i \in DOMAIN l[t].batch |->
        [tool |-> l[t].batch[i][1], err |-> s[<<t, i>>].err]]

LEMMA SignaturesType ==
    ASSUME NEW l, NEW s, NEW t, l[t] \in LLMResults,
           \A i \in DOMAIN l[t].batch : s[<<t, i>>] \in Entries,
           NEW old \in Seq(Signature)
    PROVE  Window(old \o Signatures(l, s, t)) \in Seq(Signature)
<1> DEFINE b == l[t].batch
           new == Signatures(l, s, t)
<1>1. b \in Seq(Calls) /\ DOMAIN b = 1..Len(b) /\ Len(b) \in Nat
  BY ReplyFacts, LenProperties
<1>2. ASSUME NEW i \in DOMAIN b
      PROVE  [tool |-> b[i][1], err |-> s[<<t, i>>].err] \in Signature
  <2>1. b[i] \in Calls
    BY <1>1, <1>2, ElementOfSeq
  <2>2. b[i][1] \in Tools /\ s[<<t, i>>].err \in BOOLEAN
    BY <1>2, <2>1, EntryFacts DEF Calls
  <2> QED
    BY <2>2 DEF Signature
<1>3. new \in [1..Len(b) -> Signature]
  BY <1>1, <1>2 DEF Signatures
<1>4. new \in Seq(Signature)
  BY <1>1, <1>3, SeqDef
<1> HIDE DEF new
<1>5. old \o new \in Seq(Signature)
  BY <1>4, ConcatProperties
<1> QED
  BY <1>5, WindowType DEF new

(* All steps of the turn are recorded, and its cost is added.              *)
LEMMA EndTurnFacts ==
    ASSUME IInv, EndTurn
    PROVE  /\ run.pc = "tools"
           /\ \A i \in DOMAIN Batch : toolStep[<<run.turn, i>>] \in Entries
           /\ ToolCost(run.turn) \in Nat
           /\ run' \in Locals /\ run'.cost = run.cost + ToolCost(run.turn)
           /\ \/ run'.pc \in {"recover", "finalize"}
              \/ /\ run'.pc = "turn" /\ run'.turn = run.turn + 1
                 /\ run.turn < MaxTurns
<1>1. run.pc = "tools" /\ \A i \in DOMAIN Batch : tool[i].st = "done"
  BY DEF EndTurn, Active
<1>2. \A i \in DOMAIN Batch : toolStep[<<run.turn, i>>] \in Entries
  BY <1>1 DEF IInv, HandInv
<1>3. ToolCost(run.turn) \in Nat
  <2> DEFINE D == DOMAIN Batch
             g == RowOf(toolStep, run.turn, D)
  <2>1. IsFiniteSet(D)
    BY <1>1, BatchFacts, FiniteRanges, FS_Subset
  <2>2. \A i \in D : g[i] \in Nat
    BY <1>2, EntryFacts DEF RowOf
  <2>3. Total(g, D) \in Nat
    <3> HIDE DEF g, D
    <3> QED
      BY <2>1, <2>2, TotalNat
  <2>4. ToolCost(run.turn) = Total(g, D)
    BY <2>1, ToolCostIs DEF Batch
  <2> QED
    BY <2>3, <2>4
<1> DEFINE sigs == Window(run.sigs \o Signatures(llmStep, toolStep, run.turn))
           r == [run EXCEPT !.cost = @ + ToolCost(run.turn), !.called = TRUE,
                            !.sigs = sigs]
           rt == [r EXCEPT !.text = TRUE]
<1>4. sigs \in Seq([tool: Tools, err: BOOLEAN])
  <2>1. llmStep[run.turn] \in LLMResults
    BY <1>1, BatchFacts
  <2>2. \A i \in DOMAIN llmStep[run.turn].batch : toolStep[<<run.turn, i>>] \in Entries
    BY <1>2 DEF Batch
  <2>3. run.sigs \in Seq(Signature)
    BY DEF IInv, TypeOK, Locals, Signature
  <2> QED
    BY <2>1, <2>2, <2>3, SignaturesType DEF Signature
<1> HIDE DEF sigs
<1>5. /\ r \in Locals /\ r.cost = run.cost + ToolCost(run.turn) /\ r.turn = run.turn
      /\ rt \in Locals /\ rt.cost = r.cost
  <2>1. run \in Locals /\ run.cost + ToolCost(run.turn) \in Nat
    BY <1>3 DEF IInv, TypeOK, Locals
  <2> QED
    BY <1>4, <2>1 DEF Locals
<1>6. run' = AfterLoop(rt) \/ run' = Advance(r)
  BY DEF EndTurn, sigs, Signatures, Batch
<1> HIDE DEF r, rt
<1>7. CASE run' = AfterLoop(rt)
  BY <1>1, <1>2, <1>3, <1>5, <1>7, AfterLoopFacts
<1>8. CASE run' = Advance(r)
  BY <1>1, <1>2, <1>3, <1>5, <1>8, AdvanceFacts
<1> QED
  BY <1>6, <1>7, <1>8

LEMMA EndTurnKeeps ==
    ASSUME IInv, EndTurn
    PROVE  IInv'
<1>1. /\ UNCHANGED <<status, llmStep, toolStep, recovery, finalize, cleaned,
                     cache, out, executed, lost, refused, rebased, crashes>>
      /\ tool' = NoAttempts
  BY DEF EndTurn
<1>2. run' \in Locals /\ run'.pc # "tools"
  BY EndTurnFacts
<1>3. stopped' \in BOOLEAN
  <2>1. stopped' = stopped \/ stopped' = TRUE
    BY DEF EndTurn
  <2> QED
    BY <2>1 DEF IInv, TypeOK
<1>4. snapshot' \in Nat
  <2>1. snapshot' = snapshot \/ snapshot' = run.cost + ToolCost(run.turn)
    <3>1. run \in Locals
      BY DEF IInv, TypeOK
    <3> QED
      BY <3>1 DEF EndTurn, Locals
  <2>2. run.cost \in Nat /\ snapshot \in Nat
    BY DEF IInv, TypeOK, Locals
  <2> QED
    BY <2>1, <2>2, EndTurnFacts
<1>5. TypeOK'
  BY <1>1, <1>2, <1>3, <1>4, FreshFacts DEF IInv, TypeOK
<1> QED
  BY <1>1, <1>2, <1>5, MoveKeeps

-----------------------------------------------------------------------------
(* The end of the run.                                                     *)
LEMMA RecoverFacts ==
    ASSUME IInv, Recover
    PROVE  /\ UNCHANGED <<status, llmStep, toolStep, finalize, cleaned, cache,
                          snapshot, tool, out, executed, lost, refused, rebased,
                          stopped, crashes>>
           /\ run.pc = "recover" /\ status = "running"
           /\ \E r \in LastReplies :
                /\ recovery # None => r = recovery
                /\ recovery' = r
                /\ run' = [run EXCEPT !.cost = @ + r.cost, !.text = r.text,
                                      !.pc = "finalize"]
                /\ run' \in Locals /\ run'.pc = "finalize"
                /\ run'.cost = run.cost + r.cost /\ run'.text = r.text
<1>1. /\ UNCHANGED <<status, llmStep, toolStep, finalize, cleaned, cache,
                     snapshot, tool, out, executed, lost, refused, rebased,
                     stopped, crashes>>
      /\ run.pc = "recover" /\ status = "running"
  BY DEF Recover, Active, history
<1>2. PICK r \in IF recovery # None THEN {recovery} ELSE LastReplies :
         /\ recovery' = r
         /\ run' = [run EXCEPT !.cost = @ + r.cost, !.text = r.text,
                               !.pc = "finalize"]
  BY DEF Recover
<1>3. r \in LastReplies /\ (recovery # None => r = recovery)
  BY <1>2 DEF IInv, TypeOK
<1>4. r.cost \in Nat
  BY <1>3, Limits DEF LastReplies
<1>5. r.text \in BOOLEAN /\ run \in Locals
  BY <1>3 DEF LastReplies, IInv, TypeOK
<1>6. run.cost + r.cost \in Nat
  BY <1>4, <1>5 DEF Locals
<1>7. /\ run' \in Locals /\ run'.pc = "finalize"
      /\ run'.cost = run.cost + r.cost /\ run'.text = r.text
  BY <1>2, <1>5, <1>6 DEF Locals
<1> QED
  BY <1>1, <1>2, <1>3, <1>7

LEMMA RecoverKeeps ==
    ASSUME IInv, Recover
    PROVE  IInv'
<1>1. run' \in Locals /\ run'.pc # "tools" /\ recovery' \in LastReplies
  BY RecoverFacts
<1>2. UNCHANGED <<status, llmStep, toolStep, finalize, cleaned, cache,
                  snapshot, tool, out, executed, lost, refused, rebased,
                  stopped, crashes>>
  BY RecoverFacts
<1>3. TypeOK'
  BY <1>1, <1>2 DEF IInv, TypeOK
<1> QED
  BY <1>1, <1>2, <1>3, MoveKeeps

LEMMA ResultType ==
    ASSUME IInv
    PROVE  Result \in Results
<1>1. run \in Locals
  BY DEF IInv, TypeOK
<1> QED
  BY <1>1 DEF Result, Results, Locals, IInv, TypeOK

LEMMA FinishKeeps ==
    ASSUME IInv, Finalize \/ Cleanup \/ CleanupRecord \/ Return
    PROVE  IInv'
<1>1. UNCHANGED <<llmStep, toolStep, recovery, cache, tool, executed, lost,
                  refused, rebased, stopped, crashes>>
  BY DEF Finalize, Cleanup, CleanupRecord, Return, durable, history
<1>2. run' \in Locals /\ run'.pc # "tools"
  <2>1. /\ run \in Locals /\ run.pc # "tools"
        /\ \E pc \in {run.pc, "cleanup", "record", "return"} :
              run' = [run EXCEPT !.pc = pc]
    <3>1. run \in Locals /\ [run EXCEPT !.pc = run.pc] = run
      BY DEF IInv, TypeOK, Locals
    <3> QED
      BY <3>1 DEF Finalize, Cleanup, CleanupRecord, Return, Active
  <2> QED
    BY <2>1 DEF Locals
<1>3. status' \in {"running", "complete", "errored"} /\ out' \in {None} \cup Results
      /\ finalize' \in {None} \cup Results
  BY ResultType DEF Finalize, Cleanup, CleanupRecord, Return, durable, IInv, TypeOK
<1>4. snapshot' \in Nat
  <2>1. run.cost \in Nat
    BY DEF IInv, TypeOK, Locals
  <2> QED
    BY <2>1 DEF Finalize, Cleanup, CleanupRecord, Return, durable, IInv, TypeOK
<1>5. cleaned' \in BOOLEAN
  BY DEF Finalize, Cleanup, CleanupRecord, Return, durable, IInv, TypeOK
<1>6. TypeOK'
  BY <1>1, <1>2, <1>3, <1>4, <1>5 DEF IInv, TypeOK
<1> QED
  BY <1>1, <1>2, <1>6, MoveKeeps

LEMMA NextInv == IInv /\ [Next]_vars => IInv'
<1> SUFFICES ASSUME IInv, [Next]_vars PROVE IInv'
  OBVIOUS
<1>1. CASE Progress
  BY <1>1, StartKeeps, StopKeeps, LLMTurnKeeps, ToolRunKeeps, ToolCacheKeeps,
     ToolRecordKeeps, EndTurnKeeps, RecoverKeeps, FinishKeeps DEF Progress, ToolStep
<1>2. CASE LimitReached \/ WallClockStops \/ TurnFails \/ RunThrows \/ Crash
  BY <1>2, StartKeeps, StopKeeps, TurnFailsKeeps, ThrowKeeps, CrashKeeps
<1>3. CASE \E i \in Slots : ToolRetry(i)
  BY <1>3, ToolRetryKeeps
<1>4. CASE UNCHANGED vars
  <2>1. UNCHANGED <<status, llmStep, toolStep, recovery, finalize, cleaned, cache,
                    snapshot, run, tool, out, executed, lost, refused, rebased,
                    stopped, crashes>>
    BY <1>4 DEF vars, durable, history
  <2>2. Batch' = Batch
    BY <2>1 DEF Batch
  <2>3. TypeOK'
    BY <2>1 DEF IInv, TypeOK
  <2> QED
    BY <2>1, <2>2, <2>3 DEF IInv, HandInv, StepsAsked, Has
<1> QED
  BY <1>1, <1>2, <1>3, <1>4 DEF Next

LEMMA Invariant == Spec => []IInv
<1>1. QED
  BY InitInv, NextInv, PTL DEF Spec

(* Every record, cache entry and counter of a run has its type, through    *)
(* any replays (AgentRunWorkflow.run).                                     *)
THEOREM TypeCorrect == Spec => []TypeOK
<1>1. IInv => TypeOK
  BY DEF IInv
<1>2. QED
  BY <1>1, Invariant, PTL
-----------------------------------------------------------------------------
(* The executions of a tool call.  The calls of turn and call k, and those *)
(* among them whose result the worker or the engine holds: an execution of *)
(* k that is not lost belongs to one of these, until the cache has it.     *)
CallSet(k) == {i \in Slots : Has(k[1], i) /\ llmStep[k[1]].batch[i] = k[2]}
UnderWay(t, i) == run.pc = "tools" /\ run.turn = t /\ tool[i].st \in {"ran", "cached"}
Held(k) == {i \in CallSet(k) : toolStep[<<k[1], i>>] # None \/ UnderWay(k[1], i)}
LostOf(S, k) == {i \in S : Unsaved(i) /\ Key(i) = k}
Allowed(k) == IF cache[k] # None THEN Cardinality(CallSet(k)) ELSE Cardinality(Held(k))

OnceInv == \A k \in Keys : executed[k] <= lost[k] + Allowed(k)

LEMMA SubsetSize ==
    ASSUME NEW S \in SUBSET Slots, NEW T \in SUBSET S
    PROVE  /\ Cardinality(S) \in Nat /\ Cardinality(T) \in Nat
           /\ Cardinality(T) <= Cardinality(S)
<1>1. IsFiniteSet(S)
  BY FiniteRanges, FS_Subset
<1> QED
  BY <1>1, FS_Subset, FS_CardinalityType

LEMMA HeldSize ==
    ASSUME NEW k
    PROVE  /\ CallSet(k) \in SUBSET Slots /\ Held(k) \in SUBSET CallSet(k)
           /\ (CallSet(k) \in SUBSET Slots)' /\ (Held(k) \in SUBSET CallSet(k))'
           /\ Allowed(k) \in Nat /\ Allowed(k)' \in Nat
<1>1. CallSet(k) \in SUBSET Slots /\ Held(k) \in SUBSET CallSet(k)
  BY DEF CallSet, Held
<1>2. (CallSet(k) \in SUBSET Slots)' /\ (Held(k) \in SUBSET CallSet(k))'
  BY DEF CallSet, Held
<1>3. Allowed(k) \in Nat
  BY <1>1, SubsetSize DEF Allowed
<1>4. Allowed(k)' \in Nat
  BY <1>2, SubsetSize DEF Allowed
<1> QED
  BY <1>1, <1>2, <1>3, <1>4

(* A step that loses nothing allows no fewer executions.                   *)
LEMMA GrowKeeps ==
    ASSUME IInv, OnceInv, UNCHANGED <<executed, lost>>,
           \A k \in Keys : /\ cache[k] # None => cache'[k] # None
                           /\ CallSet(k) \subseteq CallSet(k)'
                           /\ Held(k) \subseteq Held(k)'
    PROVE  OnceInv'
<1> SUFFICES ASSUME NEW k \in Keys
             PROVE  executed[k] <= lost[k] + Allowed(k)'
  BY DEF OnceInv
<1>1. Allowed(k) <= Allowed(k)'
  <2>1. PICK C, C1, H, H1 : C = CallSet(k) /\ C1 = CallSet(k)' /\ H = Held(k) /\ H1 = Held(k)'
    OBVIOUS
  <2>2. /\ C1 \in SUBSET Slots /\ C \in SUBSET C1 /\ H1 \in SUBSET C1 /\ H \in SUBSET H1
    BY <2>1, HeldSize
  <2>3. /\ Cardinality(C) <= Cardinality(C1)
        /\ Cardinality(H) <= Cardinality(H1)
        /\ Cardinality(H) <= Cardinality(C1)
    BY <2>2, SubsetSize
  <2>4. /\ Allowed(k) = IF cache[k] # None THEN Cardinality(C) ELSE Cardinality(H)
        /\ Allowed(k)' = IF cache'[k] # None THEN Cardinality(C1) ELSE Cardinality(H1)
    BY <2>1 DEF Allowed
  <2> QED
    BY <2>3, <2>4
<1>2. executed[k] \in Nat /\ lost[k] \in Nat /\ executed[k] <= lost[k] + Allowed(k)
  BY DEF IInv, TypeOK, OnceInv
<1>3. PICK a \in Nat, b \in Nat : a = Allowed(k) /\ b = Allowed(k)'
  BY HeldSize
<1> QED
  BY <1>1, <1>2, <1>3

(* The records, the cache and the executions under way stay.               *)
LEMMA QuietKeeps ==
    ASSUME IInv, OnceInv, UNCHANGED <<executed, lost, llmStep>>,
           \A k \in Keys : cache[k] # None => cache'[k] # None,
           \A t \in Turns, i \in Slots :
              toolStep[<<t, i>>] # None \/ (UnderWay(t, i) /\ Has(t, i))
                => toolStep'[<<t, i>>] # None \/ UnderWay(t, i)'
    PROVE  OnceInv'
<1>1. ASSUME NEW k \in Keys
      PROVE  CallSet(k) \subseteq CallSet(k)' /\ Held(k) \subseteq Held(k)'
  <2>1. CallSet(k)' = CallSet(k)
    BY DEF CallSet, Has
  <2>2. k[1] \in Turns
    BY DEF Keys
  <2>3. ASSUME NEW i \in Held(k)
        PROVE  i \in Held(k)'
    <3>1. i \in Slots /\ Has(k[1], i) /\ i \in CallSet(k)
      BY DEF Held, CallSet
    <3>2. toolStep[<<k[1], i>>] # None \/ UnderWay(k[1], i)
      BY DEF Held
    <3>3. toolStep'[<<k[1], i>>] # None \/ UnderWay(k[1], i)'
      BY <2>2, <3>1, <3>2
    <3> QED
      BY <2>1, <3>1, <3>3 DEF Held
  <2> QED
    BY <2>1, <2>3
<1> QED
  BY <1>1, GrowKeeps

(* A step that loses executions counts them.                               *)
LEMMA LossKeeps ==
    ASSUME IInv, OnceInv, NEW S \in SUBSET Slots, Lose(S),
           UNCHANGED <<executed, llmStep, cache>>,
           \A k \in Keys : cache[k] = None => Held(k) \subseteq Held(k)' \cup LostOf(S, k)
    PROVE  OnceInv'
<1> SUFFICES ASSUME NEW k \in Keys
             PROVE  executed[k] <= lost'[k] + Allowed(k)'
  BY DEF OnceInv
<1>1. PICK L : L = LostOf(S, k)
  OBVIOUS
<1>2. L \in SUBSET Slots
  BY <1>1 DEF LostOf
<1>3. lost'[k] = lost[k] + Cardinality(L)
  BY <1>1 DEF Lose, LostOf
<1>4. Cardinality(L) \in Nat
  BY <1>2, SubsetSize
<1>5. Allowed(k) <= Allowed(k)' + Cardinality(L)
  <2>1. CASE cache[k] # None
    <3>1. Allowed(k) = Cardinality(CallSet(k)) /\ Allowed(k)' = Cardinality(CallSet(k)')
      BY <2>1 DEF Allowed
    <3>2. CallSet(k)' = CallSet(k)
      BY DEF CallSet, Has
    <3>3. PICK c \in Nat : c = Allowed(k) /\ c = Allowed(k)'
      BY <3>1, <3>2, HeldSize
    <3> QED
      BY <1>4, <3>3
  <2>2. CASE cache[k] = None
    <3>1. PICK H, H1 : H = Held(k) /\ H1 = Held(k)'
      OBVIOUS
    <3>2. H \subseteq H1 \cup L /\ H1 \in SUBSET Slots
      BY <1>1, <2>2, <3>1, HeldSize
    <3>3. IsFiniteSet(H1) /\ IsFiniteSet(L)
      BY <1>2, <3>2, FiniteRanges, FS_Subset
    <3>4. H1 \cup L \in SUBSET Slots /\ H \in SUBSET (H1 \cup L)
      BY <1>2, <3>2
    <3>5. Cardinality(H) <= Cardinality(H1 \cup L) /\ Cardinality(H) \in Nat
      BY <3>4, SubsetSize
    <3>6. Cardinality(H1 \cup L) =
            Cardinality(H1) + Cardinality(L) - Cardinality(H1 \cap L)
      BY <3>3, FS_Union
    <3>7. Cardinality(H1) \in Nat /\ Cardinality(H1 \cap L) \in Nat
      BY <3>2, SubsetSize
    <3>8. Allowed(k) = Cardinality(H) /\ Allowed(k)' = Cardinality(H1)
      BY <2>2, <3>1 DEF Allowed
    <3> QED
      BY <1>4, <3>5, <3>6, <3>7, <3>8
  <2> QED
    BY <2>1, <2>2
<1>6. executed[k] \in Nat /\ lost[k] \in Nat /\ executed[k] <= lost[k] + Allowed(k)
  BY DEF IInv, TypeOK, OnceInv
<1>7. PICK a \in Nat, b \in Nat : a = Allowed(k) /\ b = Allowed(k)'
  BY HeldSize
<1> QED
  BY <1>3, <1>4, <1>5, <1>6, <1>7

LEMMA LossesCounted ==
    ASSUME IInv, OnceInv, NEW S \in SUBSET Slots, Lose(S), status = "running",
           UNCHANGED <<executed, llmStep, cache, toolStep>>,
           \A t \in Turns, i \in Slots \ S : UnderWay(t, i) => UnderWay(t, i)'
    PROVE  OnceInv'
<1> SUFFICES ASSUME NEW k \in Keys, cache[k] = None, NEW i \in Held(k), i \notin Held(k)'
             PROVE  i \in LostOf(S, k)
  BY LossKeeps
<1>1. /\ k[1] \in Turns /\ k = <<k[1], k[2]>>
      /\ i \in Slots /\ i \in CallSet(k) /\ CallSet(k)' = CallSet(k)
  BY DEF Keys, Held, CallSet, Has
<1>2. toolStep[<<k[1], i>>] = None /\ ~UnderWay(k[1], i)'
  BY <1>1 DEF Held
<1>3. UnderWay(k[1], i)
  BY <1>2 DEF Held
<1>4. i \in S
  BY <1>1, <1>2, <1>3
<1>5. run.pc = "tools" /\ run.turn = k[1] /\ tool[i].st \in {"ran", "cached"}
  BY <1>3 DEF UnderWay
<1>6. i \in DOMAIN Batch /\ Batch[i] = k[2]
  BY <1>1, <1>5 DEF CallSet, Has, Batch
<1>7. Key(i) = k
  BY <1>1, <1>5, <1>6 DEF Key
<1>8. Unsaved(i)
  BY <1>5, <1>6, <1>7 DEF Unsaved, InBatch, Active
<1> QED
  BY <1>4, <1>7, <1>8 DEF LostOf

(* An execution whose attempt starts with nothing recorded.                *)
LEMMA ExecutedKeeps ==
    ASSUME IInv, OnceInv, NEW i, ToolRun(i), NEW e \in Entries,
           toolStep[<<run.turn, i>>] = None, Attempt(i, "ran", e),
           executed' = [executed EXCEPT ![Key(i)] = @ + 1],
           \/ cache[Key(i)] = None /\ UNCHANGED lost
           \/ /\ cache[Key(i)] # None
              /\ lost' = [lost EXCEPT ![Key(i)] = @ + 1]
    PROVE  OnceInv'
<1>1. /\ InBatch(i) /\ i \in Slots /\ tool[i].st = "todo"
      /\ run.turn \in Turns /\ Key(i) \in Keys
      /\ UNCHANGED <<llmStep, toolStep, cache, run>>
  BY ToolRunFacts
<1>2. /\ tool'[i].st = "ran"
      /\ \A j \in Slots : j # i => tool'[j] = tool[j]
  BY <1>1, AttemptFacts
<1> SUFFICES ASSUME NEW k \in Keys
             PROVE  executed'[k] <= lost'[k] + Allowed(k)'
  BY DEF OnceInv
<1>3. executed[k] \in Nat /\ lost[k] \in Nat /\ executed[k] <= lost[k] + Allowed(k)
  BY DEF IInv, TypeOK, OnceInv
<1>4. PICK a \in Nat, b \in Nat : a = Allowed(k) /\ b = Allowed(k)'
  BY HeldSize
<1>5. CallSet(k)' = CallSet(k)
  BY <1>1 DEF CallSet, Has
<1>6. Held(k) \subseteq Held(k)'
  <2> SUFFICES ASSUME NEW j \in Held(k) PROVE j \in Held(k)'
    OBVIOUS
  <2>1. j \in CallSet(k)' /\ j \in Slots
    BY <1>5 DEF Held, CallSet
  <2>2. toolStep[<<k[1], j>>] # None \/ UnderWay(k[1], j)
    BY DEF Held
  <2>3. toolStep[<<k[1], j>>] # None \/ UnderWay(k[1], j)'
    <3>1. CASE j = i
      BY <1>1, <1>2, <2>2, <3>1 DEF UnderWay
    <3>2. CASE j # i
      BY <1>1, <1>2, <2>1, <2>2, <3>2 DEF UnderWay
    <3> QED
      BY <3>1, <3>2
  <2> QED
    BY <1>1, <2>1, <2>3 DEF Held
<1>7. CASE k # Key(i)
  <2>1. executed'[k] = executed[k] /\ lost'[k] = lost[k]
    BY <1>7, <1>1 DEF IInv, TypeOK
  <2>2. a <= b
    <3>1. PICK H, H1, C : H = Held(k) /\ H1 = Held(k)' /\ C = CallSet(k) /\ C = CallSet(k)'
      BY <1>5
    <3>2. C \in SUBSET Slots /\ H1 \in SUBSET C /\ H \in SUBSET H1
      BY <1>6, <3>1, HeldSize
    <3>3. Cardinality(H) <= Cardinality(H1) /\ Cardinality(C) \in Nat
      BY <3>2, SubsetSize
    <3>4. /\ a = IF cache[k] # None THEN Cardinality(C) ELSE Cardinality(H)
          /\ b = IF cache[k] # None THEN Cardinality(C) ELSE Cardinality(H1)
      BY <1>1, <1>4, <3>1 DEF Allowed
    <3> QED
      BY <3>3, <3>4
  <2> QED
    BY <1>3, <1>4, <2>1, <2>2
<1>8. CASE k = Key(i)
  <2>1. executed'[k] = executed[k] + 1
    BY <1>8 DEF IInv, TypeOK
  <2>2. CASE cache[k] # None
    <3>1. lost'[k] = lost[k] + 1
      BY <1>8, <2>2 DEF IInv, TypeOK
    <3>2. Allowed(k)' = Allowed(k)
      BY <1>1, <1>5, <2>2 DEF Allowed
    <3> QED
      BY <1>3, <1>4, <2>1, <3>1, <3>2
  <2>3. CASE cache[k] = None
    <3>1. lost'[k] = lost[k]
      BY <1>8, <2>3
    <3>2. PICK H, H1 : H = Held(k) /\ H1 = Held(k)'
      OBVIOUS
    <3>3. k[1] = run.turn /\ k[2] = Batch[i] /\ run.pc = "tools" /\ i \in DOMAIN Batch
      BY <1>1, <1>8 DEF Key, InBatch, Active
    <3>4. i \notin H
      BY <1>1, <3>2, <3>3 DEF Held, UnderWay
    <3>5. i \in H1
      <4>1. Has(k[1], i) /\ llmStep[k[1]].batch[i] = k[2]
        BY <3>3 DEF Has, Batch, IInv, HandInv
      <4>2. i \in CallSet(k)'
        BY <1>1, <1>5, <4>1 DEF CallSet
      <4>3. UnderWay(k[1], i)'
        BY <1>1, <1>2, <3>3 DEF UnderWay
      <4> QED
        BY <3>2, <4>2, <4>3 DEF Held
    <3>6. H1 \in SUBSET Slots /\ H \in SUBSET Slots
      BY <3>2, HeldSize
    <3>8. H \cup {i} \in SUBSET H1
      BY <1>6, <3>2, <3>5
    <3>9. Cardinality(H \cup {i}) <= Cardinality(H1) /\ Cardinality(H) \in Nat
          /\ Cardinality(H1) \in Nat
      BY <3>6, <3>8, SubsetSize
    <3>10. IsFiniteSet(H)
      BY <3>6, FiniteRanges, FS_Subset
    <3>11. Cardinality(H \cup {i}) = Cardinality(H) + 1
      BY <3>4, <3>10, FS_AddElement
    <3>12. a = Cardinality(H) /\ b = Cardinality(H1)
      BY <1>1, <1>4, <2>3, <3>2 DEF Allowed
    <3> QED
      BY <1>3, <1>4, <2>1, <3>1, <3>9, <3>11, <3>12
  <2> QED
    BY <2>2, <2>3
<1> QED
  BY <1>7, <1>8

(* A step outside the tools that leaves the records alone.                 *)
LEMMA AwayKeeps ==
    ASSUME IInv, OnceInv, run.pc # "tools",
           UNCHANGED <<llmStep, toolStep, cache, executed, lost>>
    PROVE  OnceInv'
  BY QuietKeeps DEF UnderWay

LEMMA ReplyKeepsOnce ==
    ASSUME IInv, OnceInv, NEW reply \in LLMResults, LLMTurn(reply)
    PROVE  OnceInv'
<1>1. /\ UNCHANGED <<toolStep, cache, executed, lost>>
      /\ llmStep' = [llmStep EXCEPT ![run.turn] = reply]
      /\ reply \in RepliesAt(run.turn) /\ run.pc = "turn"
  BY DEF LLMTurn, history, Active
<1>2. \A t \in Turns : llmStep[t] # None => llmStep'[t] = llmStep[t]
  BY <1>1 DEF RepliesAt, IInv, TypeOK
<1>3. ASSUME NEW k \in Keys
      PROVE  CallSet(k) \subseteq CallSet(k)' /\ Held(k) \subseteq Held(k)'
  <2>1. k[1] \in Turns
    BY DEF Keys
  <2>2. CallSet(k) \subseteq CallSet(k)'
    BY <1>2, <2>1 DEF CallSet, Has
  <2> QED
    BY <1>1, <2>2 DEF Held, UnderWay
<1> QED
  BY <1>1, <1>3, GrowKeeps

(* An attempt of the turn moves on and keeps what it has.                  *)
LEMMA AttemptKeepsOnce ==
    ASSUME IInv, OnceInv, NEW i \in Slots, NEW st \in {"ran", "cached", "done"},
           NEW e \in Entries, Attempt(i, st, e),
           UNCHANGED <<run, llmStep, executed, lost>>,
           \A k \in Keys : cache[k] # None => cache'[k] # None,
           \A p \in Turns \X Slots : toolStep[p] # None => toolStep'[p] # None,
           st = "done" => toolStep'[<<run.turn, i>>] # None
    PROVE  OnceInv'
<1>1. /\ tool'[i].st = st
      /\ \A j \in Slots : j # i => tool'[j] = tool[j]
  BY AttemptFacts
<1>2. ASSUME NEW t \in Turns, NEW j \in Slots,
             toolStep[<<t, j>>] # None \/ UnderWay(t, j)
      PROVE  toolStep'[<<t, j>>] # None \/ UnderWay(t, j)'
  <2>1. CASE toolStep[<<t, j>>] # None
    BY <2>1
  <2>2. CASE UnderWay(t, j) /\ j # i
    BY <1>1, <2>2 DEF UnderWay
  <2>3. CASE UnderWay(t, j) /\ j = i
    <3>1. run.pc = "tools" /\ run.turn = t
      BY <2>3 DEF UnderWay
    <3>2. CASE st = "done"
      BY <2>3, <3>1, <3>2
    <3>3. CASE st \in {"ran", "cached"}
      BY <1>1, <2>3, <3>1, <3>3 DEF UnderWay
    <3> QED
      BY <3>2, <3>3
  <2> QED
    BY <1>2, <2>1, <2>2, <2>3
<1> QED
  BY <1>2, QuietKeeps

LEMMA ToolStepKeepsOnce ==
    ASSUME IInv, OnceInv, NEW i \in Slots, ToolStep(i)
    PROVE  OnceInv'
<1>1. CASE ToolRun(i)
  <2>1. PICK e \in Entries :
          \/ /\ toolStep[<<run.turn, i>>] = e /\ Attempt(i, "done", e)
             /\ UNCHANGED <<executed, lost>>
          \/ /\ toolStep[<<run.turn, i>>] = None /\ cache[Key(i)] = e
             /\ Attempt(i, "cached", e)
             /\ UNCHANGED <<executed, lost>>
          \/ /\ toolStep[<<run.turn, i>>] = None
             /\ Attempt(i, "ran", e)
             /\ executed' = [executed EXCEPT ![Key(i)] = @ + 1]
             /\ \/ cache[Key(i)] = None /\ UNCHANGED lost
                \/ /\ cache[Key(i)] # None
                   /\ lost' = [lost EXCEPT ![Key(i)] = @ + 1]
    BY <1>1, ToolRunFacts
  <2>2. UNCHANGED <<run, llmStep, toolStep, cache>>
    BY <1>1, ToolRunFacts
  <2>3. CASE /\ toolStep[<<run.turn, i>>] = e /\ Attempt(i, "done", e)
             /\ UNCHANGED <<executed, lost>>
    <3>1. toolStep'[<<run.turn, i>>] # None
      BY <2>2, <2>3, EntryFacts
    <3> QED
      BY <2>2, <2>3, <3>1, AttemptKeepsOnce
  <2>4. CASE Attempt(i, "cached", e) /\ UNCHANGED <<executed, lost>>
    BY <2>2, <2>4, AttemptKeepsOnce
  <2>5. CASE /\ toolStep[<<run.turn, i>>] = None
             /\ Attempt(i, "ran", e)
             /\ executed' = [executed EXCEPT ![Key(i)] = @ + 1]
             /\ \/ cache[Key(i)] = None /\ UNCHANGED lost
                \/ /\ cache[Key(i)] # None
                   /\ lost' = [lost EXCEPT ![Key(i)] = @ + 1]
    BY <1>1, <2>5, ExecutedKeeps
  <2> QED
    BY <2>1, <2>3, <2>4, <2>5
<1>2. CASE ToolCache(i)
  <2>1. /\ run.pc = "tools" /\ i \in DOMAIN Batch /\ tool[i].st = "ran"
        /\ Attempt(i, "cached", tool[i].entry)
        /\ UNCHANGED <<llmStep, toolStep, run, executed, lost>>
        /\ cache' = cache \/ cache' = [cache EXCEPT ![Key(i)] = tool[i].entry]
    BY <1>2 DEF ToolCache, InBatch, Active, history
  <2>2. tool[i].entry \in Entries
    BY <2>1 DEF IInv, HandInv
  <2>3. \A k \in Keys : cache[k] # None => cache'[k] # None
    BY <2>1, <2>2, EntryFacts DEF IInv, TypeOK
  <2> QED
    BY <2>1, <2>2, <2>3, AttemptKeepsOnce
<1>3. CASE ToolRecord(i)
  <2>1. /\ run.pc = "tools" /\ i \in DOMAIN Batch /\ tool[i].st = "cached"
        /\ Attempt(i, "done", tool[i].entry)
        /\ UNCHANGED <<llmStep, cache, run, executed, lost>>
        /\ toolStep' = [toolStep EXCEPT ![<<run.turn, i>>] = tool[i].entry]
    BY <1>3 DEF ToolRecord, InBatch, Active, history
  <2>2. tool[i].entry \in Entries /\ tool[i].entry # None
    BY <2>1, EntryFacts DEF IInv, HandInv
  <2>3. run.turn \in Turns
    BY <2>1, BatchFacts
  <2>4. /\ \A p \in Turns \X Slots : toolStep[p] # None => toolStep'[p] # None
        /\ toolStep'[<<run.turn, i>>] # None
    BY <2>1, <2>2, <2>3 DEF IInv, TypeOK
  <2> QED
    BY <2>1, <2>2, <2>4, AttemptKeepsOnce
<1> QED
  BY <1>1, <1>2, <1>3 DEF ToolStep

LEMMA EndTurnKeepsOnce ==
    ASSUME IInv, OnceInv, EndTurn
    PROVE  OnceInv'
<1>1. /\ UNCHANGED <<llmStep, toolStep, cache, executed, lost>>
      /\ \A i \in DOMAIN Batch : tool[i].st = "done"
  BY DEF EndTurn
<1>2. \A t \in Turns, i \in Slots : Has(t, i) => ~UnderWay(t, i)
  BY <1>1 DEF UnderWay, Has, Batch
<1> QED
  BY <1>1, <1>2, QuietKeeps

LEMMA LossKeepsOnce ==
    ASSUME IInv, OnceInv, TurnFails \/ Crash \/ \E i \in Slots : ToolRetry(i)
    PROVE  OnceInv'
<1>1. CASE TurnFails \/ Crash
  <2>1. /\ UNCHANGED <<executed, llmStep, cache, toolStep>>
        /\ Lose(Slots) /\ status = "running"
    BY <1>1 DEF TurnFails, Crash, durable, Active
  <2> QED
    BY <2>1, LossesCounted
<1>2. CASE \E i \in Slots : ToolRetry(i)
  <2>1. PICK i \in Slots : ToolRetry(i)
    BY <1>2
  <2>2. /\ UNCHANGED <<executed, llmStep, cache, toolStep, run>>
        /\ Lose({i}) /\ status = "running"
        /\ \A j \in Slots \ {i} : tool'[j] = tool[j]
    BY <2>1 DEF ToolRetry, InBatch, Active, durable, IInv, TypeOK
  <2>3. \A t \in Turns, j \in Slots \ {i} : UnderWay(t, j) => UnderWay(t, j)'
    BY <2>2 DEF UnderWay
  <2> QED
    BY <2>2, <2>3, LossesCounted
<1> QED
  BY <1>1, <1>2

LEMMA OnceNext == IInv /\ OnceInv /\ [Next]_vars => OnceInv'
<1> SUFFICES ASSUME IInv, OnceInv, [Next]_vars PROVE OnceInv'
  OBVIOUS
<1>1. CASE Start \/ LimitReached \/ BudgetStops \/ WallClockStops
  <2>1. run.pc # "tools" /\ UNCHANGED <<llmStep, toolStep, cache, executed, lost>>
    BY <1>1 DEF Start, LimitReached, BudgetStops, WallClockStops, Active, durable, history
  <2> QED
    BY <2>1, AwayKeeps
<1>2. CASE Recover \/ Finalize \/ Cleanup \/ CleanupRecord \/ Return
  <2>1. run.pc # "tools" /\ UNCHANGED <<llmStep, toolStep, cache, executed, lost>>
    BY <1>2 DEF Recover, Finalize, Cleanup, CleanupRecord, Return, Active, durable,
                history
  <2> QED
    BY <2>1, AwayKeeps
<1>3. CASE RunThrows \/ UNCHANGED vars
  <2>1. UNCHANGED <<llmStep, toolStep, cache, executed, lost, run, tool>>
    BY <1>3 DEF RunThrows, vars, durable, history
  <2> QED
    BY <2>1, QuietKeeps DEF UnderWay
<1>4. CASE \E reply \in LLMResults : LLMTurn(reply)
  BY <1>4, ReplyKeepsOnce
<1>5. CASE \E i \in Slots : ToolStep(i)
  BY <1>5, ToolStepKeepsOnce
<1>6. CASE EndTurn
  BY <1>6, EndTurnKeepsOnce
<1>7. CASE TurnFails \/ Crash \/ \E i \in Slots : ToolRetry(i)
  BY <1>7, LossKeepsOnce
<1> QED
  BY <1>1, <1>2, <1>3, <1>4, <1>5, <1>6, <1>7 DEF Next, Progress

LEMMA OnceInit == Init => OnceInv
<1> SUFFICES ASSUME Init, NEW k \in Keys PROVE 0 <= Allowed(k)
  BY HeldSize DEF Init, OnceInv
<1> QED
  BY HeldSize

(* The calls the model made, as CallsOf counts them.                       *)
LEMMA CallsAre ==
    ASSUME IInv, NEW k \in Keys
    PROVE  CallsOf(k) = Cardinality(CallSet(k))
<1>1. k[1] \in Turns
  BY DEF Keys
<1>2. CASE llmStep[k[1]] = None
  <2>1. CallSet(k) = {}
    BY <1>2 DEF CallSet, Has
  <2> QED
    BY <1>2, <2>1, FS_EmptySet DEF CallsOf
<1>3. CASE llmStep[k[1]] # None
  <2>1. DOMAIN llmStep[k[1]].batch \subseteq Slots
    BY <1>1, <1>3, ReplyFacts DEF IInv, TypeOK
  <2>2. CallSet(k) = {i \in DOMAIN llmStep[k[1]].batch : llmStep[k[1]].batch[i] = k[2]}
    BY <1>3, <2>1 DEF CallSet, Has
  <2> QED
    BY <1>3, <2>2 DEF CallsOf
<1> QED
  BY <1>2, <1>3

(* Each tool call is executed once for each time the model made it in the  *)
(* turn, and once more for each result that was lost or unreadable, through *)
(* any retries and replays (idempotency.ts, and the tool steps of run).    *)
THEOREM ToolsRunOnce == Spec => []ToolsRunOncePerCall
<1>1. IInv /\ OnceInv => ToolsRunOncePerCall
  <2> SUFFICES ASSUME IInv, OnceInv, NEW k \in Keys
               PROVE  executed[k] <= CallsOf(k) + lost[k]
    BY DEF ToolsRunOncePerCall
  <2>1. Cardinality(Held(k)) <= Cardinality(CallSet(k))
        /\ Cardinality(Held(k)) \in Nat /\ Cardinality(CallSet(k)) \in Nat
    BY HeldSize, SubsetSize
  <2>2. executed[k] \in Nat /\ lost[k] \in Nat /\ executed[k] <= lost[k] + Allowed(k)
    BY DEF IInv, TypeOK, OnceInv
  <2> QED
    BY <2>1, <2>2, CallsAre DEF Allowed
<1>2. Spec => []OnceInv
  <2>1. IInv /\ OnceInv /\ [Next]_vars => OnceInv'
    BY OnceNext
  <2>2. Init => OnceInv
    BY OnceInit
  <2>3. QED
    BY <2>1, <2>2, Invariant, PTL DEF Spec
<1>3. QED
  BY <1>1, <1>2, Invariant, PTL

-----------------------------------------------------------------------------
(* The cost of the records, turn by turn: l are those of the LLM steps and *)
(* s those of the tool steps.                                              *)
LLMRecords == [Turns -> {None} \cup LLMResults]
ToolRecords == [Turns \X Slots -> {None} \cup Entries]
CostBefore(l, s, t) ==
    Total(CostsOf(l, Turns), 1..(t - 1))
      + Total(CostsOf(s, Turns \X Slots), (1..(t - 1)) \X Slots)
RowCost(s, t) == Total(CostsOf(s, Turns \X Slots), {t} \X Slots)

LEMMA LLMCostTypes ==
    ASSUME NEW l \in LLMRecords
    PROVE  \A t \in Turns : /\ CostsOf(l, Turns)[t] = CostOf(l[t])
                            /\ CostOf(l[t]) \in Nat /\ CostOf(l[t]) \in Int
<1>1. \A t \in Turns : CostOf(l[t]) \in Nat /\ CostOf(l[t]) \in Int
  BY ReplyFacts DEF LLMRecords, CostOf
<1> QED
  BY <1>1 DEF CostsOf

LEMMA ToolCostTypes ==
    ASSUME NEW s \in ToolRecords
    PROVE  \A p \in Turns \X Slots : /\ CostsOf(s, Turns \X Slots)[p] = CostOf(s[p])
                                     /\ CostOf(s[p]) \in Nat /\ CostOf(s[p]) \in Int
<1>1. \A p \in Turns \X Slots : CostOf(s[p]) \in Nat /\ CostOf(s[p]) \in Int
  BY EntryFacts DEF ToolRecords, CostOf
<1> QED
  BY <1>1 DEF CostsOf

LEMMA FirstTurns ==
    ASSUME NEW t \in Nat, t <= MaxTurns
    PROVE  /\ 1..t \in SUBSET Turns /\ IsFiniteSet(1..t)
           /\ (1..t) \X Slots \in SUBSET (Turns \X Slots)
           /\ IsFiniteSet((1..t) \X Slots)
<1>1. 1..t \in SUBSET Turns
  BY Limits DEF Turns
<1> QED
  BY <1>1, FiniteRanges, FS_Subset, FS_Product

LEMMA CostsAreNat ==
    ASSUME NEW l \in LLMRecords, NEW s \in ToolRecords
    PROVE  /\ \A t \in Turns : CostBefore(l, s, t) \in Nat /\ RowCost(s, t) \in Nat
           /\ CostBefore(l, s, 1) = 0
<1> DEFINE g == CostsOf(l, Turns)
           h == CostsOf(s, Turns \X Slots)
<1>1. \A t \in Turns : g[t] \in Nat
  BY LLMCostTypes
<1>2. \A p \in Turns \X Slots : h[p] \in Nat
  BY ToolCostTypes
<1> HIDE DEF g, h
<1>3. ASSUME NEW t \in Turns
      PROVE  /\ Total(g, 1..(t - 1)) \in Nat
             /\ Total(h, (1..(t - 1)) \X Slots) \in Nat
             /\ Total(h, {t} \X Slots) \in Nat
  <2>1. t - 1 \in Nat /\ t - 1 <= MaxTurns
    BY Limits DEF Turns
  <2>2. /\ 1..(t - 1) \in SUBSET Turns /\ IsFiniteSet(1..(t - 1))
        /\ (1..(t - 1)) \X Slots \in SUBSET (Turns \X Slots)
        /\ IsFiniteSet((1..(t - 1)) \X Slots)
    BY <2>1, FirstTurns
  <2>3. {t} \X Slots \in SUBSET (Turns \X Slots) /\ IsFiniteSet({t} \X Slots)
    BY FiniteRanges, FS_Subset
  <2> QED
    BY <1>1, <1>2, <2>2, <2>3, TotalNat
<1>4. 1..(1 - 1) = {} /\ {} \X Slots = {}
  OBVIOUS
<1>5. \A t \in Turns : CostBefore(l, s, t) \in Nat /\ RowCost(s, t) \in Nat
  <2> TAKE t \in Turns
  <2>1. /\ CostBefore(l, s, t) = Total(g, 1..(t - 1)) + Total(h, (1..(t - 1)) \X Slots)
        /\ RowCost(s, t) = Total(h, {t} \X Slots)
    BY DEF CostBefore, RowCost, g, h
  <2>2. PICK a \in Nat, b \in Nat : /\ a = Total(g, 1..(t - 1))
                                    /\ b = Total(h, (1..(t - 1)) \X Slots)
    BY <1>3
  <2>3. CostBefore(l, s, t) = a + b
    BY <2>1, <2>2
  <2> QED
    BY <1>3, <2>1, <2>3
<1>6. CostBefore(l, s, 1) = Total(g, {}) + Total(h, {})
  BY <1>4 DEF CostBefore, g, h
<1>7. Total(g, {}) = 0 /\ Total(h, {}) = 0
  BY TotalEmpty
<1> QED
  BY <1>5, <1>6, <1>7

LEMMA CostStep ==
    ASSUME NEW l \in LLMRecords, NEW s \in ToolRecords, NEW t \in Turns
    PROVE  CostBefore(l, s, t + 1) = CostBefore(l, s, t) + CostOf(l[t]) + RowCost(s, t)
<1> DEFINE g == CostsOf(l, Turns)
           h == CostsOf(s, Turns \X Slots)
           A == 1..(t - 1)
           B == (1..(t - 1)) \X Slots
           R == {t} \X Slots
<1>1. \A u \in Turns : g[u] \in Int
  BY LLMCostTypes
<1>2. \A p \in Turns \X Slots : h[p] \in Int
  BY ToolCostTypes
<1>3. g[t] = CostOf(l[t])
  BY LLMCostTypes
<1>4. t \in Nat /\ t - 1 \in Nat /\ t - 1 <= MaxTurns
  BY Limits DEF Turns
<1>5. /\ A \in SUBSET Turns /\ IsFiniteSet(A)
      /\ B \in SUBSET (Turns \X Slots) /\ IsFiniteSet(B)
  BY <1>4, FirstTurns
<1>6. R \in SUBSET (Turns \X Slots) /\ IsFiniteSet(R)
  BY FiniteRanges, FS_Subset
<1>7. 1..((t + 1) - 1) = A \cup {t} /\ t \notin A
  BY <1>4
<1>8. (1..((t + 1) - 1)) \X Slots = B \cup R /\ B \cap R = {}
  <2>1. (A \cup {t}) \X Slots = B \cup R
    OBVIOUS
  <2>2. B \cap R = {}
    BY <1>7
  <2> QED
    BY <1>7, <2>1, <2>2
<1> HIDE DEF g, h, A, B, R
<1>9. Total(g, A \cup {t}) = g[t] + Total(g, A)
  BY <1>1, <1>5, <1>7, TotalWith
<1>10. Total(h, B \cup R) = Total(h, B) + Total(h, R)
  BY <1>2, <1>5, <1>6, <1>8, TotalUnion
<1>11. Total(g, A) \in Int /\ Total(h, B) \in Int /\ Total(h, R) \in Int /\ g[t] \in Int
  BY <1>1, <1>2, <1>5, <1>6, TotalType
<1>12. CostBefore(l, s, t + 1) = Total(g, A \cup {t}) + Total(h, B \cup R)
  BY <1>7, <1>8 DEF CostBefore, g, h
<1>13. CostBefore(l, s, t) = Total(g, A) + Total(h, B) /\ RowCost(s, t) = Total(h, R)
  BY DEF CostBefore, RowCost, g, h, A, B, R
<1> QED
  BY <1>3, <1>9, <1>10, <1>11, <1>12, <1>13

(* Records that agree on the turns before t.                               *)
LEMMA CostSame ==
    ASSUME NEW l \in LLMRecords, NEW s \in ToolRecords,
           NEW m \in LLMRecords, NEW r \in ToolRecords, NEW t \in Turns,
           \A u \in Turns : u < t => l[u] = m[u],
           \A u \in Turns, i \in Slots : u < t => s[<<u, i>>] = r[<<u, i>>]
    PROVE  CostBefore(l, s, t) = CostBefore(m, r, t)
<1> DEFINE A == 1..(t - 1)
           B == (1..(t - 1)) \X Slots
<1>1. t \in Nat /\ t - 1 \in Nat /\ t - 1 <= MaxTurns
  BY Limits DEF Turns
<1>2. /\ A \in SUBSET Turns /\ IsFiniteSet(A)
      /\ B \in SUBSET (Turns \X Slots) /\ IsFiniteSet(B)
  BY <1>1, FirstTurns
<1>3. \A u \in A : l[u] = m[u]
  BY <1>1, <1>2
<1>4. \A p \in B : s[p] = r[p]
  <2> SUFFICES ASSUME NEW u \in A, NEW i \in Slots PROVE s[<<u, i>>] = r[<<u, i>>]
    OBVIOUS
  <2>1. u \in Turns /\ u < t
    BY <1>1, <1>2
  <2> QED
    BY <2>1
<1> HIDE DEF A, B
<1>5. \A u \in A : CostsOf(l, Turns)[u] = CostsOf(m, Turns)[u]
  BY <1>2, <1>3 DEF CostsOf
<1>6. \A p \in B : CostsOf(s, Turns \X Slots)[p] = CostsOf(r, Turns \X Slots)[p]
  BY <1>2, <1>4 DEF CostsOf
<1>7. /\ Total(CostsOf(l, Turns), A) = Total(CostsOf(m, Turns), A)
      /\ Total(CostsOf(s, Turns \X Slots), B) = Total(CostsOf(r, Turns \X Slots), B)
  BY <1>2, <1>5, <1>6, TotalSame
<1> QED
  BY <1>7 DEF CostBefore, A, B

(* Nothing recorded after turn t.                                          *)
LEMMA CostOfAll ==
    ASSUME NEW l \in LLMRecords, NEW s \in ToolRecords, NEW t \in Turns,
           \A u \in Turns : u > t => l[u] = None,
           \A u \in Turns, i \in Slots : u > t => s[<<u, i>>] = None
    PROVE  Total(CostsOf(l, Turns), Turns)
             + Total(CostsOf(s, Turns \X Slots), Turns \X Slots)
           = CostBefore(l, s, t) + CostOf(l[t]) + RowCost(s, t)
<1> DEFINE g == CostsOf(l, Turns)
           h == CostsOf(s, Turns \X Slots)
           A == 1..t
           B == (1..t) \X Slots
           C == Turns \ A
           D == (Turns \X Slots) \ B
<1>1. \A u \in Turns : g[u] = CostOf(l[u]) /\ g[u] \in Int
  BY LLMCostTypes
<1>2. \A p \in Turns \X Slots : h[p] = CostOf(s[p]) /\ h[p] \in Int
  BY ToolCostTypes
<1>3. t \in Nat /\ t <= MaxTurns /\ (t + 1) - 1 = t
  BY Limits DEF Turns
<1>4. /\ A \in SUBSET Turns /\ IsFiniteSet(A)
      /\ B \in SUBSET (Turns \X Slots) /\ IsFiniteSet(B)
  BY <1>3, FirstTurns
<1>5. /\ C \in SUBSET Turns /\ IsFiniteSet(C) /\ Turns = A \cup C /\ A \cap C = {}
      /\ D \in SUBSET (Turns \X Slots) /\ IsFiniteSet(D)
      /\ Turns \X Slots = B \cup D /\ B \cap D = {}
  <2>1. IsFiniteSet(C) /\ IsFiniteSet(D)
    BY FiniteRanges, FS_Subset
  <2>2. Turns = A \cup C /\ Turns \X Slots = B \cup D
    BY <1>4
  <2> QED
    BY <2>1, <2>2
<1>6. \A u \in C : g[u] = 0
  <2> TAKE u \in C
  <2>1. u \in Turns /\ u > t
    BY <1>3 DEF Turns
  <2>2. l[u] = None
    BY <2>1
  <2> QED
    BY <1>1, <2>1, <2>2 DEF CostOf
<1>7. \A p \in D : h[p] = 0
  <2> TAKE p \in D
  <2>1. PICK u \in Turns, i \in Slots : p = <<u, i>>
    OBVIOUS
  <2>2. u > t
    BY <1>3, <2>1 DEF Turns
  <2>3. s[p] = None
    BY <2>1, <2>2
  <2> QED
    BY <1>2, <2>1, <2>3 DEF CostOf
<1>8. CostBefore(l, s, t + 1) = Total(g, A) + Total(h, B)
  BY <1>3 DEF CostBefore
<1> HIDE DEF g, h, A, B, C, D
<1>9. /\ Total(g, Turns) = Total(g, A) + Total(g, C)
      /\ Total(h, Turns \X Slots) = Total(h, B) + Total(h, D)
  BY <1>1, <1>2, <1>4, <1>5, TotalUnion
<1>10. Total(g, C) = 0 /\ Total(h, D) = 0
  BY <1>5, <1>6, <1>7, TotalZero
<1>11. Total(g, A) \in Int /\ Total(h, B) \in Int
  BY <1>1, <1>2, <1>4, TotalType
<1>12. Total(g, Turns) + Total(h, Turns \X Slots) = CostBefore(l, s, t + 1)
  BY <1>8, <1>9, <1>10, <1>11
<1> QED
  BY <1>12, CostStep DEF g, h

(* The tool records of a turn lie within D.                                *)
LEMMA RowFacts ==
    ASSUME NEW s \in ToolRecords, NEW t \in Turns, NEW D \in SUBSET Slots,
           \A i \in Slots : s[<<t, i>>] # None => i \in D
    PROVE  /\ RowCost(s, t) <= Cardinality(D) * Max(ToolCosts)
           /\ Cardinality(D) \in Nat /\ Max(ToolCosts) \in Nat
           /\ (\A i \in D : s[<<t, i>>] # None)
                => RowCost(s, t) = Total(RowOf(s, t, D), D)
<1> DEFINE g == [i \in Slots |-> CostOf(s[<<t, i>>])]
           E == Slots \ D
<1>1. \A i \in Slots : g[i] = CostOf(s[<<t, i>>]) /\ g[i] \in Int
  <2>1. ASSUME NEW i \in Slots PROVE CostOf(s[<<t, i>>]) \in Nat
    <3>1. <<t, i>> \in Turns \X Slots
      OBVIOUS
    <3> QED
      BY <3>1, ToolCostTypes
  <2> QED
    BY <2>1
<1>2. IsFiniteSet(Slots) /\ IsFiniteSet(D) /\ IsFiniteSet(E) /\ Slots = D \cup E
      /\ D \cap E = {} /\ Cardinality(D) \in Nat
  BY FiniteRanges, FS_Subset, FS_CardinalityType
<1>3. Max(ToolCosts) \in Nat /\ \A c \in ToolCosts : c <= Max(ToolCosts)
  <2>1. ToolCosts \subseteq Int /\ ToolCosts # {} /\ IsFiniteSet(ToolCosts)
    BY RunAssumption
  <2>2. Max(ToolCosts) \in ToolCosts /\ \A c \in ToolCosts : c <= Max(ToolCosts)
    BY <2>1, MaxOfFinite
  <2> QED
    BY <2>2, Limits
<1>4. RowCost(s, t) = Total(g, Slots)
  <2> DEFINE h == CostsOf(s, Turns \X Slots)
  <2>1. \A i \in Slots : g[i] \in Int /\ h[<<t, i>>] = g[i]
    BY <1>1 DEF CostsOf
  <2> HIDE DEF h, g
  <2>2. PICK S : S = Slots
    OBVIOUS
  <2>3. IsFiniteSet(S) /\ \A i \in S : g[i] \in Int /\ h[<<t, i>>] = g[i]
    BY <1>2, <2>1, <2>2
  <2>4. Total(h, RowAt(t, S)) = Total(g, S)
    BY <2>3, TotalOfRow
  <2> QED
    BY <2>2, <2>4 DEF RowCost, RowAt, h
<1>5. \A i \in E : g[i] = 0
  BY <1>1 DEF CostOf
<1>6. \A i \in D : g[i] <= Max(ToolCosts)
  <2> TAKE i \in D
  <2>1. s[<<t, i>>] \in {None} \cup Entries /\ i \in Slots
    BY DEF ToolRecords
  <2>2. CASE s[<<t, i>>] = None
    BY <1>1, <1>3, <2>1, <2>2 DEF CostOf
  <2>3. CASE s[<<t, i>>] # None
    <3>1. s[<<t, i>>].cost \in ToolCosts
      BY <2>1, <2>3, EntryFacts
    <3> QED
      BY <1>1, <1>3, <2>1, <2>3, <3>1 DEF CostOf
  <2> QED
    BY <2>2, <2>3
<1>7. (\A i \in D : s[<<t, i>>] # None) => \A i \in D : g[i] = RowOf(s, t, D)[i]
  BY <1>1 DEF CostOf, RowOf
<1> HIDE DEF g, E
<1>8. Total(g, Slots) = Total(g, D) + Total(g, E) /\ Total(g, E) = 0 /\ Total(g, D) \in Int
  <2>1. Total(g, E) = 0
    BY <1>2, <1>5, TotalZero
  <2>2. Total(g, D) \in Int
    BY <1>1, <1>2, TotalType
  <2>3. Total(g, Slots) = Total(g, D) + Total(g, E)
    <3>1. \A i \in D \cup E : g[i] \in Int
      BY <1>1, <1>2
    <3>2. Total(g, D \cup E) = Total(g, D) + Total(g, E)
      BY <1>2, <3>1, TotalUnion
    <3> QED
      BY <1>2, <3>2
  <2> QED
    BY <2>1, <2>2, <2>3
<1>9. Total(g, Slots) = Total(g, D)
  BY <1>8
<1>10. Total(g, D) <= Cardinality(D) * Max(ToolCosts)
  <2>1. PICK v \in Int : v = Max(ToolCosts)
    BY <1>3
  <2>2. \A i \in D : g[i] \in Int /\ g[i] <= v
    BY <1>1, <1>6, <2>1
  <2>3. Total(g, D) <= Cardinality(D) * v
    BY <1>2, <2>2, TotalAtMost
  <2> QED
    BY <2>1, <2>3
<1>11. (\A i \in D : s[<<t, i>>] # None) => Total(g, D) = Total(RowOf(s, t, D), D)
  BY <1>2, <1>7, TotalSame
<1> QED
  BY <1>2, <1>3, <1>4, <1>9, <1>10, <1>11

-----------------------------------------------------------------------------
(* The budget.  All records of turn t are there.                           *)
Settled(t) ==
    llmStep[t] # None /\ \A i \in DOMAIN llmStep[t].batch : toolStep[<<t, i>>] # None

InLoop == run.pc \in {"turn", "tools"}

(* Turns settle one after the other, and a replay goes through them again. *)
OrderInv ==
    /\ \A t \in Turns, u \in Turns : u < t /\ llmStep[t] # None => Settled(u)
    /\ \A u \in Turns : InLoop /\ u < run.turn => Settled(u)
    /\ run.pc = "start" => run.turn = 1

(* The local cost covers what is recorded of the turns so far: the budget  *)
(* checks, which read it, are not deceived by a replay.                    *)
PaidInv ==
    /\ run.pc = "turn" => CostBefore(llmStep, toolStep, run.turn) <= run.cost
    /\ run.pc = "tools" =>
         /\ CostBefore(llmStep, toolStep, run.turn) + llmStep[run.turn].cost <= run.cost
         /\ run.cost + Len(Batch) * Estimate <= Budget

BudgetInv == OrderInv /\ PaidInv /\ BudgetRespected

LEMMA MaxCosts ==
    /\ Max(LLMCosts) \in Nat /\ \A c \in LLMCosts : c <= Max(LLMCosts)
    /\ Max(ToolCosts) \in Nat /\ \A c \in ToolCosts : c <= Max(ToolCosts)
<1>1. /\ LLMCosts \subseteq Int /\ LLMCosts # {} /\ IsFiniteSet(LLMCosts)
      /\ ToolCosts \subseteq Int /\ ToolCosts # {} /\ IsFiniteSet(ToolCosts)
  BY RunAssumption
<1> QED
  BY <1>1, MaxOfFinite, Limits

LEMMA RecordTypes ==
    ASSUME IInv, IInv'
    PROVE  /\ llmStep \in LLMRecords /\ toolStep \in ToolRecords
           /\ llmStep' \in LLMRecords /\ toolStep' \in ToolRecords
           /\ run.turn \in Turns /\ run.cost \in Nat /\ run'.turn \in Turns /\ run'.cost \in Nat
  BY DEF IInv, TypeOK, Locals, LLMRecords, ToolRecords

LEMMA BudgetSame ==
    ASSUME BudgetRespected, UNCHANGED <<llmStep, toolStep>>
    PROVE  BudgetRespected'
<1>1. LoopCost' = LoopCost
  BY LoopCostIs
<1> QED
  BY <1>1 DEF BudgetRespected

(* A step that leaves the records alone and is not in the loop after it.   *)
LEMMA LeaveKeeps ==
    ASSUME IInv, BudgetInv, UNCHANGED <<llmStep, toolStep>>, ~InLoop',
           run'.pc = "start" => run'.turn = 1
    PROVE  BudgetInv'
<1>1. OrderInv'
  BY DEF BudgetInv, OrderInv, Settled
<1>2. PaidInv'
  BY DEF PaidInv, InLoop
<1> QED
  BY <1>1, <1>2, BudgetSame DEF BudgetInv

(* One that leaves the local variables alone as well.                      *)
LEMMA StayKeeps ==
    ASSUME IInv, BudgetInv, UNCHANGED <<llmStep, toolStep, run>>
    PROVE  BudgetInv'
<1>1. OrderInv'
  BY DEF BudgetInv, OrderInv, Settled, InLoop
<1>2. PaidInv'
  BY DEF BudgetInv, PaidInv, Batch
<1> QED
  BY <1>1, <1>2, BudgetSame DEF BudgetInv

LEMMA StartKeepsBudget ==
    ASSUME IInv, BudgetInv, IInv', Start
    PROVE  BudgetInv'
<1>1. /\ UNCHANGED <<llmStep, toolStep>> /\ run.pc = "start"
      /\ run' = [run EXCEPT !.pc = "turn", !.cost = snapshot]
  BY DEF Start, durable, Active
<1>2. run'.pc = "turn" /\ run'.turn = 1
  BY <1>1 DEF BudgetInv, OrderInv, IInv, TypeOK, Locals
<1>3. OrderInv'
  <2>1. \A u \in Turns : ~(u < 1)
    BY Limits DEF Turns
  <2> QED
    BY <1>1, <1>2, <2>1 DEF BudgetInv, OrderInv, Settled
<1>4. CostBefore(llmStep', toolStep', run'.turn) <= run'.cost
  BY <1>2, RecordTypes, CostsAreNat
<1>5. PaidInv'
  BY <1>2, <1>4 DEF PaidInv
<1> QED
  BY <1>1, <1>3, <1>5, BudgetSame DEF BudgetInv

(* What a turn that is not settled leaves for the later ones.              *)
LEMMA NothingLater ==
    ASSUME IInv, OrderInv, NEW t \in Turns, ~Settled(t)
    PROVE  /\ \A u \in Turns : u > t => llmStep[u] = None
           /\ \A u \in Turns, i \in Slots : u > t => toolStep[<<u, i>>] = None
<1>1. \A u \in Turns : u > t => llmStep[u] = None
  <2> SUFFICES ASSUME NEW u \in Turns, u > t, llmStep[u] # None PROVE FALSE
    OBVIOUS
  <2>1. t < u
    BY DEF Turns
  <2> QED
    BY <2>1 DEF OrderInv
<1> QED
  BY <1>1 DEF IInv, StepsAsked, Has

-----------------------------------------------------------------------------
(* The reply of a turn.                                                    *)
LEMMA ReplyRecords ==
    ASSUME IInv, BudgetInv, IInv', NEW reply \in LLMResults, LLMTurn(reply)
    PROVE  /\ run.pc = "turn" /\ ~Exhausted(run.cost) /\ UNCHANGED toolStep
           /\ llmStep'[run.turn] = reply
           /\ \A u \in Turns : u # run.turn => llmStep'[u] = llmStep[u]
           /\ llmStep[run.turn] # None => llmStep' = llmStep
           /\ CostBefore(llmStep', toolStep', run.turn) <= run.cost
<1>1. /\ run.pc = "turn" /\ ~Exhausted(run.cost) /\ UNCHANGED toolStep
      /\ llmStep' = [llmStep EXCEPT ![run.turn] = reply] /\ reply \in RepliesAt(run.turn)
  BY DEF LLMTurn, Active
<1>2. run.turn \in Turns /\ reply # None
  BY RecordTypes, ReplyFacts
<1>3. /\ llmStep'[run.turn] = reply
      /\ \A u \in Turns : u # run.turn => llmStep'[u] = llmStep[u]
      /\ llmStep[run.turn] # None => llmStep' = llmStep
  BY <1>1, <1>2 DEF RepliesAt, IInv, TypeOK
<1>4. \A u \in Turns : u < run.turn => llmStep[u] = llmStep'[u]
  BY <1>2, <1>3 DEF Turns
<1>5. CostBefore(llmStep, toolStep, run.turn) = CostBefore(llmStep', toolStep', run.turn)
  <2>1. \A u \in Turns, i \in Slots :
           u < run.turn => toolStep[<<u, i>>] = toolStep'[<<u, i>>]
    BY <1>1
  <2>2. /\ llmStep \in LLMRecords /\ toolStep \in ToolRecords
        /\ llmStep' \in LLMRecords /\ toolStep' \in ToolRecords
    BY RecordTypes
  <2> QED
    BY <1>2, <1>4, <2>1, <2>2, CostSame
<1>6. CostBefore(llmStep, toolStep, run.turn) <= run.cost
  BY <1>1 DEF BudgetInv, PaidInv
<1> QED
  BY <1>1, <1>3, <1>5, <1>6

LEMMA ReplyOrder ==
    ASSUME IInv, BudgetInv, IInv', NEW reply \in LLMResults, LLMTurn(reply)
    PROVE  OrderInv'
<1>1. /\ run.pc = "turn" /\ UNCHANGED toolStep /\ llmStep'[run.turn] = reply
      /\ \A u \in Turns : u # run.turn => llmStep'[u] = llmStep[u]
      /\ llmStep[run.turn] # None => llmStep' = llmStep
  BY ReplyRecords
<1>2. run.turn \in Turns /\ run'.turn \in Turns /\ reply # None
  BY RecordTypes, ReplyFacts
<1>3. \A u \in Turns : Settled(u) => Settled(u)'
  BY <1>1 DEF Settled
<1>4. \A u \in Turns : u < run.turn => Settled(u)
  BY <1>1 DEF BudgetInv, OrderInv, InLoop
<1>5. ASSUME NEW t \in Turns, NEW u \in Turns, u < t, llmStep'[t] # None
      PROVE  Settled(u)'
  <2>1. CASE t = run.turn
    BY <1>3, <1>4, <1>5, <2>1
  <2>2. CASE t # run.turn
    BY <1>1, <1>3, <1>5, <2>2 DEF BudgetInv, OrderInv
  <2> QED
    BY <2>1, <2>2
<1>6. ASSUME NEW u \in Turns, InLoop', u < run'.turn
      PROVE  Settled(u)'
  <2>1. CASE run'.turn = run.turn
    BY <1>3, <1>4, <1>6, <2>1
  <2>2. CASE reply.kind = "discover" /\ run'.turn = run.turn + 1
    <3>1. DOMAIN reply.batch = {}
      BY <2>2, ReplyFacts
    <3>2. u = run.turn => Settled(u)'
      BY <1>1, <1>2, <3>1 DEF Settled
    <3>3. u < run.turn \/ u = run.turn
      BY <1>2, <1>6, <2>2 DEF Turns
    <3> QED
      BY <1>3, <1>4, <3>2, <3>3
  <2> QED
    BY <1>6, <2>1, <2>2, ReplyMoves DEF InLoop
<1>7. run'.pc # "start"
  BY ReplyMoves
<1> QED
  BY <1>5, <1>6, <1>7 DEF OrderInv

(* A reply without tool calls has no tool records.                         *)
LEMMA NoTools ==
    ASSUME IInv, NEW t \in Turns, llmStep[t] # None => DOMAIN llmStep[t].batch = {}
    PROVE  RowCost(toolStep, t) = 0
<1>1. \A i \in Slots : toolStep[<<t, i>>] = None
  BY DEF IInv, StepsAsked, Has
<1>2. toolStep \in ToolRecords
  BY DEF IInv, TypeOK, ToolRecords
<1>3. {} \in SUBSET Slots /\ \A i \in {} : toolStep[<<t, i>>] # None
  OBVIOUS
<1>4. RowCost(toolStep, t) = Total(RowOf(toolStep, t, {}), {})
  BY <1>1, <1>2, <1>3, RowFacts
<1> QED
  BY <1>4, TotalEmpty

LEMMA ReplyPaid ==
    ASSUME IInv, BudgetInv, IInv', NEW reply \in LLMResults, LLMTurn(reply)
    PROVE  PaidInv'
<1> DEFINE c == CostBefore(llmStep', toolStep', run.turn)
<1>1. /\ UNCHANGED toolStep /\ llmStep'[run.turn] = reply /\ c <= run.cost
      /\ llmStep[run.turn] # None => llmStep' = llmStep
  BY ReplyRecords
<1>2. run.turn \in Turns /\ reply # None /\ reply.cost \in Nat /\ run.cost \in Nat
      /\ c \in Nat
  BY RecordTypes, ReplyFacts, CostsAreNat
<1>3. run'.cost = run.cost + reply.cost
  BY ReplyMoves
<1> HIDE DEF c
<1>4. CASE run'.pc = "turn"
  <2>1. reply.kind = "discover" /\ run'.turn = run.turn + 1
    BY <1>4, ReplyMoves
  <2>2. DOMAIN reply.batch = {}
    BY <2>1, ReplyFacts
  <2>3. RowCost(toolStep, run.turn) = 0
    <3>1. llmStep[run.turn] # None => llmStep[run.turn] = reply
      BY <1>1
    <3> QED
      BY <1>2, <2>2, <3>1, NoTools
  <2>4. CostBefore(llmStep', toolStep', run.turn + 1) =
          c + CostOf(reply) + RowCost(toolStep', run.turn)
    BY <1>1, <1>2, RecordTypes, CostStep DEF c
  <2>5. CostOf(reply) = reply.cost /\ RowCost(toolStep', run.turn) = 0
    BY <1>1, <1>2, <2>3 DEF CostOf
  <2>6. CostBefore(llmStep', toolStep', run'.turn) <= run'.cost
    BY <1>1, <1>2, <1>3, <2>1, <2>4, <2>5
  <2> QED
    BY <1>4, <2>6 DEF PaidInv
<1>5. CASE run'.pc = "tools"
  <2>1. run'.turn = run.turn /\ run'.cost + Len(reply.batch) * Estimate <= Budget
    BY <1>5, ReplyMoves
  <2>2. CostBefore(llmStep', toolStep', run'.turn) + reply.cost <= run'.cost
    BY <1>1, <1>2, <1>3, <2>1 DEF c
  <2>3. Batch' = reply.batch
    BY <1>1, <2>1 DEF Batch
  <2> QED
    BY <1>1, <1>5, <2>1, <2>2, <2>3 DEF PaidInv
<1>6. CASE run'.pc \notin {"turn", "tools"}
  BY <1>6 DEF PaidInv
<1> QED
  BY <1>4, <1>5, <1>6

LEMMA ReplyBudget ==
    ASSUME IInv, BudgetInv, IInv', NEW reply \in LLMResults, LLMTurn(reply)
    PROVE  BudgetRespected'
<1>1. /\ ~Exhausted(run.cost) /\ UNCHANGED toolStep /\ llmStep'[run.turn] = reply
      /\ \A u \in Turns : u # run.turn => llmStep'[u] = llmStep[u]
      /\ llmStep[run.turn] # None => llmStep' = llmStep
      /\ CostBefore(llmStep', toolStep', run.turn) <= run.cost
  BY ReplyRecords
<1>2. CASE llmStep[run.turn] # None
  BY <1>1, <1>2, BudgetSame DEF BudgetInv
<1>3. CASE llmStep[run.turn] = None
  <2>1. /\ run.turn \in Turns /\ reply # None /\ reply.cost \in LLMCosts
        /\ reply.cost \in Nat /\ run.cost \in Nat
    BY RecordTypes, ReplyFacts
  <2>2. /\ \A u \in Turns : u > run.turn => llmStep[u] = None
        /\ \A u \in Turns, i \in Slots : u > run.turn => toolStep[<<u, i>>] = None
    BY <1>3, <2>1, NothingLater DEF BudgetInv, Settled
  <2>3. /\ \A u \in Turns : u > run.turn => llmStep'[u] = None
        /\ \A u \in Turns, i \in Slots : u > run.turn => toolStep'[<<u, i>>] = None
    <3>1. \A u \in Turns : u > run.turn => u # run.turn
      BY <2>1 DEF Turns
    <3> QED
      BY <1>1, <2>2, <3>1
  <2>4. RowCost(toolStep', run.turn) = 0
    <3>1. RowCost(toolStep, run.turn) = 0
      BY <1>3, <2>1, NoTools
    <3> QED
      BY <1>1, <3>1
  <2>5. LoopCost' = CostBefore(llmStep', toolStep', run.turn) + CostOf(reply)
                      + RowCost(toolStep', run.turn)
    BY <1>1, <2>1, <2>3, LoopCostIs, RecordTypes, CostOfAll
  <2>6. CostBefore(llmStep', toolStep', run.turn) \in Nat /\ CostOf(reply) = reply.cost
    BY <2>1, RecordTypes, CostsAreNat DEF CostOf
  <2>7. LoopCost' <= run.cost + reply.cost
    BY <1>1, <2>1, <2>4, <2>5, <2>6
  <2>8. run.cost < Budget /\ Budget \in Nat
    BY <1>1, <2>1, Limits DEF Exhausted
  <2>9. reply.cost <= Max(LLMCosts) /\ Max(LLMCosts) \in Nat
    BY <2>1, MaxCosts
  <2>10. LoopCost' < Budget + Max(LLMCosts)
    <3>1. PICK n \in Nat : n = LoopCost'
      BY <2>1, <2>4, <2>5, <2>6
    <3> QED
      BY <2>1, <2>7, <2>8, <2>9, <3>1
  <2> QED
    BY <2>10 DEF BudgetRespected
<1> QED
  BY <1>2, <1>3

-----------------------------------------------------------------------------
(* A tool's record: n calls were estimated within the budget.              *)
LEMMA Overrun ==
    ASSUME NEW a \in Nat, NEW n \in Nat, n >= 1, n <= MaxBatch,
           a + n * Estimate <= Budget, NEW x \in Nat, x <= a + n * Max(ToolCosts)
    PROVE  \/ x < Budget + Max(LLMCosts)
           \/ x <= Budget + MaxBatch * (Max(ToolCosts) - Estimate)
<1>1. PICK m \in Nat, k \in Nat, b \in Nat, e \in Nat, w \in Nat :
         m = Max(ToolCosts) /\ k = MaxBatch /\ b = Budget /\ e = Estimate /\ w = Max(LLMCosts)
  BY Limits, MaxCosts
<1>2. n <= k /\ a + n * e <= b /\ x <= a + n * m
  BY <1>1
<1>3. CASE m >= e
  <2>1. PICK d \in Nat : m = e + d
    <3>1. m - e \in Nat /\ m = e + (m - e)
      BY <1>3
    <3> QED
      BY <3>1
  <2>2. PICK j \in Nat : k = n + j
    <3>1. k - n \in Nat /\ k = n + (k - n)
      BY <1>2
    <3> QED
      BY <3>1
  <2>3. n * m = n * e + n * d /\ m - e = d
    BY <2>1
  <2>4. k * d = n * d + j * d /\ j * d \in Nat
    BY <2>2
  <2>5. n * d \in Nat /\ n * e \in Nat
    OBVIOUS
  <2>6. x <= b + n * d
    BY <1>2, <2>3, <2>5
  <2>7. x <= b + k * d
    BY <2>4, <2>5, <2>6
  <2> QED
    BY <1>1, <2>3, <2>7
<1>4. CASE m < e
  <2>1. PICK d \in Nat : e = m + d /\ d >= 1
    <3>1. e - m \in Nat /\ e = m + (e - m) /\ e - m >= 1
      BY <1>4
    <3> QED
      BY <3>1
  <2>2. n * e = n * m + n * d
    BY <2>1
  <2>3. PICK j \in Nat, i \in Nat : n = 1 + j /\ d = 1 + i
    <3>1. n - 1 \in Nat /\ n = 1 + (n - 1) /\ d - 1 \in Nat /\ d = 1 + (d - 1)
      BY <2>1
    <3> QED
      BY <3>1
  <2>4. n * d = 1 + i + j + j * i /\ j * i \in Nat
    BY <2>3
  <2>5. n * d \in Nat /\ n * d >= 1 /\ n * m \in Nat
    BY <2>4
  <2>6. x < b + w
    BY <1>2, <2>2, <2>5
  <2> QED
    BY <1>1, <2>6
<1> QED
  BY <1>1, <1>3, <1>4

LEMMA RecordFacts ==
    ASSUME IInv, BudgetInv, IInv', NEW i, ToolRecord(i)
    PROVE  /\ run.pc = "tools" /\ i \in DOMAIN Batch /\ i \in Slots
           /\ run.turn \in Turns /\ llmStep[run.turn] \in LLMResults
           /\ UNCHANGED <<llmStep, run>>
           /\ toolStep[<<run.turn, i>>] = None /\ toolStep'[<<run.turn, i>>] # None
           /\ \A p \in Turns \X Slots : p # <<run.turn, i>> => toolStep'[p] = toolStep[p]
           /\ CostBefore(llmStep', toolStep', run.turn)
                = CostBefore(llmStep, toolStep, run.turn)
<1>1. /\ run.pc = "tools" /\ i \in DOMAIN Batch /\ tool[i].st = "cached"
      /\ toolStep' = [toolStep EXCEPT ![<<run.turn, i>>] = tool[i].entry]
      /\ UNCHANGED <<llmStep, run>>
  BY DEF ToolRecord, InBatch, Active
<1>2. i \in Slots /\ run.turn \in Turns /\ llmStep[run.turn] \in LLMResults
  BY <1>1, BatchFacts
<1>3. toolStep[<<run.turn, i>>] = None /\ tool[i].entry # None
  BY <1>1, EntryFacts DEF IInv, HandInv
<1>4. /\ toolStep'[<<run.turn, i>>] # None
      /\ \A p \in Turns \X Slots : p # <<run.turn, i>> => toolStep'[p] = toolStep[p]
  BY <1>1, <1>2, <1>3 DEF IInv, TypeOK
<1>5. CostBefore(llmStep, toolStep, run.turn) = CostBefore(llmStep', toolStep', run.turn)
  <2>1. ASSUME NEW u \in Turns, NEW j \in Slots, u < run.turn
        PROVE  toolStep[<<u, j>>] = toolStep'[<<u, j>>]
    <3>1. <<u, j>> # <<run.turn, i>> /\ <<u, j>> \in Turns \X Slots
      BY <1>2, <2>1 DEF Turns
    <3> QED
      BY <1>4, <3>1
  <2>2. /\ llmStep \in LLMRecords /\ toolStep \in ToolRecords
        /\ llmStep' \in LLMRecords /\ toolStep' \in ToolRecords
    BY RecordTypes
  <2>3. \A u \in Turns : u < run.turn => llmStep[u] = llmStep'[u]
    BY <1>1
  <2> QED
    BY <1>2, <2>1, <2>2, <2>3, CostSame
<1> QED
  BY <1>1, <1>2, <1>3, <1>4, <1>5

LEMMA RecordBudget ==
    ASSUME IInv, BudgetInv, IInv', NEW i, ToolRecord(i)
    PROVE  BudgetRespected'
<1> DEFINE t == run.turn
           n == Len(Batch)
           D == DOMAIN Batch
<1>1. /\ run.pc = "tools" /\ i \in D /\ i \in Slots
      /\ t \in Turns /\ llmStep[t] \in LLMResults /\ UNCHANGED <<llmStep, run>>
      /\ toolStep[<<t, i>>] = None
      /\ \A p \in Turns \X Slots : p # <<t, i>> => toolStep'[p] = toolStep[p]
      /\ CostBefore(llmStep', toolStep', t) = CostBefore(llmStep, toolStep, t)
  BY RecordFacts
<1>2. /\ n \in Nat /\ n >= 1 /\ n <= MaxBatch /\ D = 1..n /\ D \in SUBSET Slots
      /\ llmStep[t].cost \in Nat /\ llmStep[t] # None
  <2>1. /\ Len(Batch) \in 0..MaxBatch /\ D = 1..n /\ D \subseteq Slots
        /\ llmStep[t].cost \in Nat /\ llmStep[t] # None
    BY <1>1, ReplyFacts DEF Batch
  <2>2. llmStep[t].kind = "calls"
    BY <1>1 DEF IInv, HandInv
  <2>3. n >= 1
    BY <1>1, <2>2, ReplyFacts DEF Batch
  <2> QED
    BY <2>1, <2>3, Limits
<1>3. /\ CostBefore(llmStep, toolStep, t) + llmStep[t].cost <= run.cost
      /\ run.cost + n * Estimate <= Budget
  BY <1>1 DEF BudgetInv, PaidInv
<1>4. ~Settled(t)
  BY <1>1 DEF Settled, Batch
<1>5. /\ \A u \in Turns : u > t => llmStep'[u] = None
      /\ \A u \in Turns, j \in Slots : u > t => toolStep'[<<u, j>>] = None
  <2>1. /\ \A u \in Turns : u > t => llmStep[u] = None
        /\ \A u \in Turns, j \in Slots : u > t => toolStep[<<u, j>>] = None
    BY <1>1, <1>4, NothingLater DEF BudgetInv
  <2>2. ASSUME NEW u \in Turns, NEW j \in Slots, u > t
        PROVE  toolStep'[<<u, j>>] = None
    <3>1. <<u, j>> # <<t, i>> /\ <<u, j>> \in Turns \X Slots
      BY <1>1, <2>2 DEF Turns
    <3> QED
      BY <1>1, <2>1, <2>2, <3>1
  <2> QED
    BY <1>1, <2>1, <2>2
<1>6. /\ llmStep' \in LLMRecords /\ toolStep' \in ToolRecords /\ run.cost \in Nat
  BY RecordTypes
<1>7. LoopCost' = CostBefore(llmStep', toolStep', t) + CostOf(llmStep'[t])
                    + RowCost(toolStep', t)
  BY <1>1, <1>5, <1>6, LoopCostIs, CostOfAll
<1>8. RowCost(toolStep', t) <= n * Max(ToolCosts) /\ RowCost(toolStep', t) \in Nat
  <2>1. \A j \in Slots : toolStep'[<<t, j>>] # None => j \in D
    <3>1. \A j \in Slots : toolStep'[<<t, j>>] # None => Has(t, j)'
      BY <1>1 DEF IInv, StepsAsked
    <3> QED
      BY <1>1, <3>1 DEF Has, Batch
  <2>2. Cardinality(D) = n
    BY <1>2, FS_Interval
  <2>3. RowCost(toolStep', t) <= Cardinality(D) * Max(ToolCosts)
    <3> HIDE DEF D, t
    <3> QED
      BY <1>1, <1>2, <1>6, <2>1, RowFacts
  <2> QED
    BY <1>1, <1>6, <2>2, <2>3, CostsAreNat
<1>9. CostOf(llmStep'[t]) = llmStep[t].cost
  BY <1>1, <1>2 DEF CostOf
<1>10. CostBefore(llmStep', toolStep', t) \in Nat
  BY <1>1, <1>6, CostsAreNat
<1> HIDE DEF t, n, D
<1>11. LoopCost' \in Nat /\ LoopCost' <= run.cost + n * Max(ToolCosts)
  <2>1. PICK b \in Nat, l \in Nat, r \in Nat, m \in Nat :
           /\ b = CostBefore(llmStep', toolStep', t) /\ l = llmStep[t].cost
           /\ r = RowCost(toolStep', t) /\ m = Max(ToolCosts)
    BY <1>2, <1>8, <1>10, MaxCosts
  <2>2. LoopCost' = b + l + r /\ b + l <= run.cost /\ r <= n * m
    BY <1>1, <1>3, <1>7, <1>8, <1>9, <2>1
  <2>3. n * m \in Nat
    BY <1>2, <2>1
  <2>4. b + l + r \in Nat /\ b + l + r <= run.cost + n * m
    BY <1>6, <2>1, <2>2, <2>3
  <2> QED
    BY <2>1, <2>2, <2>4
<1>12. \/ LoopCost' < Budget + Max(LLMCosts)
       \/ LoopCost' <= Budget + MaxBatch * (Max(ToolCosts) - Estimate)
  <2>1. PICK x \in Nat : x = LoopCost'
    BY <1>11
  <2>2. x <= run.cost + n * Max(ToolCosts)
    BY <1>11, <2>1
  <2>3. \/ x < Budget + Max(LLMCosts)
        \/ x <= Budget + MaxBatch * (Max(ToolCosts) - Estimate)
    BY <1>2, <1>3, <1>6, <2>2, Overrun
  <2> QED
    BY <2>1, <2>3
<1> QED
  BY <1>12 DEF BudgetRespected

LEMMA RecordKeepsBudget ==
    ASSUME IInv, BudgetInv, IInv', NEW i, ToolRecord(i)
    PROVE  BudgetInv'
<1>1. /\ run.pc = "tools" /\ run.turn \in Turns
      /\ UNCHANGED <<llmStep, run>> /\ toolStep'[<<run.turn, i>>] # None
      /\ \A p \in Turns \X Slots : p # <<run.turn, i>> => toolStep'[p] = toolStep[p]
      /\ CostBefore(llmStep', toolStep', run.turn)
           = CostBefore(llmStep, toolStep, run.turn)
  BY RecordFacts
<1>2. ASSUME NEW u \in Turns, Settled(u)
      PROVE  Settled(u)'
  <2>1. llmStep[u] # None /\ DOMAIN llmStep[u].batch \subseteq Slots
    BY <1>2, ReplyFacts DEF Settled, IInv, TypeOK
  <2>2. \A j \in DOMAIN llmStep[u].batch : toolStep'[<<u, j>>] # None
    BY <1>1, <1>2, <2>1 DEF Settled
  <2> QED
    BY <1>1, <2>1, <2>2 DEF Settled
<1>3. OrderInv'
  BY <1>1, <1>2 DEF BudgetInv, OrderInv, InLoop
<1>4. PaidInv'
  BY <1>1 DEF BudgetInv, PaidInv, Batch
<1> QED
  BY <1>3, <1>4, RecordBudget DEF BudgetInv

-----------------------------------------------------------------------------
(* The end of a turn.                                                      *)
LEMMA RowIsToolCost ==
    ASSUME IInv, NEW t \in Turns, Settled(t)
    PROVE  RowCost(toolStep, t) = ToolCost(t)
<1> DEFINE D == DOMAIN llmStep[t].batch
<1>1. llmStep[t] \in LLMResults /\ toolStep \in ToolRecords
  BY RecordedReply DEF Settled, IInv, TypeOK, ToolRecords
<1>2. D \in SUBSET Slots /\ \A i \in D : toolStep[<<t, i>>] # None
  BY <1>1, ReplyFacts DEF Settled
<1>3. \A i \in Slots : toolStep[<<t, i>>] # None => i \in D
  BY DEF IInv, StepsAsked, Has
<1>4. IsFiniteSet(D)
  BY <1>2, FiniteRanges, FS_Subset
<1>5. ToolCost(t) = Total(RowOf(toolStep, t, D), D)
  BY <1>4, ToolCostIs
<1>6. RowCost(toolStep, t) = Total(RowOf(toolStep, t, D), D)
  <2> HIDE DEF D
  <2> QED
    BY <1>1, <1>2, <1>3, RowFacts
<1> QED
  BY <1>5, <1>6

LEMMA EndTurnKeepsBudget ==
    ASSUME IInv, BudgetInv, IInv', EndTurn
    PROVE  BudgetInv'
<1> DEFINE t == run.turn
           D == DOMAIN Batch
<1>1. UNCHANGED <<llmStep, toolStep>>
  BY DEF EndTurn
<1>2. /\ run.pc = "tools" /\ \A i \in D : toolStep[<<t, i>>] \in Entries
      /\ ToolCost(t) \in Nat /\ run'.cost = run.cost + ToolCost(t)
      /\ \/ run'.pc \in {"recover", "finalize"}
         \/ run'.pc = "turn" /\ run'.turn = t + 1
  BY EndTurnFacts
<1>3. CASE run'.pc \in {"recover", "finalize"}
  BY <1>1, <1>3, LeaveKeeps DEF InLoop
<1>4. CASE run'.pc = "turn" /\ run'.turn = t + 1
  <2>1. /\ t \in Turns /\ llmStep[t] \in LLMResults /\ D \in SUBSET Slots
        /\ llmStep[t] # None /\ llmStep[t].cost \in Nat
    BY <1>2, BatchFacts, ReplyFacts
  <2>2. \A i \in D : toolStep[<<t, i>>] # None
    BY <1>2, EntryFacts
  <2>3. Settled(t)
    BY <2>1, <2>2 DEF Settled, Batch
  <2>4. OrderInv'
    <3>1. \A u \in Turns : Settled(u) => Settled(u)'
      BY <1>1 DEF Settled
    <3>2. \A u \in Turns : u < t + 1 => u < t \/ u = t
      BY <2>1 DEF Turns
    <3>3. \A u \in Turns : u < t => Settled(u)
      BY <1>2 DEF BudgetInv, OrderInv, InLoop
    <3>4. \A u \in Turns : u < run'.turn => Settled(u)'
      BY <1>4, <2>3, <3>1, <3>2, <3>3
    <3>5. run'.pc # "start"
      BY <1>4
    <3> QED
      BY <1>1, <3>1, <3>4, <3>5 DEF BudgetInv, OrderInv
  <2>5. RowCost(toolStep, t) = ToolCost(t)
    BY <2>1, <2>3, RowIsToolCost
  <2>6. CostBefore(llmStep, toolStep, t + 1) =
          CostBefore(llmStep, toolStep, t) + llmStep[t].cost + ToolCost(t)
    BY <2>1, <2>5, RecordTypes, CostStep DEF CostOf
  <2>7. CostBefore(llmStep, toolStep, t) + llmStep[t].cost <= run.cost
    BY <1>2 DEF BudgetInv, PaidInv
  <2>8. run.cost \in Nat /\ CostBefore(llmStep, toolStep, t) \in Nat
    BY <2>1, RecordTypes, CostsAreNat
  <2>9. CostBefore(llmStep, toolStep, t + 1) <= run'.cost
    <3> HIDE DEF t, D
    <3> QED
      BY <1>2, <2>1, <2>6, <2>7, <2>8
  <2>10. PaidInv'
    BY <1>1, <1>4, <2>9 DEF PaidInv
  <2> QED
    BY <1>1, <2>4, <2>10, BudgetSame DEF BudgetInv
<1> QED
  BY <1>2, <1>3, <1>4

LEMMA OutsideKeepsBudget ==
    ASSUME IInv, BudgetInv,
           \/ BudgetStops \/ WallClockStops \/ TurnFails \/ Crash
           \/ Recover \/ Finalize \/ Cleanup \/ CleanupRecord
    PROVE  BudgetInv'
<1>1. UNCHANGED <<llmStep, toolStep>>
  BY DEF BudgetStops, WallClockStops, TurnFails, Crash, Recover, Finalize, Cleanup,
         CleanupRecord, durable
<1>2. run \in Locals /\ [run EXCEPT !.text = TRUE] \in Locals
  BY DEF IInv, TypeOK, Locals
<1>3. \/ run'.pc \in {"recover", "finalize", "cleanup", "record", "return"}
      \/ run'.pc = "start" /\ run'.turn = 1
  <2>1. CASE BudgetStops \/ WallClockStops \/ TurnFails
    BY <1>2, <2>1, AfterLoopFacts DEF BudgetStops, WallClockStops, TurnFails
  <2>2. CASE Crash
    BY <2>2 DEF Crash, Fresh
  <2>3. CASE Recover
    BY <2>3, RecoverFacts
  <2>4. CASE Finalize \/ Cleanup \/ CleanupRecord
    BY <1>2, <2>4 DEF Finalize, Cleanup, CleanupRecord, Locals
  <2> QED
    BY <2>1, <2>2, <2>3, <2>4
<1>4. ~InLoop' /\ (run'.pc = "start" => run'.turn = 1)
  BY <1>3 DEF InLoop
<1> QED
  BY <1>1, <1>4, LeaveKeeps

LEMMA BudgetNext == IInv /\ IInv' /\ BudgetInv /\ [Next]_vars => BudgetInv'
<1> SUFFICES ASSUME IInv, IInv', BudgetInv, [Next]_vars PROVE BudgetInv'
  OBVIOUS
<1>1. CASE \/ BudgetStops \/ WallClockStops \/ TurnFails \/ Crash
           \/ Recover \/ Finalize \/ Cleanup \/ CleanupRecord
  BY <1>1, OutsideKeepsBudget
<1>2. CASE \/ LimitReached \/ RunThrows \/ Return \/ UNCHANGED vars
           \/ \E i \in Slots : ToolRun(i) \/ ToolCache(i) \/ ToolRetry(i)
  <2>1. UNCHANGED <<llmStep, toolStep, run>>
    BY <1>2 DEF LimitReached, RunThrows, Return, vars, ToolRun, ToolCache, ToolRetry,
                durable
  <2> QED
    BY <2>1, StayKeeps
<1>3. CASE Start
  BY <1>3, StartKeepsBudget
<1>4. CASE \E reply \in LLMResults : LLMTurn(reply)
  BY <1>4, ReplyOrder, ReplyPaid, ReplyBudget DEF BudgetInv
<1>5. CASE \E i \in Slots : ToolRecord(i)
  BY <1>5, RecordKeepsBudget
<1>6. CASE EndTurn
  BY <1>6, EndTurnKeepsBudget
<1> QED
  BY <1>1, <1>2, <1>3, <1>4, <1>5, <1>6 DEF Next, Progress, ToolStep

LEMMA BudgetInit == Init => BudgetInv
<1> SUFFICES ASSUME Init PROVE BudgetInv
  OBVIOUS
<1>1. /\ \A t \in Turns : llmStep[t] = None
      /\ \A p \in Turns \X Slots : toolStep[p] = None
      /\ run.pc = "start" /\ run.turn = 1
  BY DEF Init, Fresh
<1>2. OrderInv /\ PaidInv
  BY <1>1 DEF OrderInv, PaidInv, InLoop
<1>3. LoopCost = 0
  <2>1. \A t \in Turns : CostsOf(llmStep, Turns)[t] = 0
    BY <1>1 DEF CostsOf, CostOf
  <2>2. \A p \in Turns \X Slots : CostsOf(toolStep, Turns \X Slots)[p] = 0
    BY <1>1 DEF CostsOf, CostOf
  <2>3. /\ Total(CostsOf(llmStep, Turns), Turns) = 0
        /\ Total(CostsOf(toolStep, Turns \X Slots), Turns \X Slots) = 0
    BY <2>1, <2>2, FiniteRanges, TotalZero
  <2> QED
    BY <2>3, LoopCostIs
<1>4. LoopCost < Budget + Max(LLMCosts)
  <2>1. Budget \in Nat /\ Budget >= 1
    BY RunAssumption
  <2> QED
    BY <1>3, <2>1, MaxCosts
<1> QED
  BY <1>2, <1>4 DEF BudgetInv, BudgetRespected

LEMMA BudgetInvariant == Spec => []BudgetInv
<1>1. IInv /\ IInv' /\ BudgetInv /\ [Next]_vars => BudgetInv'
  BY BudgetNext
<1>2. Init => BudgetInv
  BY BudgetInit
<1>3. QED
  BY <1>1, <1>2, Invariant, PTL DEF Spec

(* The recorded steps of the loop cost less than the budget and one LLM    *)
(* call, or no more than the budget and what the tools of one turn cost    *)
(* beyond their estimate, whatever replays do to the local cost (the two   *)
(* budget checks of run).                                                  *)
THEOREM BudgetIsRespected == Spec => []BudgetRespected
<1>1. BudgetInv => BudgetRespected
  BY DEF BudgetInv
<1>2. QED
  BY <1>1, BudgetInvariant, PTL

-----------------------------------------------------------------------------
(* Replays.  What the loop makes of the records of a turn is a function:   *)
(* r2 is where a turn that begins with the local variables r leads, if l   *)
(* are the records of the LLM steps and s those of the tool steps.         *)
AfterTools(l, s, r) ==
    LET q == [r EXCEPT !.cost = @ + RowCost(s, r.turn), !.called = TRUE,
                       !.sigs = Window(@ \o Signatures(l, s, r.turn))]
    IN IF Stuck(q.sigs) THEN AfterLoop([q EXCEPT !.text = TRUE]) ELSE Advance(q)

Complete(l, s, t) == l[t] # None /\ \A i \in DOMAIN l[t].batch : s[<<t, i>>] # None

Replied(l, s, a, r2) ==
    IF a.pc = "tools" THEN Complete(l, s, a.turn) /\ r2 = AfterTools(l, s, a)
    ELSE r2 = a

Link(l, s, r, r2) ==
    IF Exhausted(r.cost) THEN r2 = AfterLoop(r)
    ELSE l[r.turn] # None /\ Replied(l, s, AfterReply(r, l[r.turn]), r2)

(* The path of the records: f[t] are the local variables at the top of     *)
(* turn t, and f[m] those after the last turn that ended.                  *)
TopOfLoop == [Fresh EXCEPT !.pc = "turn"]
Ended == {"recover", "finalize"}

Paths(m) == [1..m -> Locals]

Path(l, s, m, f) ==
    /\ f[1] = TopOfLoop
    /\ \A t \in 1..(m - 1) :
          f[t].pc = "turn" /\ f[t].turn = t /\ Link(l, s, f[t], f[t + 1])
    /\ f[m].pc \in {"turn"} \cup Ended
    /\ f[m].pc = "turn" => f[m].turn = m

(* What run() will return of a run whose loop has ended.                   *)
Announced(r, rec) ==
    [cost |-> IF r.pc = "recover" THEN r.cost + rec.cost ELSE r.cost,
     text |-> IF r.pc = "recover" THEN rec.text ELSE r.text]

AllCost(l, s) ==
    Total(CostsOf(l, Turns), Turns) + Total(CostsOf(s, Turns \X Slots), Turns \X Slots)

(* Nothing is recorded beyond the last turn of the path.                   *)
OpenEnd(l, s, rec, fin, m, r) ==
    /\ r.cost = CostBefore(l, s, m)
    /\ \A u \in Turns : u > m => l[u] = None
    /\ Exhausted(r.cost) => l[m] = None
    /\ \A i \in Slots :
          s[<<m, i>>] # None => l[m] # None /\ AfterReply(r, l[m]).pc = "tools"
    /\ rec = None /\ fin = None

ClosedEnd(l, s, rec, fin, r) ==
    /\ r.cost = AllCost(l, s)
    /\ r.pc = "finalize" => rec = None
    /\ fin # None =>
          (r.pc = "recover" => rec # None) /\ Outcome(fin) = Announced(r, rec)

Frontier(l, s, rec, fin, m, r) ==
    IF r.pc = "turn" THEN OpenEnd(l, s, rec, fin, m, r)
    ELSE ClosedEnd(l, s, rec, fin, r)

(* Where on the path the local variables r are.                            *)
At(l, rec, r, m, f) ==
    /\ r.pc = "start" => r = Fresh
    /\ r.pc = "turn" => r.turn <= m /\ r = f[r.turn]
    /\ r.pc = "tools" =>
         /\ r.turn <= m /\ f[r.turn].pc = "turn" /\ ~Exhausted(f[r.turn].cost)
         /\ r = AfterReply(f[r.turn], l[r.turn])
    /\ r.pc = "recover" => r = f[m]
    /\ r.pc \in {"finalize", "cleanup", "record", "return"} =>
         /\ f[m].pc # "turn" /\ (f[m].pc = "recover" => rec # None)
         /\ [cost |-> r.cost, text |-> r.text] = Announced(f[m], rec)

Ends == 1..(MaxTurns + 1)
Replayed(l, s, rec, fin, r) ==
    \E m \in Ends : \E f \in Paths(m) :
       Path(l, s, m, f) /\ Frontier(l, s, rec, fin, m, f[m]) /\ At(l, rec, r, m, f)

FirstTime == crashes = 0 /\ run.pc = "start" => finalize = None

(* No trace of a start that is still to come is announced.                 *)
TraceInv == finalize # None => finalize.trace <= crashes

ReplayInv ==
    /\ ~stopped /\ ~rebased => Replayed(llmStep, toolStep, recovery, finalize, run)
    /\ FirstTime /\ TraceInv
    /\ ReplayFaithful

(* Tool steps are recorded of recorded replies.                            *)
Asked(l, s) == \A t \in Turns, i \in Slots : s[<<t, i>>] # None => l[t] # None

-----------------------------------------------------------------------------
LEMMA TopOfLoopFacts ==
    /\ TopOfLoop \in Locals /\ TopOfLoop.pc = "turn" /\ TopOfLoop.turn = 1
    /\ TopOfLoop.cost = 0
<1>1. Fresh \in Locals /\ Fresh.turn = 1 /\ Fresh.cost = 0
  BY FreshFacts DEF Fresh
<1> QED
  BY <1>1 DEF TopOfLoop, Locals

LEMMA RowSame ==
    ASSUME NEW s \in ToolRecords, NEW z \in ToolRecords, NEW t \in Turns,
           \A i \in Slots : s[<<t, i>>] = z[<<t, i>>]
    PROVE  RowCost(s, t) = RowCost(z, t)
<1> DEFINE R == {t} \X Slots
           g == CostsOf(s, Turns \X Slots)
           h == CostsOf(z, Turns \X Slots)
<1>1. IsFiniteSet(R)
  BY FiniteRanges, FS_Subset
<1>2. \A p \in R : g[p] = h[p]
  BY DEF CostsOf
<1> HIDE DEF R, g, h
<1>3. Total(g, R) = Total(h, R)
  BY <1>1, <1>2, TotalSame
<1> QED
  BY <1>3 DEF RowCost, R, g, h

LEMMA AfterToolsFacts ==
    ASSUME NEW l \in LLMRecords, NEW s \in ToolRecords, NEW r \in Locals,
           Complete(l, s, r.turn), NEW x, x = AfterTools(l, s, r)
    PROVE  /\ x \in Locals /\ x.cost = r.cost + RowCost(s, r.turn)
           /\ \/ x.pc \in Ended
              \/ x.pc = "turn" /\ x.turn = r.turn + 1 /\ r.turn < MaxTurns
<1> DEFINE w == Window(r.sigs \o Signatures(l, s, r.turn))
           c == RowCost(s, r.turn)
           q == [r EXCEPT !.cost = @ + c, !.called = TRUE, !.sigs = w]
           qt == [q EXCEPT !.text = TRUE]
<1>1. r.turn \in Turns /\ r.cost \in Nat /\ r.sigs \in Seq(Signature)
  BY DEF Locals, Signature
<1>2. l[r.turn] \in LLMResults
  BY <1>1 DEF Complete, LLMRecords
<1>3. \A i \in DOMAIN l[r.turn].batch : s[<<r.turn, i>>] \in Entries
  <2> TAKE i \in DOMAIN l[r.turn].batch
  <2>1. i \in Slots
    BY <1>2, ReplyFacts
  <2> QED
    BY <1>1, <2>1 DEF Complete, ToolRecords
<1>4. w \in Seq(Signature)
  BY <1>1, <1>2, <1>3, SignaturesType
<1>5. c \in Nat
  BY <1>1, CostsAreNat
<1> HIDE DEF w, c
<1>6. /\ q \in Locals /\ q.cost = r.cost + c /\ q.turn = r.turn
      /\ qt \in Locals /\ qt.cost = q.cost
  <2>1. r.cost + c \in Nat
    BY <1>1, <1>5
  <2>2. q \in Locals /\ q.cost = r.cost + c /\ q.turn = r.turn
    BY <1>4, <2>1 DEF Locals, Signature
  <2> HIDE DEF q
  <2> QED
    BY <2>2 DEF Locals
<1>7. x = AfterLoop(qt) \/ x = Advance(q)
  BY DEF AfterTools, w, c
<1> HIDE DEF q, qt
<1>8. CASE x = AfterLoop(qt)
  BY <1>6, <1>8, AfterLoopFacts DEF c, Ended
<1>9. CASE x = Advance(q)
  BY <1>6, <1>9, AdvanceFacts DEF c, Ended
<1> QED
  BY <1>7, <1>8, <1>9

LEMMA AfterToolsSame ==
    ASSUME NEW l, NEW k, NEW s \in ToolRecords, NEW z \in ToolRecords, NEW r,
           r.turn \in Turns, k[r.turn] = l[r.turn],
           DOMAIN l[r.turn].batch \subseteq Slots,
           \A i \in Slots : s[<<r.turn, i>>] = z[<<r.turn, i>>]
    PROVE  AfterTools(k, z, r) = AfterTools(l, s, r)
<1>1. RowCost(s, r.turn) = RowCost(z, r.turn)
  BY RowSame
<1>2. Signatures(k, z, r.turn) = Signatures(l, s, r.turn)
  BY DEF Signatures
<1> QED
  BY <1>1, <1>2 DEF AfterTools

LEMMA LinkSame ==
    ASSUME NEW l \in LLMRecords, NEW k \in LLMRecords,
           NEW s \in ToolRecords, NEW z \in ToolRecords, NEW r \in Locals, NEW x,
           k[r.turn] = l[r.turn], \A i \in Slots : s[<<r.turn, i>>] = z[<<r.turn, i>>],
           Link(l, s, r, x)
    PROVE  Link(k, z, r, x)
<1>1. CASE Exhausted(r.cost)
  BY <1>1 DEF Link
<1>2. CASE ~Exhausted(r.cost)
  <2>1. PICK a : a = AfterReply(r, l[r.turn])
    OBVIOUS
  <2>2. r.turn \in Turns /\ l[r.turn] \in LLMResults /\ Replied(l, s, a, x)
    BY <1>2, <2>1 DEF Link, LLMRecords, Locals
  <2>3. CASE a.pc # "tools"
    BY <1>2, <2>1, <2>2, <2>3 DEF Link, Replied
  <2>4. CASE a.pc = "tools"
    <3>1. a.turn = r.turn
      BY <2>1, <2>2, <2>4, AfterReplyFacts
    <3>2. Complete(l, s, a.turn) /\ x = AfterTools(l, s, a)
      BY <2>2, <2>4 DEF Replied
    <3>3. DOMAIN l[a.turn].batch \subseteq Slots
      BY <2>2, <3>1, ReplyFacts
    <3>4. Complete(k, z, a.turn)
      BY <3>1, <3>2, <3>3 DEF Complete
    <3>5. AfterTools(k, z, a) = AfterTools(l, s, a)
      BY <2>2, <3>1, <3>3, AfterToolsSame
    <3> QED
      BY <1>2, <2>1, <2>4, <3>1, <3>2, <3>4, <3>5 DEF Link, Replied, Complete
  <2> QED
    BY <2>3, <2>4
<1> QED
  BY <1>1, <1>2

LEMMA LinkUnique ==
    ASSUME NEW l, NEW s, NEW r, NEW x, NEW y, Link(l, s, r, x), Link(l, s, r, y)
    PROVE  x = y
  BY DEF Link, Replied

LEMMA LinkFacts ==
    ASSUME NEW l \in LLMRecords, NEW s \in ToolRecords, NEW r \in Locals, NEW x,
           Link(l, s, r, x)
    PROVE  /\ x \in Locals
           /\ \/ x.pc \in Ended
              \/ x.pc = "turn" /\ x.turn = r.turn + 1 /\ r.turn < MaxTurns
<1>1. CASE Exhausted(r.cost)
  BY <1>1, AfterLoopFacts DEF Link, Ended
<1>2. CASE ~Exhausted(r.cost)
  <2>1. PICK a : a = AfterReply(r, l[r.turn])
    OBVIOUS
  <2>2. l[r.turn] \in LLMResults /\ Replied(l, s, a, x)
    BY <1>2, <2>1 DEF Link, LLMRecords, Locals
  <2>3. /\ a \in Locals
        /\ \/ a.pc \in Ended
           \/ a.pc = "turn" /\ a.turn = r.turn + 1 /\ r.turn < MaxTurns
           \/ a.pc = "tools" /\ a.turn = r.turn
    BY <2>1, <2>2, AfterReplyFacts DEF Ended
  <2>4. CASE a.pc # "tools"
    BY <2>2, <2>3, <2>4 DEF Replied
  <2>5. CASE a.pc = "tools"
    <3>1. Complete(l, s, a.turn) /\ x = AfterTools(l, s, a) /\ a.turn = r.turn
      BY <2>2, <2>3, <2>5 DEF Replied, Ended
    <3> QED
      BY <2>3, <3>1, AfterToolsFacts
  <2> QED
    BY <2>4, <2>5
<1> QED
  BY <1>1, <1>2

LEMMA RowZero ==
    ASSUME NEW s \in ToolRecords, NEW t \in Turns, \A i \in Slots : s[<<t, i>>] = None
    PROVE  RowCost(s, t) = 0
<1>1. {} \in SUBSET Slots /\ \A i \in {} : s[<<t, i>>] # None
  OBVIOUS
<1>2. RowCost(s, t) = Total(RowOf(s, t, {}), {})
  BY <1>1, RowFacts
<1> QED
  BY <1>2, TotalEmpty

(* The cost of a turn that ends is that of its records.                    *)
LEMMA LinkCost ==
    ASSUME NEW l \in LLMRecords, NEW s \in ToolRecords, Asked(l, s),
           NEW r \in Locals, NEW x, NEW rec, NEW fin,
           OpenEnd(l, s, rec, fin, r.turn, r), Link(l, s, r, x)
    PROVE  x.cost = r.cost + CostOf(l[r.turn]) + RowCost(s, r.turn)
<1>1. r.turn \in Turns /\ r.cost \in Nat
  BY DEF Locals
<1>2. CASE Exhausted(r.cost)
  <2>1. x.cost = r.cost
    BY <1>2, AfterLoopFacts DEF Link
  <2>2. l[r.turn] = None /\ \A i \in Slots : s[<<r.turn, i>>] = None
    BY <1>1, <1>2 DEF OpenEnd, Asked
  <2>3. CostOf(l[r.turn]) = 0 /\ RowCost(s, r.turn) = 0
    BY <1>1, <2>2, RowZero DEF CostOf
  <2> QED
    BY <1>1, <2>1, <2>3
<1>3. CASE ~Exhausted(r.cost)
  <2>1. PICK a : a = AfterReply(r, l[r.turn])
    OBVIOUS
  <2>2. l[r.turn] \in LLMResults /\ l[r.turn] # None /\ Replied(l, s, a, x)
    BY <1>3, <2>1 DEF Link, LLMRecords, Locals
  <2>3. /\ a \in Locals /\ a.cost = r.cost + CostOf(l[r.turn])
        /\ a.pc = "tools" => a.turn = r.turn
    BY <2>1, <2>2, AfterReplyFacts DEF CostOf
  <2>4. CASE a.pc # "tools"
    <3>1. x = a
      BY <2>2, <2>4 DEF Replied
    <3>2. \A i \in Slots : s[<<r.turn, i>>] = None
      BY <2>1, <2>4 DEF OpenEnd
    <3>3. RowCost(s, r.turn) = 0
      BY <1>1, <3>2, RowZero
    <3>4. a.cost \in Nat
      BY <2>3 DEF Locals
    <3> QED
      BY <2>3, <3>1, <3>3, <3>4
  <2>5. CASE a.pc = "tools"
    <3>1. Complete(l, s, a.turn) /\ x = AfterTools(l, s, a)
      BY <2>2, <2>5 DEF Replied
    <3>2. x.cost = a.cost + RowCost(s, a.turn)
      BY <2>3, <3>1, AfterToolsFacts
    <3> QED
      BY <2>3, <2>5, <3>2
  <2> QED
    BY <2>4, <2>5
<1> QED
  BY <1>2, <1>3

(* A turn that ends at the end of the path makes it longer.                *)
LEMMA Extend ==
    ASSUME NEW l \in LLMRecords, NEW s \in ToolRecords, Asked(l, s),
           NEW m \in Ends, NEW f \in Paths(m), NEW rec, NEW fin, NEW x,
           Path(l, s, m, f), f[m].pc = "turn", OpenEnd(l, s, rec, fin, m, f[m]),
           Link(l, s, f[m], x)
    PROVE  \E n \in Ends : \E g \in Paths(n) :
              /\ Path(l, s, n, g) /\ Frontier(l, s, rec, fin, n, g[n])
              /\ g[n] = x
<1>1. /\ m \in Nat /\ m >= 1 /\ m \in 1..m /\ f[m] \in Locals /\ f[m].turn = m
      /\ m \in Turns
  <2>1. m \in Nat /\ m >= 1
    BY DEF Ends
  <2>2. m \in 1..m
    BY <2>1
  <2>3. f[m] \in Locals /\ f[m].turn = m
    BY <2>2 DEF Path, Paths
  <2> QED
    BY <2>1, <2>2, <2>3 DEF Locals
<1>2. /\ x \in Locals
      /\ \/ x.pc \in Ended
         \/ x.pc = "turn" /\ x.turn = m + 1 /\ m < MaxTurns
  BY <1>1, LinkFacts
<1> DEFINE n == m + 1
           g == [t \in 1..n |-> IF t = n THEN x ELSE f[t]]
<1>3. n \in Ends /\ n \in 1..n
  BY <1>1, Limits DEF Ends, Turns
<1>4. g \in Paths(n)
  <2>1. \A t \in 1..n : t # n => t \in 1..m
    BY <1>1
  <2> QED
    BY <1>2, <2>1 DEF Paths
<1>5. /\ g[n] = x /\ \A t \in 1..m : g[t] = f[t]
  BY <1>1
<1>6. Path(l, s, n, g)
  <2>1. g[1] = TopOfLoop
    <3>1. 1 \in 1..m
      BY <1>1
    <3> QED
      BY <1>5, <3>1 DEF Path
  <2>2. ASSUME NEW t \in 1..(n - 1)
        PROVE  g[t].pc = "turn" /\ g[t].turn = t /\ Link(l, s, g[t], g[t + 1])
    <3>1. CASE t = m
      BY <1>1, <1>5, <3>1
    <3>2. CASE t # m
      <4>1. t \in 1..(m - 1) /\ t \in 1..m /\ t + 1 \in 1..m
        BY <1>1, <3>2
      <4> QED
        BY <1>5, <4>1 DEF Path
    <3> QED
      BY <3>1, <3>2
  <2>3. g[n].pc \in {"turn"} \cup Ended /\ (g[n].pc = "turn" => g[n].turn = n)
    BY <1>2, <1>5 DEF Ended
  <2> HIDE DEF g, n
  <2> QED
    BY <2>1, <2>2, <2>3 DEF Path
<1>7. x.cost = f[m].cost + CostOf(l[m]) + RowCost(s, m) /\ f[m].cost = CostBefore(l, s, m)
  BY <1>1, LinkCost DEF OpenEnd
<1>8. Frontier(l, s, rec, fin, n, x)
  <2>1. /\ \A u \in Turns : u > m => l[u] = None
        /\ rec = None /\ fin = None
    BY DEF OpenEnd
  <2>2. \A u \in Turns, i \in Slots : u > m => s[<<u, i>>] = None
    BY <2>1 DEF Asked
  <2>3. CASE x.pc = "turn"
    <3>1. n \in Turns /\ n > m
      BY <1>1, <1>2, <2>3, Limits DEF Turns, Ended
    <3>2. x.cost = CostBefore(l, s, n)
      BY <1>1, <1>7, CostStep
    <3>3. \A u \in Turns : u > n => l[u] = None
      BY <1>1, <2>1 DEF Turns
    <3>4. l[n] = None /\ \A i \in Slots : s[<<n, i>>] = None
      BY <2>1, <2>2, <3>1
    <3> HIDE DEF n
    <3> QED
      BY <2>1, <2>3, <3>2, <3>3, <3>4 DEF Frontier, OpenEnd
  <2>4. CASE x.pc # "turn"
    <3>1. x.cost = AllCost(l, s)
      BY <1>1, <1>7, <2>1, <2>2, CostOfAll DEF AllCost
    <3> QED
      BY <2>1, <2>4, <3>1 DEF Frontier, ClosedEnd
  <2> QED
    BY <2>3, <2>4
<1> HIDE DEF g, n
<1> QED
  BY <1>3, <1>4, <1>5, <1>6, <1>8

(* Whoever ends a turn of the path is on the path afterwards.              *)
LEMMA Cross ==
    ASSUME NEW l \in LLMRecords, NEW s \in ToolRecords, Asked(l, s),
           NEW m \in Ends, NEW f \in Paths(m), NEW rec, NEW fin, NEW x,
           Path(l, s, m, f), Frontier(l, s, rec, fin, m, f[m]),
           NEW t \in 1..m, f[t].pc = "turn", Link(l, s, f[t], x)
    PROVE  Replayed(l, s, rec, fin, x)
<1> DEFINE Passes(n, g) ==
               /\ Path(l, s, n, g) /\ Frontier(l, s, rec, fin, n, g[n])
               /\ \E u \in 1..n : /\ x = g[u]
                                  /\ x.pc = "turn" => x.turn = u
                                  /\ x.pc # "turn" => u = n
<1>1. \E n \in Ends : \E g \in Paths(n) : Passes(n, g)
  <2>1. m \in Nat /\ m >= 1 /\ m \in 1..m
    BY DEF Ends
  <2>2. CASE t < m
    <3>1. t \in 1..(m - 1) /\ t + 1 \in 1..m
      BY <2>1, <2>2
    <3>2. x = f[t + 1]
      BY <3>1, LinkUnique DEF Path
    <3>3. CASE t + 1 = m
      BY <2>1, <3>2, <3>3 DEF Path
    <3>4. CASE t + 1 # m
      <4>1. t + 1 \in 1..(m - 1)
        BY <2>1, <3>1, <3>4
      <4>2. x.pc = "turn" /\ x.turn = t + 1
        BY <3>2, <4>1 DEF Path
      <4> QED
        BY <3>1, <3>2, <4>2
    <3> QED
      BY <3>3, <3>4
  <2>3. CASE t = m
    <3>1. /\ f[m].pc = "turn" /\ Link(l, s, f[m], x)
          /\ OpenEnd(l, s, rec, fin, m, f[m])
      BY <2>3 DEF Frontier
    <3>2. PICK n \in Ends : \E g \in Paths(n) :
              /\ Path(l, s, n, g) /\ Frontier(l, s, rec, fin, n, g[n])
              /\ g[n] = x
      BY <3>1, Extend
    <3>3. PICK g \in Paths(n) :
              /\ Path(l, s, n, g) /\ Frontier(l, s, rec, fin, n, g[n])
              /\ g[n] = x
      BY <3>2
    <3>4. n \in 1..n
      BY DEF Ends
    <3>5. x.pc = "turn" => x.turn = n
      BY <3>3 DEF Path
    <3> QED
      BY <3>3, <3>4, <3>5
  <2> QED
    BY <2>1, <2>2, <2>3
<1>2. PICK n \in Ends : \E g \in Paths(n) : Passes(n, g)
  BY <1>1
<1>3. PICK g \in Paths(n) : Passes(n, g)
  BY <1>2
<1>4. PICK u \in 1..n : /\ x = g[u]
                        /\ x.pc = "turn" => x.turn = u
                        /\ x.pc # "turn" => u = n
  BY <1>3
<1>5. x.pc \in {"turn"} \cup Ended
  <2>1. n \in Nat /\ u \in Nat
    BY DEF Ends
  <2>2. CASE x.pc = "turn"
    BY <2>2
  <2>3. CASE x.pc # "turn"
    BY <1>3, <1>4, <2>3 DEF Path
  <2> QED
    BY <2>2, <2>3
<1>6. At(l, rec, x, n, g)
  <2>1. x.pc = "turn" => x.turn <= n /\ x = g[x.turn]
    BY <1>4
  <2>2. x.pc # "turn" => x = g[n]
    BY <1>4
  <2>3. x.pc = "finalize" => [cost |-> x.cost, text |-> x.text] = Announced(x, rec)
    BY DEF Announced
  <2> QED
    BY <1>5, <2>1, <2>2, <2>3 DEF At, Ended
<1> QED
  BY <1>3, <1>6 DEF Replayed

(* Records that agree on the turns of the path have the same path.         *)
LEMMA PathSame ==
    ASSUME NEW l \in LLMRecords, NEW k \in LLMRecords,
           NEW s \in ToolRecords, NEW z \in ToolRecords,
           NEW m \in Ends, NEW f \in Paths(m), Path(l, s, m, f),
           \A t \in 1..(m - 1) :
              k[t] = l[t] /\ \A i \in Slots : s[<<t, i>>] = z[<<t, i>>]
    PROVE  Path(k, z, m, f)
<1>1. ASSUME NEW t \in 1..(m - 1)
      PROVE  Link(k, z, f[t], f[t + 1])
  <2>1. t \in 1..m
    BY DEF Ends
  <2>2. f[t] \in Locals /\ f[t].turn = t /\ Link(l, s, f[t], f[t + 1])
    BY <2>1 DEF Path, Paths
  <2> QED
    BY <2>2, LinkSame
<1> QED
  BY <1>1 DEF Path

LEMMA OpenEndSame ==
    ASSUME NEW l \in LLMRecords, NEW k \in LLMRecords,
           NEW s \in ToolRecords, NEW z \in ToolRecords,
           NEW rec, NEW fin, NEW m \in Turns, NEW r, OpenEnd(l, s, rec, fin, m, r),
           \A u \in Turns : u # m => k[u] = l[u],
           \A u \in Turns, i \in Slots : u # m => s[<<u, i>>] = z[<<u, i>>],
           ~Exhausted(r.cost),
           \A i \in Slots :
              z[<<m, i>>] # None => k[m] # None /\ AfterReply(r, k[m]).pc = "tools"
    PROVE  OpenEnd(k, z, rec, fin, m, r)
<1>1. \A u \in Turns : u < m \/ u > m => u # m
  BY DEF Turns
<1>2. \A u \in Turns, i \in Slots : u < m => s[<<u, i>>] = z[<<u, i>>]
  BY <1>1
<1>3. \A u \in Turns : u < m => l[u] = k[u]
  BY <1>1
<1>4. CostBefore(k, z, m) = CostBefore(l, s, m)
  BY <1>2, <1>3, CostSame
<1> QED
  BY <1>1, <1>4 DEF OpenEnd

-----------------------------------------------------------------------------
LEMMA RecordsAre ==
    ASSUME IInv, IInv'
    PROVE  /\ llmStep \in LLMRecords /\ toolStep \in ToolRecords
           /\ llmStep' \in LLMRecords /\ toolStep' \in ToolRecords
           /\ Asked(llmStep, toolStep) /\ Asked(llmStep', toolStep')
           /\ run \in Locals
<1>1. Asked(llmStep, toolStep) /\ Asked(llmStep', toolStep')
  BY DEF IInv, StepsAsked, Has, Asked
<1> QED
  BY <1>1, RecordTypes DEF IInv, TypeOK

OnPath(m, f) ==
    /\ Path(llmStep, toolStep, m, f)
    /\ Frontier(llmStep, toolStep, recovery, finalize, m, f[m])
    /\ At(llmStep, recovery, run, m, f)

LEMMA StartReplays ==
    ASSUME IInv, IInv', NEW m \in Ends, NEW f \in Paths(m), OnPath(m, f),
           Start, ~rebased'
    PROVE  Replayed(llmStep', toolStep', recovery', finalize', run')
<1>1. /\ UNCHANGED <<llmStep, toolStep, recovery, finalize>>
      /\ run.pc = "start" /\ run' = [run EXCEPT !.pc = "turn", !.cost = 0]
  <2>1. ~(snapshot > 0) /\ snapshot \in Nat
    BY DEF Start, IInv, TypeOK
  <2>2. snapshot = 0
    BY <2>1
  <2> QED
    BY <2>2 DEF Start, Active, durable
<1>2. run = Fresh
  BY <1>1 DEF OnPath, At
<1>3. run' = TopOfLoop
  <2>1. Fresh \in Locals /\ Fresh.cost = 0
    BY FreshFacts DEF Fresh
  <2> QED
    BY <1>1, <1>2, <2>1 DEF TopOfLoop, Locals
<1>4. f[1] = TopOfLoop /\ 1 <= m
  BY DEF OnPath, Path, Ends
<1>5. At(llmStep', recovery', run', m, f)
  BY <1>3, <1>4, TopOfLoopFacts DEF At
<1> QED
  BY <1>1, <1>5 DEF OnPath, Replayed

LEMMA CrashReplays ==
    ASSUME NEW m \in Ends, NEW f \in Paths(m), OnPath(m, f), Crash
    PROVE  Replayed(llmStep', toolStep', recovery', finalize', run')
<1>1. UNCHANGED <<llmStep, toolStep, recovery, finalize>> /\ run' = Fresh
  BY DEF Crash, durable
<1>2. At(llmStep', recovery', run', m, f)
  BY <1>1 DEF At, Fresh
<1> QED
  BY <1>1, <1>2 DEF OnPath, Replayed

LEMMA StopReplays ==
    ASSUME IInv, IInv', NEW m \in Ends, NEW f \in Paths(m), OnPath(m, f), BudgetStops
    PROVE  Replayed(llmStep', toolStep', recovery', finalize', run')
<1>1. /\ UNCHANGED <<llmStep, toolStep, recovery, finalize>>
      /\ run.pc = "turn" /\ Exhausted(run.cost) /\ run' = AfterLoop(run)
  BY DEF BudgetStops, Active, durable
<1>2. PICK t : t = run.turn
  OBVIOUS
<1>3. t \in 1..m /\ run = f[t] /\ f[t].pc = "turn"
  BY <1>1, <1>2, RecordsAre DEF OnPath, At, Locals, Turns, Ends
<1>4. Link(llmStep', toolStep', f[t], run')
  BY <1>1, <1>3 DEF Link
<1>5. /\ Path(llmStep', toolStep', m, f)
      /\ Frontier(llmStep', toolStep', recovery', finalize', m, f[m])
  BY <1>1 DEF OnPath
<1> QED
  BY <1>3, <1>4, <1>5, RecordsAre, Cross

LEMMA ReplyReplays ==
    ASSUME IInv, IInv', BudgetInv, NEW m \in Ends, NEW f \in Paths(m), OnPath(m, f),
           NEW reply \in LLMResults, LLMTurn(reply)
    PROVE  Replayed(llmStep', toolStep', recovery', finalize', run')
<1>1. /\ run.pc = "turn" /\ ~Exhausted(run.cost)
      /\ UNCHANGED <<toolStep, recovery, finalize>>
      /\ llmStep'[run.turn] = reply
      /\ \A u \in Turns : u # run.turn => llmStep'[u] = llmStep[u]
      /\ llmStep[run.turn] # None => llmStep' = llmStep
  BY ReplyRecords DEF LLMTurn
<1>2. run' = AfterReply(run, reply)
  BY DEF LLMTurn, AfterReply
<1>3. PICK t : t = run.turn
  OBVIOUS
<1>4. t \in 1..m /\ t \in Turns /\ t \in Nat /\ m \in Nat /\ run = f[t] /\ f[t].pc = "turn"
  BY <1>1, <1>3, RecordsAre DEF OnPath, At, Locals, Turns, Ends
<1>5. /\ Path(llmStep', toolStep', m, f)
      /\ Frontier(llmStep', toolStep', recovery', finalize', m, f[m])
  <2>1. CASE t < m
    <3>1. t \in 1..(m - 1)
      BY <1>4, <2>1
    <3>2. llmStep[t] # None
      BY <1>1, <1>4, <3>1 DEF OnPath, Path, Link
    <3> QED
      BY <1>1, <1>3, <3>2 DEF OnPath
  <2>2. CASE t = m
    <3>1. OpenEnd(llmStep, toolStep, recovery, finalize, m, f[m])
      BY <1>4, <2>2 DEF OnPath, Frontier
    <3>2. \A i \in Slots : toolStep'[<<m, i>>] # None =>
             llmStep'[m] # None /\ AfterReply(f[m], llmStep'[m]).pc = "tools"
      BY <1>1, <1>3, <2>2, <3>1 DEF OpenEnd
    <3>3. OpenEnd(llmStep', toolStep', recovery, finalize, m, f[m])
      BY <1>1, <1>3, <1>4, <2>2, <3>1, <3>2, RecordsAre, OpenEndSame
    <3>4. \A u \in 1..(m - 1) : u \in Turns /\ u # m
      BY <1>4, <2>2, Limits DEF Turns
    <3>5. \A u \in 1..(m - 1) :
             /\ llmStep'[u] = llmStep[u]
             /\ \A i \in Slots : toolStep[<<u, i>>] = toolStep'[<<u, i>>]
      BY <1>1, <1>3, <2>2, <3>4
    <3>6. Path(llmStep', toolStep', m, f)
      BY <3>5, RecordsAre, PathSame DEF OnPath
    <3> QED
      BY <1>1, <1>4, <2>2, <3>3, <3>6 DEF Frontier
  <2> QED
    BY <1>4, <2>1, <2>2
<1>6. CASE run'.pc = "tools"
  <2>1. run'.turn = t
    BY <1>2, <1>3, <1>6, RecordsAre, AfterReplyFacts
  <2>2. At(llmStep', recovery', run', m, f)
    BY <1>1, <1>2, <1>3, <1>4, <1>6, <2>1 DEF At
  <2> QED
    BY <1>5, <2>2 DEF Replayed
<1>7. CASE run'.pc # "tools"
  <2>1. reply # None
    BY ReplyFacts
  <2>2. Link(llmStep', toolStep', f[t], run')
    BY <1>1, <1>2, <1>3, <1>4, <1>7, <2>1 DEF Link, Replied
  <2> QED
    BY <1>4, <1>5, <2>2, RecordsAre, Cross
<1> QED
  BY <1>6, <1>7

LEMMA RecordReplays ==
    ASSUME IInv, IInv', BudgetInv, NEW m \in Ends, NEW f \in Paths(m), OnPath(m, f),
           NEW i, ToolRecord(i)
    PROVE  Replayed(llmStep', toolStep', recovery', finalize', run')
<1>1. /\ run.pc = "tools" /\ i \in DOMAIN Batch /\ i \in Slots
      /\ UNCHANGED <<llmStep, recovery, finalize, run>>
      /\ toolStep[<<run.turn, i>>] = None
      /\ \A p \in Turns \X Slots : p # <<run.turn, i>> => toolStep'[p] = toolStep[p]
  BY RecordFacts DEF ToolRecord
<1>2. llmStep[run.turn] # None
  BY <1>1 DEF IInv, HandInv
<1>3. PICK t : t = run.turn
  OBVIOUS
<1>4. /\ t \in 1..m /\ t \in Turns /\ t \in Nat /\ m \in Nat
      /\ f[t].pc = "turn" /\ ~Exhausted(f[t].cost) /\ run = AfterReply(f[t], llmStep[t])
  BY <1>1, <1>3, RecordsAre DEF OnPath, At, Locals, Turns, Ends
<1>5. t = m
  <2> SUFFICES ASSUME t # m PROVE FALSE
    OBVIOUS
  <2>1. t \in 1..(m - 1)
    BY <1>4
  <2>2. f[t].turn = t /\ Link(llmStep, toolStep, f[t], f[t + 1])
    BY <2>1 DEF OnPath, Path
  <2>3. Complete(llmStep, toolStep, run.turn)
    BY <1>1, <1>3, <1>4, <2>2 DEF Link, Replied
  <2> QED
    BY <1>1, <2>3 DEF Complete, Batch
<1>6. \A u \in Turns, j \in Slots : u # m => toolStep[<<u, j>>] = toolStep'[<<u, j>>]
  BY <1>1, <1>3, <1>5
<1>7. OpenEnd(llmStep', toolStep', recovery', finalize', m, f[m])
  <2>1. OpenEnd(llmStep, toolStep, recovery, finalize, m, f[m])
    BY <1>4, <1>5 DEF OnPath, Frontier
  <2>2. \A j \in Slots : toolStep'[<<m, j>>] # None =>
           llmStep'[m] # None /\ AfterReply(f[m], llmStep'[m]).pc = "tools"
    BY <1>1, <1>2, <1>3, <1>4, <1>5
  <2>3. \A u \in Turns : llmStep'[u] = llmStep[u]
    BY <1>1
  <2>4. OpenEnd(llmStep', toolStep', recovery, finalize, m, f[m])
    BY <1>4, <1>5, <1>6, <2>1, <2>2, <2>3, RecordsAre, OpenEndSame
  <2> QED
    BY <1>1, <2>4
<1>8. Path(llmStep', toolStep', m, f)
  <2>1. \A u \in 1..(m - 1) : u \in Turns /\ u # m
    BY <1>4, <1>5, Limits DEF Turns
  <2>2. \A u \in 1..(m - 1) :
           /\ llmStep'[u] = llmStep[u]
           /\ \A j \in Slots : toolStep[<<u, j>>] = toolStep'[<<u, j>>]
    BY <1>1, <1>6, <2>1
  <2> QED
    BY <2>2, RecordsAre, PathSame DEF OnPath
<1>9. Frontier(llmStep', toolStep', recovery', finalize', m, f[m])
  BY <1>4, <1>5, <1>7 DEF Frontier
<1>10. At(llmStep', recovery', run', m, f)
  BY <1>1 DEF OnPath
<1> QED
  BY <1>8, <1>9, <1>10 DEF Replayed

LEMMA EndTurnReplays ==
    ASSUME IInv, IInv', NEW m \in Ends, NEW f \in Paths(m), OnPath(m, f),
           EndTurn, ~stopped'
    PROVE  Replayed(llmStep', toolStep', recovery', finalize', run')
<1>1. UNCHANGED <<llmStep, toolStep, recovery, finalize>>
  BY DEF EndTurn
<1>2. run.pc = "tools" /\ \A i \in DOMAIN Batch : toolStep[<<run.turn, i>>] \in Entries
  BY EndTurnFacts
<1>3. run.turn \in Turns /\ llmStep[run.turn] # None
  BY <1>2, RecordsAre DEF IInv, HandInv, Locals
<1>4. Complete(llmStep, toolStep, run.turn) /\ Settled(run.turn)
  BY <1>2, <1>3, EntryFacts DEF Complete, Settled, Batch
<1>5. RowCost(toolStep, run.turn) = ToolCost(run.turn)
  BY <1>3, <1>4, RowIsToolCost
<1>6. run' = AfterTools(llmStep, toolStep, run)
  <2> DEFINE sig(i) == [tool |-> Batch[i][1], err |-> toolStep[<<run.turn, i>>].err]
             r == [run EXCEPT !.cost = @ + ToolCost(run.turn),
                              !.called = TRUE,
                              !.sigs = Window(@ \o [i \in DOMAIN Batch |-> sig(i)])]
  <2>1. run' = IF Stuck(r.sigs) THEN AfterLoop([r EXCEPT !.text = TRUE]) ELSE Advance(r)
    BY DEF EndTurn
  <2>2. r = [run EXCEPT !.cost = @ + RowCost(toolStep, run.turn), !.called = TRUE,
                        !.sigs = Window(@ \o Signatures(llmStep, toolStep, run.turn))]
    BY <1>5 DEF Signatures, Batch
  <2> HIDE DEF r
  <2> QED
    BY <2>1, <2>2 DEF AfterTools
<1>7. PICK t : t = run.turn
  OBVIOUS
<1>8. /\ t \in 1..m /\ f[t] \in Locals
      /\ f[t].pc = "turn" /\ ~Exhausted(f[t].cost) /\ run = AfterReply(f[t], llmStep[t])
  BY <1>2, <1>3, <1>7 DEF OnPath, At, Paths, Turns, Ends
<1>9. f[t].turn = t
  <2>1. llmStep[t] \in LLMResults
    BY <1>3, <1>7, RecordedReply DEF IInv
  <2>2. CASE t = m
    BY <1>8, <2>2 DEF OnPath, Path
  <2>3. CASE t # m
    <3>1. t \in 1..(m - 1)
      BY <1>8, <2>3 DEF Ends
    <3> QED
      BY <3>1 DEF OnPath, Path
  <2> QED
    BY <2>2, <2>3
<1>10. Link(llmStep', toolStep', f[t], run')
  BY <1>1, <1>2, <1>3, <1>4, <1>6, <1>7, <1>8, <1>9 DEF Link, Replied
<1>11. /\ Path(llmStep', toolStep', m, f)
       /\ Frontier(llmStep', toolStep', recovery', finalize', m, f[m])
  BY <1>1 DEF OnPath
<1> QED
  BY <1>8, <1>10, <1>11, RecordsAre, Cross

LEMMA RecoverReplays ==
    ASSUME IInv, IInv', NEW m \in Ends, NEW f \in Paths(m), OnPath(m, f), Recover
    PROVE  Replayed(llmStep', toolStep', recovery', finalize', run')
<1>1. /\ UNCHANGED <<llmStep, toolStep, finalize>> /\ run.pc = "recover"
  BY RecoverFacts
<1>2. PICK r \in LastReplies :
        /\ recovery # None => r = recovery
        /\ recovery' = r
        /\ run'.pc = "finalize" /\ run'.cost = run.cost + r.cost /\ run'.text = r.text
  BY RecoverFacts
<1>3. r # None
  <2>1. "cost" \in DOMAIN r /\ "cost" \notin DOMAIN None
    BY DEF LastReplies, None
  <2> QED
    BY <2>1
<1>4. run = f[m]
  BY <1>1 DEF OnPath, At
<1>5. ClosedEnd(llmStep, toolStep, recovery, finalize, f[m])
  BY <1>1, <1>4 DEF OnPath, Frontier
<1>6. ClosedEnd(llmStep', toolStep', recovery', finalize', f[m])
  <2>1. finalize # None => recovery' = recovery
    BY <1>1, <1>2, <1>4, <1>5 DEF ClosedEnd
  <2> QED
    BY <1>1, <1>4, <1>5, <2>1 DEF ClosedEnd
<1>7. /\ Path(llmStep', toolStep', m, f)
      /\ Frontier(llmStep', toolStep', recovery', finalize', m, f[m])
  BY <1>1, <1>4, <1>6 DEF OnPath, Frontier
<1>8. At(llmStep', recovery', run', m, f)
  BY <1>1, <1>2, <1>3, <1>4 DEF At, Announced
<1> QED
  BY <1>7, <1>8 DEF Replayed

LEMMA FinishReplays ==
    ASSUME IInv, IInv', NEW m \in Ends, NEW f \in Paths(m), OnPath(m, f),
           Finalize \/ Cleanup \/ CleanupRecord
    PROVE  Replayed(llmStep', toolStep', recovery', finalize', run')
<1>1. /\ UNCHANGED <<llmStep, toolStep, recovery>>
      /\ run.pc \in {"finalize", "cleanup", "record"}
      /\ finalize' # finalize => finalize = None /\ finalize' = Result
      /\ \E pc \in {"cleanup", "record", "return"} : run' = [run EXCEPT !.pc = pc]
  BY DEF Finalize, Cleanup, CleanupRecord, Active
<1>2. /\ run'.pc \in {"cleanup", "record", "return"}
      /\ run'.cost = run.cost /\ run'.text = run.text
  BY <1>1, RecordsAre DEF Locals
<1>3. /\ f[m].pc # "turn" /\ (f[m].pc = "recover" => recovery # None)
      /\ [cost |-> run.cost, text |-> run.text] = Announced(f[m], recovery)
  BY <1>1 DEF OnPath, At
<1>4. Frontier(llmStep', toolStep', recovery', finalize', m, f[m])
  <2>1. ClosedEnd(llmStep, toolStep, recovery, finalize, f[m])
    BY <1>3 DEF OnPath, Frontier
  <2>2. finalize' # finalize => Outcome(finalize') = Announced(f[m], recovery)
    BY <1>1, <1>3 DEF Result, Outcome
  <2>3. ClosedEnd(llmStep', toolStep', recovery', finalize', f[m])
    BY <1>1, <1>3, <2>1, <2>2 DEF ClosedEnd
  <2> QED
    BY <1>3, <2>3 DEF Frontier
<1>5. At(llmStep', recovery', run', m, f)
  BY <1>1, <1>2, <1>3 DEF At
<1> QED
  BY <1>1, <1>4, <1>5 DEF OnPath, Replayed

(* What run() returns is what was announced.                               *)
LEMMA ReturnFaithful ==
    ASSUME IInv, NEW m \in Ends, NEW f \in Paths(m), OnPath(m, f), Return,
           finalize # None, TraceInv
    PROVE  /\ Outcome(out') = Outcome(finalize) /\ out'.cost = Recorded'
           /\ crashes' = 0 => out' = finalize
<1>1. /\ UNCHANGED <<llmStep, toolStep, recovery, finalize>>
      /\ run.pc = "return" /\ out' = Result /\ crashes' = crashes
  BY DEF Return, Active, durable
<1>2. /\ f[m].pc # "turn" /\ (f[m].pc = "recover" => recovery # None)
      /\ Outcome(out') = Announced(f[m], recovery)
  BY <1>1 DEF OnPath, At, Result, Outcome
<1>3. ClosedEnd(llmStep, toolStep, recovery, finalize, f[m])
  BY <1>2 DEF OnPath, Frontier
<1>4. Outcome(out') = Outcome(finalize)
  BY <1>2, <1>3 DEF ClosedEnd
<1>5. Recorded' = AllCost(llmStep, toolStep) + CostOf(recovery)
  <2>1. LoopCost' = AllCost(llmStep, toolStep)
    BY <1>1, LoopCostIs DEF AllCost
  <2> QED
    BY <1>1, <2>1 DEF Recorded, CostOf
<1>6. AllCost(llmStep, toolStep) \in Int
  <2>1. f[m] \in Locals
    BY DEF Paths, Ends
  <2> QED
    BY <1>3, <2>1 DEF ClosedEnd, Locals
<1>7. f[m].pc \in Ended
  BY <1>2 DEF OnPath, Path
<1>8. out'.cost = AllCost(llmStep, toolStep) + CostOf(recovery)
  <2>1. out'.cost = Announced(f[m], recovery).cost
    BY <1>2 DEF Outcome, Announced
  <2>2. CASE f[m].pc = "recover"
    BY <1>2, <1>3, <2>1, <2>2 DEF ClosedEnd, Announced, CostOf
  <2>3. CASE f[m].pc = "finalize"
    BY <1>2, <1>3, <1>6, <2>1, <2>3 DEF ClosedEnd, Announced, CostOf
  <2> QED
    BY <1>7, <2>2, <2>3 DEF Ended
<1>9. crashes' = 0 => out' = finalize
  <2> SUFFICES ASSUME crashes = 0 PROVE out' = finalize
    BY <1>1
  <2>1. out' \in Results /\ finalize \in Results
    BY <1>1, ResultType DEF IInv, TypeOK
  <2>2. out'.trace = 0 /\ finalize.trace = 0
    BY <1>1, <2>1 DEF Result, Results, TraceInv
  <2>3. out'.cost = finalize.cost /\ out'.text = finalize.text
    BY <1>4 DEF Outcome
  <2> QED
    BY <2>1, <2>2, <2>3 DEF Results
<1> QED
  BY <1>4, <1>5, <1>8, <1>9

LEMMA FlagsGrow ==
    ASSUME [Next]_vars, ~stopped', ~rebased'
    PROVE  ~stopped /\ ~rebased
<1>1. CASE Start \/ LimitReached
  <2>1. CASE Start
    <3>1. rebased' = (rebased \/ snapshot > 0) /\ stopped' = stopped
      BY <2>1 DEF Start
    <3> QED
      BY <3>1
  <2>2. CASE LimitReached
    <3>1. rebased' = rebased /\ stopped' = stopped
      BY <2>2 DEF LimitReached
    <3> QED
      BY <3>1
  <2> QED
    BY <1>1, <2>1, <2>2
<1>2. CASE WallClockStops \/ TurnFails
  BY <1>2 DEF WallClockStops, TurnFails
<1>3. CASE BudgetStops \/ \E reply \in LLMResults : LLMTurn(reply)
  <2>1. UNCHANGED <<stopped, rebased>>
    BY <1>3 DEF BudgetStops, LLMTurn, history
  <2> QED
    BY <2>1
<1>4. CASE \E i \in Slots : ToolRun(i) \/ ToolCache(i) \/ ToolRecord(i) \/ ToolRetry(i)
  <2>1. UNCHANGED <<stopped, rebased>>
    BY <1>4 DEF ToolRun, ToolCache, ToolRecord, ToolRetry, history
  <2> QED
    BY <2>1
<1>5. CASE EndTurn
  BY <1>5 DEF EndTurn
<1>6. CASE RunThrows \/ Crash \/ Recover \/ Finalize \/ Cleanup \/ CleanupRecord \/ Return
  <2>1. UNCHANGED <<stopped, rebased>>
    BY <1>6 DEF RunThrows, Crash, Recover, Finalize, Cleanup, CleanupRecord, Return,
                history
  <2> QED
    BY <2>1
<1>7. CASE UNCHANGED vars
  BY <1>7 DEF vars, history
<1> QED
  BY <1>1, <1>2, <1>3, <1>4, <1>5, <1>6, <1>7 DEF Next, Progress, ToolStep

LEMMA ReplayedNext ==
    ASSUME IInv, IInv', BudgetInv, ReplayInv, [Next]_vars, ~stopped', ~rebased'
    PROVE  Replayed(llmStep', toolStep', recovery', finalize', run')
<1>1. PICK m \in Ends : \E f \in Paths(m) : OnPath(m, f)
  BY FlagsGrow DEF ReplayInv, Replayed, OnPath
<1>2. PICK f \in Paths(m) : OnPath(m, f)
  BY <1>1
<1>3. CASE \/ LimitReached \/ RunThrows \/ Return \/ UNCHANGED vars
           \/ \E i \in Slots : ToolRun(i) \/ ToolCache(i) \/ ToolRetry(i)
  <2>1. UNCHANGED <<llmStep, toolStep, recovery, finalize, run>>
    BY <1>3 DEF LimitReached, RunThrows, Return, vars, ToolRun, ToolCache, ToolRetry,
                durable
  <2> QED
    BY <1>2, <2>1 DEF OnPath, Replayed
<1>4. CASE WallClockStops \/ TurnFails
  BY <1>4 DEF WallClockStops, TurnFails
<1>5. CASE Start \/ Crash \/ BudgetStops
  BY <1>2, <1>5, StartReplays, CrashReplays, StopReplays
<1>6. CASE \E reply \in LLMResults : LLMTurn(reply)
  BY <1>2, <1>6, ReplyReplays
<1>7. CASE \E i \in Slots : ToolRecord(i)
  BY <1>2, <1>7, RecordReplays
<1>8. CASE EndTurn
  BY <1>2, <1>8, EndTurnReplays
<1>9. CASE Recover \/ Finalize \/ Cleanup \/ CleanupRecord
  BY <1>2, <1>9, RecoverReplays, FinishReplays
<1> QED
  BY <1>3, <1>4, <1>5, <1>6, <1>7, <1>8, <1>9 DEF Next, Progress, ToolStep

(* Nothing is announced before run() has begun.                            *)
LEMMA FirstTimeNext ==
    ASSUME IInv, FirstTime, [Next]_vars
    PROVE  FirstTime'
<1> SUFFICES ASSUME crashes' = 0, run'.pc = "start"
             PROVE  finalize' = None
  BY DEF FirstTime
<1>1. run \in Locals /\ crashes \in Nat
  BY Limits DEF IInv, TypeOK
<1>2. CASE Crash
  <2>1. crashes' = crashes + 1
    BY <1>2 DEF Crash
  <2> QED
    BY <1>1, <2>1
<1>3. CASE Start \/ Recover \/ Finalize \/ Cleanup \/ CleanupRecord
  BY <1>1, <1>3 DEF Start, Recover, Finalize, Cleanup, CleanupRecord, Locals
<1>4. CASE BudgetStops \/ WallClockStops \/ TurnFails
  <2>1. [run EXCEPT !.text = TRUE] \in Locals
    BY <1>1 DEF Locals
  <2> QED
    BY <1>1, <1>4, <2>1, AfterLoopFacts DEF BudgetStops, WallClockStops, TurnFails
<1>5. CASE EndTurn \/ \E reply \in LLMResults : LLMTurn(reply)
  BY <1>5, EndTurnFacts, ReplyMoves
<1>6. CASE \/ LimitReached \/ RunThrows \/ Return \/ UNCHANGED vars
           \/ \E i \in Slots : ToolRun(i) \/ ToolCache(i) \/ ToolRecord(i) \/ ToolRetry(i)
  <2>1. UNCHANGED <<run, finalize, crashes>>
    BY <1>6 DEF LimitReached, RunThrows, Return, vars, ToolRun, ToolCache, ToolRecord,
                ToolRetry, durable
  <2> QED
    BY <2>1 DEF FirstTime
<1> QED
  BY <1>2, <1>3, <1>4, <1>5, <1>6 DEF Next, Progress, ToolStep

LEMMA TraceNext ==
    ASSUME IInv, TraceInv, [Next]_vars
    PROVE  TraceInv'
<1>1. crashes \in Nat /\ (finalize # None => finalize.trace \in Nat)
  BY Limits DEF IInv, TypeOK, Results
<1>2. CASE Crash
  <2>1. crashes' = crashes + 1 /\ finalize' = finalize
    BY <1>2 DEF Crash, durable
  <2> QED
    BY <1>1, <2>1 DEF TraceInv
<1>3. CASE Finalize
  <2>1. crashes' = crashes /\ (finalize' = finalize \/ finalize' = Result)
    BY <1>3 DEF Finalize
  <2>2. Result.trace <= crashes
    BY <1>1 DEF Result
  <2> QED
    BY <2>1, <2>2 DEF TraceInv
<1>4. CASE \/ Start \/ BudgetStops \/ \E reply \in LLMResults : LLMTurn(reply)
           \/ \E i \in Slots : ToolRun(i) \/ ToolCache(i) \/ ToolRecord(i) \/ ToolRetry(i)
           \/ EndTurn \/ Recover \/ Cleanup \/ CleanupRecord \/ Return
           \/ LimitReached \/ WallClockStops \/ TurnFails \/ RunThrows
           \/ UNCHANGED vars
  <2>1. UNCHANGED <<finalize, crashes>>
    BY <1>4 DEF Start, BudgetStops, LLMTurn, ToolRun, ToolCache, ToolRecord, ToolRetry,
                EndTurn, Recover, Cleanup, CleanupRecord, Return, LimitReached,
                WallClockStops, TurnFails, RunThrows, vars, durable
  <2> QED
    BY <2>1 DEF TraceInv
<1> QED
  BY <1>2, <1>3, <1>4 DEF Next, Progress, ToolStep

LEMMA FaithfulNext ==
    ASSUME IInv, ReplayInv, [Next]_vars
    PROVE  ReplayFaithful'
<1> SUFFICES ASSUME status' = "complete", finalize' # None,
                    ~rebased', ~stopped', ~refused'
             PROVE  /\ Outcome(out') = Outcome(finalize') /\ out'.cost = Recorded'
                    /\ crashes' = 0 => out' = finalize'
  BY DEF ReplayFaithful, Outcome
<1>1. CASE Return
  <2>1. PICK m \in Ends : \E f \in Paths(m) : OnPath(m, f)
    BY FlagsGrow DEF ReplayInv, Replayed, OnPath
  <2>2. PICK f \in Paths(m) : OnPath(m, f)
    BY <2>1
  <2>3. finalize' = finalize
    BY <1>1 DEF Return, durable
  <2> QED
    BY <1>1, <2>2, <2>3, ReturnFaithful DEF ReplayInv, Outcome
<1>2. CASE LimitReached
  <2>1. run.pc = "start" /\ finalize' = finalize
    BY <1>2 DEF LimitReached, Active, durable
  <2>2. crashes = 0
    <3>1. refused' = (refused \/ crashes > 0)
      BY <1>2 DEF LimitReached
    <3>2. ~(crashes > 0)
      BY <3>1
    <3>3. crashes \in Nat
      BY Limits DEF IInv, TypeOK
    <3> QED
      BY <3>2, <3>3
  <2> QED
    BY <2>1, <2>2 DEF ReplayInv, FirstTime
<1>3. CASE UNCHANGED vars
  <2>1. UNCHANGED <<status, llmStep, toolStep, recovery, finalize, out,
                    refused, rebased, stopped, crashes>>
    BY <1>3 DEF vars, durable, history
  <2>2. Recorded' = Recorded
    BY <2>1, LoopCostIs DEF Recorded, CostOf
  <2> QED
    BY <2>1, <2>2 DEF ReplayInv, ReplayFaithful, Outcome
<1>4. CASE \/ Start \/ BudgetStops \/ \E reply \in LLMResults : LLMTurn(reply)
           \/ \E i \in Slots : ToolRun(i) \/ ToolCache(i) \/ ToolRecord(i) \/ ToolRetry(i)
           \/ EndTurn \/ Recover \/ Finalize \/ Cleanup \/ CleanupRecord
           \/ WallClockStops \/ TurnFails \/ RunThrows \/ Crash
  <2>1. status' \in {"running", "errored"}
    BY <1>4 DEF Start, BudgetStops, LLMTurn, ToolRun, ToolCache, ToolRecord, ToolRetry,
                InBatch, EndTurn, Recover, Finalize, Cleanup, CleanupRecord,
                WallClockStops, TurnFails, RunThrows, Crash, Active
  <2> QED
    BY <2>1
<1> QED
  BY <1>1, <1>2, <1>3, <1>4 DEF Next, Progress, ToolStep

LEMMA ReplayInit == Init => ReplayInv
<1> SUFFICES ASSUME Init PROVE ReplayInv
  OBVIOUS
<1>1. /\ \A t \in Turns : llmStep[t] = None
      /\ \A t \in Turns, i \in Slots : toolStep[<<t, i>>] = None
      /\ recovery = None /\ finalize = None /\ run = Fresh /\ status = "running"
  BY DEF Init
<1>2. llmStep \in LLMRecords /\ toolStep \in ToolRecords
  BY InitInv DEF IInv, TypeOK, LLMRecords, ToolRecords
<1>3. 1 \in Ends /\ 1 \in Turns
  BY Limits DEF Ends, Turns
<1> DEFINE f == [t \in 1..1 |-> TopOfLoop]
<1>4. f \in Paths(1) /\ f[1] = TopOfLoop
  BY TopOfLoopFacts DEF Paths
<1> HIDE DEF f
<1>5. Path(llmStep, toolStep, 1, f)
  <2>1. 1..(1 - 1) = {}
    OBVIOUS
  <2> QED
    BY <1>4, <2>1, TopOfLoopFacts DEF Path
<1>6. Frontier(llmStep, toolStep, recovery, finalize, 1, f[1])
  BY <1>1, <1>2, <1>3, <1>4, TopOfLoopFacts, CostsAreNat DEF Frontier, OpenEnd
<1>7. At(llmStep, recovery, run, 1, f)
  BY <1>1 DEF At, Fresh
<1>8. Replayed(llmStep, toolStep, recovery, finalize, run)
  BY <1>3, <1>4, <1>5, <1>6, <1>7 DEF Replayed
<1> QED
  BY <1>1, <1>8 DEF ReplayInv, FirstTime, TraceInv, ReplayFaithful

(* A run that was evicted and replayed, without a cost backup in between   *)
(* and without a guard that depends on the moment, returns the output and  *)
(* the cost its done event announced, which are those of its recorded      *)
(* steps; one that was not evicted returns the event, trace_id and all     *)
(* (AgentRunWorkflow.run).                                                 *)
THEOREM ReplaysAreFaithful == Spec => []ReplayFaithful
<1>1. IInv /\ IInv' /\ BudgetInv /\ ReplayInv /\ [Next]_vars => ReplayInv'
  BY ReplayedNext, FirstTimeNext, TraceNext, FaithfulNext DEF ReplayInv
<1>2. Init => ReplayInv
  BY ReplayInit
<1>3. ReplayInv => ReplayFaithful
  BY DEF ReplayInv
<1>4. QED
  BY <1>1, <1>2, <1>3, Invariant, BudgetInvariant, PTL DEF Spec
=============================================================================
