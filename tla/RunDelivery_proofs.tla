------------------------- MODULE RunDelivery_proofs -------------------------
(***************************************************************************)
(* Proofs about RunDelivery, for any clients and runs, and any number of   *)
(* connections and restarts.                                               *)
(***************************************************************************)
EXTENDS RunDelivery, FiniteSetTheorems, TLAPS

Pcs == {"check", "create", "track", "sleep", "ending"}

(* A run that is polled has a poller that works for a client.              *)
LEMMA PollerAtWork ==
    ASSUME TypeOK, NEW r \in Runs
    PROVE  /\ poller[r] \in {New, Gone} \cup Working
           /\ Polling(r) <=> poller[r] \in Working
           /\ poller[r].pc \in Pcs <=> poller[r] \in Working
           /\ poller[r].pc = "new" <=> poller[r] = New
           /\ poller[r].pc = "gone" <=> poller[r] = Gone
           /\ poller[r] \in Working => poller[r].client \in Clients
  BY DEF TypeOK, Polling, New, Gone, Working, Pcs

LEMMA PollerType ==
    ASSUME TypeOK, NEW r \in Runs,
           \/ Stop(r)
           \/ \E pc \in Pcs : Go(r, pc) /\ poller[r] \in Working
    PROVE  poller' \in [Runs -> {New, Gone} \cup Working]
<1>1. CASE Stop(r)
  BY <1>1 DEF Stop, TypeOK
<1>2. ASSUME NEW pc \in Pcs, Go(r, pc), poller[r] \in Working
      PROVE  poller' \in [Runs -> {New, Gone} \cup Working]
  <2>1. [poller[r] EXCEPT !.pc = pc] \in Working
    BY <1>2 DEF Working, Pcs
  <2> QED
    BY <1>2, <2>1 DEF Go, TypeOK
<1> QED
  BY <1>1, <1>2

(* A poller that moves on keeps working for its client.                    *)
LEMMA PollerMoves ==
    ASSUME TypeOK, NEW r \in Runs, poller[r] \in Working, NEW pc \in Pcs, Go(r, pc)
    PROVE  /\ poller'[r] \in Working
           /\ poller'[r].pc = pc
           /\ poller'[r].client = poller[r].client
<1>1. poller'[r] = [poller[r] EXCEPT !.pc = pc]
  BY DEF Go, TypeOK
<1> QED
  BY <1>1 DEF Working, Pcs

(* A write that may fail: which row it can touch, and which failure it can *)
(* add.                                                                    *)
LEMMA FailsEffect ==
    ASSUME NEW r, NEW w, Fails(w, r)
    PROVE  /\ failed \subseteq failed'
           /\ Failed(w, r)'
           /\ failed' \subseteq failed \cup {<<w, r>>}
  BY DEF Fails, Failed

LEMMA InsertEffect ==
    ASSUME TypeOK, NEW r \in Runs, Insert(r)
    PROVE  /\ tracked' \subseteq tracked \cup {r} /\ tracked \subseteq tracked'
           /\ failed \subseteq failed' /\ failed' \subseteq failed \cup {<<"track", r>>}
           /\ tracked' \subseteq Runs /\ failed' \subseteq Writes \X Runs
<1>1. failed \subseteq failed' /\ failed' \subseteq failed \cup {<<"track", r>>}
  BY FailsEffect DEF Insert
<1>2. <<"track", r>> \in Writes \X Runs
  BY DEF Writes
<1>3. tracked' \subseteq tracked \cup {r} /\ tracked \subseteq tracked'
  BY DEF Insert
<1> QED
  BY <1>1, <1>2, <1>3 DEF TypeOK

LEMMA UntrackEffect ==
    ASSUME TypeOK, NEW r \in Runs, Untrack(r)
    PROVE  /\ tracked' \subseteq tracked /\ tracked \ {r} \subseteq tracked'
           /\ r \notin tracked' \/ Failed("untrack", r)'
           /\ failed \subseteq failed' /\ failed' \subseteq failed \cup {<<"untrack", r>>}
           /\ tracked' \subseteq Runs /\ failed' \subseteq Writes \X Runs
<1>1. failed \subseteq failed' /\ failed' \subseteq failed \cup {<<"untrack", r>>}
  BY FailsEffect DEF Untrack
<1>2. <<"untrack", r>> \in Writes \X Runs
  BY DEF Writes
<1>3. tracked' \subseteq tracked /\ tracked \ {r} \subseteq tracked'
  BY DEF Untrack, Untracked
<1>4. r \notin tracked' \/ Failed("untrack", r)'
  BY FailsEffect DEF Untrack, Untracked
<1> QED
  BY <1>1, <1>2, <1>3, <1>4 DEF TypeOK

(* What a step of a poller does to the table.                              *)
LEMMA PollTable ==
    ASSUME TypeOK, NEW r \in Runs, Poll(r)
    PROVE  /\ tracked' \subseteq Runs /\ failed' \subseteq Writes \X Runs
           /\ failed \subseteq failed'
           /\ \A q \in Runs \ {r} : /\ q \in tracked' <=> q \in tracked
                                   /\ \A w : Failed(w, q)' <=> Failed(w, q)
<1>1. CASE Insert(r)
  BY <1>1, InsertEffect DEF Failed
<1>2. CASE Untrack(r)
  BY <1>2, UntrackEffect DEF Failed
<1>3. CASE AdmitThrows(r)
  <2>1. <<"question", r>> \in Writes \X Runs
    BY DEF Writes
  <2>2. failed \subseteq failed' /\ failed' \subseteq failed \cup {<<"question", r>>}
    BY <1>3, FailsEffect DEF AdmitThrows
  <2> QED
    BY <1>3, <2>1, <2>2 DEF AdmitThrows, TypeOK, Failed
<1>4. CASE UNCHANGED table
  BY <1>4 DEF table, TypeOK, Failed
<1> QED
  BY <1>1, <1>2, <1>3, <1>4
     DEF Poll, Deny, Admit, AdmitThrows, CreateFails, Create, Track, Deliver, AnswerThrows,
         SendThrows, ErrorEvent, Synthesize, DoneTooLate, NoAnswer, ClientGone, Abort,
         TimeOut, End, Exit

LEMMA InitType == Init => TypeOK
<1> SUFFICES ASSUME Init PROVE TypeOK
  OBVIOUS
<1>1. /\ poller \in [Runs -> {New, Gone} \cup Working]
      /\ recoverer \in [Runs -> {"off", "poll", "ending"}]
      /\ wf \in [Runs -> {"none", "running", "complete", "errored", "terminated"}]
  BY DEF Init
<1>2. events \in [Runs -> SUBSET {"done", "error"}] /\ answers \in [Runs -> Nat]
  BY DEF Init
<1>3. opens \in 0..MaxOpens /\ restarts \in 0..MaxRestarts
  BY DeliveryAssumption DEF Init
<1> QED
  BY <1>1, <1>2, <1>3 DEF Init, TypeOK

LEMMA PollType ==
    ASSUME TypeOK, NEW r \in Runs, Poll(r)
    PROVE  TypeOK'
<1>1. poller[r].pc \in Pcs /\ poller[r] \in Working
  BY PollerAtWork
     DEF Poll, Deny, Admit, AdmitThrows, CreateFails, Create, Track, Deliver, AnswerThrows,
         SendThrows, ErrorEvent, Synthesize, DoneTooLate, NoAnswer, ClientGone, Abort,
         TimeOut, End, At, Pcs
<1>2. poller' \in [Runs -> {New, Gone} \cup Working]
  BY <1>1, PollerType
     DEF Poll, Deny, Admit, AdmitThrows, CreateFails, Create, Track, Deliver, AnswerThrows,
         SendThrows, ErrorEvent, Synthesize, DoneTooLate, NoAnswer, ClientGone, Abort,
         TimeOut, End, Exit, Pcs
<1>3. /\ activeRun' \in BOOLEAN /\ activeWf' \in Runs \cup {NoRun}
      /\ aborted' \subseteq Runs /\ closers' \in Nat
  BY DEF TypeOK, memory,
         Poll, Deny, Admit, AdmitThrows, CreateFails, Create, Track, Deliver, AnswerThrows,
         SendThrows, ErrorEvent, Synthesize, DoneTooLate, NoAnswer, ClientGone, Abort,
         TimeOut, End, Exit
<1>8. tracked' \subseteq Runs /\ failed' \subseteq Writes \X Runs
  BY PollTable
<1>4. answers' \in [Runs -> Nat]
  BY DEF TypeOK, Answer,
         Poll, Deny, Admit, AdmitThrows, CreateFails, Create, Track, Deliver, AnswerThrows,
         SendThrows, ErrorEvent, Synthesize, DoneTooLate, NoAnswer, ClientGone, Abort,
         TimeOut, End, Exit
<1>5. wf' \in [Runs -> {"none", "running", "complete", "errored", "terminated"}]
  BY DEF TypeOK, Terminated,
         Poll, Deny, Admit, AdmitThrows, CreateFails, Create, Track, Deliver, AnswerThrows,
         SendThrows, ErrorEvent, Synthesize, DoneTooLate, NoAnswer, ClientGone, Abort,
         TimeOut, End, Exit
<1>6. closed' \in BOOLEAN /\ redo' \subseteq Runs /\ excused' \subseteq Runs
  BY DEF TypeOK, history, Excuse,
         Poll, Deny, Admit, AdmitThrows, CreateFails, Create, Track, Deliver, AnswerThrows,
         SendThrows, ErrorEvent, Synthesize, DoneTooLate, NoAnswer, ClientGone, Abort,
         TimeOut, End, Exit
<1>7. UNCHANGED <<open, recoverer, events, bounds>>
  BY DEF Poll, Deny, Admit, AdmitThrows, CreateFails, Create, Track, Deliver, AnswerThrows,
         SendThrows, ErrorEvent, Synthesize, DoneTooLate, NoAnswer, ClientGone, Abort,
         TimeOut, End, Exit
<1> QED
  BY <1>2, <1>3, <1>4, <1>5, <1>6, <1>7, <1>8 DEF TypeOK, bounds

LEMMA NextType == TypeOK /\ [Next]_vars => TypeOK'
<1> SUFFICES ASSUME TypeOK, [Next]_vars PROVE TypeOK'
  OBVIOUS
<1> USE DeliveryAssumption
<1>1. ASSUME NEW c \in Clients, Connect(c)
      PROVE  TypeOK'
  BY <1>1 DEF Connect, TypeOK, memory, bounds, history, table
<1>2. ASSUME NEW c \in Clients, NEW r \in Runs, Ask(c, r)
      PROVE  TypeOK'
  <2>1. [pc |-> "check", client |-> c] \in Working
    BY DEF Working
  <2> QED
    BY <1>2, <2>1 DEF Ask, TypeOK, bounds, history, table
<1>3. ASSUME NEW c \in Clients, Close(c)
      PROVE  TypeOK'
  <2>1. OwnRuns(c) \subseteq Runs
    BY DEF OwnRuns
  <2>2. wf' \in [Runs -> {"none", "running", "complete", "errored", "terminated"}]
    BY <1>3 DEF Close, TypeOK, Terminated
  <2>3. aborted' \subseteq Runs /\ closers' \in Nat
    BY <1>3 DEF Close, TypeOK
  <2>5. activeRun' \in BOOLEAN
    BY <1>3, Zenon DEF Close, TypeOK
  <2>4. excused' \subseteq Runs
    BY <1>3, <2>1 DEF Close, TypeOK, Excuse
  <2> QED
    BY <1>3, <2>2, <2>3, <2>4, <2>5 DEF Close, TypeOK, bounds, table
<1>4. ASSUME NEW r \in Runs, RecoverRun(r)
      PROVE  TypeOK'
  <2>1. tracked' \subseteq Runs /\ failed' \subseteq Writes \X Runs
    <3>1. CASE Recover(r)
      BY <3>1 DEF Recover, table, TypeOK
    <3>2. CASE Untrack(r)
      BY <3>2, UntrackEffect
    <3> QED
      BY <1>4, <3>1, <3>2
         DEF RecoverRun, RecoverNothing, RecoverGivesUp, RecoverEnds, Recovered
  <2> QED
    BY <1>4, <2>1
       DEF RecoverRun, Recover, RecoverNothing, RecoverGivesUp, RecoverEnds, Recovered,
           Answer, Excuse, TypeOK, memory, bounds, history
<1>5. ASSUME NEW r \in Runs, NEW e \in {"done", "error"}, Emit(r, e)
      PROVE  TypeOK'
  BY <1>5 DEF Emit, TypeOK, memory, bounds, history, table
<1>6. ASSUME NEW r \in Runs, NEW status \in {"complete", "errored"}, Finish(r, status)
      PROVE  TypeOK'
  BY <1>6 DEF Finish, TypeOK, memory, bounds, history, table
<1>7. CASE CloseEnds
  <2>1. closers' \in Nat
    BY <1>7 DEF CloseEnds, Awaiting, TypeOK
  <2>3. activeRun' \in BOOLEAN
    BY <1>7, Zenon DEF CloseEnds, TypeOK
  <2>2. activeWf' \in Runs \cup {NoRun} /\ excused' \subseteq Runs
    BY <1>7 DEF CloseEnds, Excuse, TypeOK
  <2>4. tracked' \subseteq Runs /\ failed' \subseteq Writes \X Runs
    <3>1. CASE activeWf = NoRun
      BY <1>7, <3>1 DEF CloseEnds, table, TypeOK
    <3>2. CASE activeWf # NoRun
      BY <1>7, <3>2, UntrackEffect DEF CloseEnds, TypeOK
    <3> QED
      BY <3>1, <3>2
  <2> QED
    BY <1>7, <2>1, <2>2, <2>3, <2>4 DEF CloseEnds, TypeOK, bounds
<1>8. CASE Restart
  <2>1. poller' \in [Runs -> {New, Gone} \cup Working]
    BY <1>8 DEF Restart, TypeOK
  <2> QED
    BY <1>8, <2>1 DEF Restart, GuardRebuilt, Orphans, Excuse, TypeOK, table
<1>9. CASE UNCHANGED vars
  BY <1>9 DEF vars, memory, bounds, history, TypeOK, table
<1> QED
  BY <1>1, <1>2, <1>3, <1>4, <1>5, <1>6, <1>7, <1>8, <1>9, PollType DEF Next

(* Every variable keeps its type: no handler of a closed connection is     *)
(* counted off twice.                                                      *)
THEOREM TypeCorrect == Spec => []TypeOK
  BY InitType, NextType, PTL DEF Spec

-----------------------------------------------------------------------------
(* The guard.  It is set when a question is asked, and whatever stops a    *)
(* poller while the object lives clears it.                                *)
LEMMA GuardStep == TypeOK /\ GuardIsFreed /\ [Next]_vars => GuardIsFreed'
<1> DEFINE Known == \E r \in Runs : Polling(r) \/ Failed("question", r)
<1> SUFFICES ASSUME TypeOK, GuardIsFreed, [Next]_vars, restarts' = 0, activeRun'
             PROVE  Known'
  BY DEF GuardIsFreed
<1>0. ASSUME poller' = poller, restarts' = restarts, activeRun, failed \subseteq failed'
      PROVE  Known'
  BY <1>0 DEF GuardIsFreed, Polling, Failed
<1>1. ASSUME NEW c \in Clients, Connect(c) \/ Close(c)
      PROVE  Known'
  BY <1>0, <1>1 DEF Connect, Close, memory, bounds, table
<1>2. ASSUME NEW c \in Clients, NEW r \in Runs, Ask(c, r)
      PROVE  Known'
  BY <1>2 DEF Ask, Polling, TypeOK
<1>3. ASSUME NEW r \in Runs, Poll(r)
      PROVE  Known'
  <2>0. poller[r].pc \in Pcs
    BY <1>3
       DEF Poll, Deny, Admit, AdmitThrows, CreateFails, Create, Track, Deliver, AnswerThrows,
           SendThrows, ErrorEvent, Synthesize, DoneTooLate, NoAnswer, ClientGone, Abort,
           TimeOut, End, At, Pcs
  <2>1. CASE AdmitThrows(r)
    BY <2>1, FailsEffect DEF AdmitThrows
  <2>2. CASE Exit(r) \/ Deny(r)
    BY <2>2 DEF Exit, Deny
  <2>3. CASE Admit(r) \/ Create(r) \/ Track(r) \/ Deliver(r) \/ ClientGone(r)
    <3>1. PICK pc \in Pcs : Go(r, pc)
      BY <2>3 DEF Admit, Create, Track, Deliver, ClientGone, Pcs
    <3> QED
      BY <2>0, <3>1, PollerMoves, PollerAtWork DEF Polling, Pcs
  <2> QED
    BY <1>3, <2>1, <2>2, <2>3
       DEF Poll, CreateFails, AnswerThrows, SendThrows, ErrorEvent, Synthesize, DoneTooLate,
           NoAnswer, Abort, TimeOut, End
<1>4. ASSUME NEW r \in Runs, RecoverRun(r)
      PROVE  Known'
  <2>1. failed \subseteq failed'
    BY <1>4, UntrackEffect
       DEF RecoverRun, Recover, RecoverNothing, RecoverGivesUp, RecoverEnds, Recovered, table
  <2> QED
    BY <1>0, <1>4, <2>1
       DEF RecoverRun, Recover, RecoverNothing, RecoverGivesUp, RecoverEnds, memory, bounds
<1>5. ASSUME NEW r \in Runs,
             \/ \E e \in {"done", "error"} : Emit(r, e)
             \/ \E status \in {"complete", "errored"} : Finish(r, status)
      PROVE  Known'
  BY <1>0, <1>5 DEF Emit, Finish, memory, bounds, table
<1>6. CASE CloseEnds
  <2>1. activeWf = NoRun
    BY <1>6 DEF CloseEnds
  <2> QED
    BY <1>0, <1>6, <2>1 DEF CloseEnds, bounds, table
<1>7. CASE Restart
  BY <1>7 DEF Restart, TypeOK
<1>8. CASE UNCHANGED vars
  BY <1>0, <1>8 DEF vars, memory, bounds, table
<1> QED
  BY <1>1, <1>2, <1>3, <1>4, <1>5, <1>6, <1>7, <1>8 DEF Next

-----------------------------------------------------------------------------
(* Every run: a recovery only concerns a run whose poller is gone, and a   *)
(* row of active_workflows a run that has been created.                    *)
RowInv(r) ==
    /\ recoverer[r] # "off" => poller[r].pc = "gone"
    /\ r \in tracked => poller[r].pc \in {"sleep", "ending", "gone"}

(* One run at a time.  Rows that outlive their run would be recovered next *)
(* to a new one, so the invariant is also about them.                      *)
Tidy == ~closed /\ \A r \in Runs : ~Failed("untrack", r)

SoleRun ==
    Tidy => /\ closers = 0
            /\ \A r, q \in UnderWay : r = q
            /\ UnderWay # {} => activeRun
            /\ tracked \subseteq UnderWay

(* One answer: a row whose run has been answered is about to be deleted.   *)
OnceInv(r) ==
    r \notin redo /\ ~Failed("untrack", r) =>
      /\ answers[r] <= 1
      /\ ~(poller[r].pc \in {"ending", "gone"}) => answers[r] = 0
      /\ recoverer[r] = "poll" => answers[r] = 0
      /\ r \in tracked /\ answers[r] > 0
            => poller[r].pc = "ending" \/ recoverer[r] = "ending"

(* No answer is lost: until it is recorded somebody looks after the run,   *)
(* and a restart gives up the runs that it finds no row of.                *)
KeptInv(r) ==
    r \notin excused =>
      /\ Polling(r) => poller[r].client \in open
      /\ recoverer[r] # "off" => r \in tracked
      /\ poller[r].pc = "ending" \/ recoverer[r] = "ending" => answers[r] > 0
      /\ wf[r] \in {"running", "complete"}
            => \/ poller[r].pc \in {"track", "sleep", "ending"}
               \/ recoverer[r] # "off"
               \/ answers[r] > 0

RunInv == \A r \in Runs : RowInv(r) /\ OnceInv(r) /\ KeptInv(r)

(* What a step leaves alone of a run it is not about.                      *)
Untouched(r) ==
    /\ poller'[r] = poller[r] /\ recoverer'[r] = recoverer[r]
    /\ r \in tracked' <=> r \in tracked
    /\ r \in redo' <=> r \in redo
    /\ \A w : Failed(w, r)' <=> Failed(w, r)
    /\ wf'[r] = wf[r] /\ answers'[r] = answers[r]

LEMMA PollFrame ==
    ASSUME TypeOK, NEW r \in Runs, Poll(r)
    PROVE  /\ UNCHANGED <<open, recoverer, closers, redo, closed>>
           /\ excused \subseteq excused' /\ failed \subseteq failed'
           /\ \A q \in Runs \ {r} : Untouched(q)
<1>1. UNCHANGED <<open, recoverer, closers, redo, closed>> /\ excused \subseteq excused'
  BY DEF Poll, Deny, Admit, AdmitThrows, CreateFails, Create, Track, Deliver, AnswerThrows,
         SendThrows, ErrorEvent, Synthesize, DoneTooLate, NoAnswer, ClientGone, Abort,
         TimeOut, End, Exit, memory, history, Excuse
<1> SUFFICES ASSUME NEW q \in Runs \ {r} PROVE Untouched(q)
  BY <1>1, PollTable
<1>2. poller'[q] = poller[q]
  BY DEF Poll, Deny, Admit, AdmitThrows, CreateFails, Create, Track, Deliver, AnswerThrows,
         SendThrows, ErrorEvent, Synthesize, DoneTooLate, NoAnswer, ClientGone, Abort,
         TimeOut, End, Exit, Stop, Go, TypeOK
<1>3. (q \in tracked' <=> q \in tracked) /\ \A w : Failed(w, q)' <=> Failed(w, q)
  BY PollTable
<1>4. wf'[q] = wf[q] /\ answers'[q] = answers[q]
  BY DEF Poll, Deny, Admit, AdmitThrows, CreateFails, Create, Track, Deliver, AnswerThrows,
         SendThrows, ErrorEvent, Synthesize, DoneTooLate, NoAnswer, ClientGone, Abort,
         TimeOut, End, Exit, Terminated, Answer,
         TypeOK
<1> QED
  BY <1>1, <1>2, <1>3, <1>4 DEF Untouched

LEMMA RecoverFrame ==
    ASSUME TypeOK, NEW r \in Runs, RecoverRun(r)
    PROVE  /\ UNCHANGED <<open, memory, poller, closers, redo, closed>>
           /\ excused \subseteq excused' /\ failed \subseteq failed'
           /\ \A q \in Runs \ {r} : Untouched(q)
<1>1. UNCHANGED <<open, memory, poller, closers, redo, closed, wf>>
      /\ excused \subseteq excused'
  BY DEF RecoverRun, Recover, RecoverNothing, RecoverGivesUp, RecoverEnds, memory, history,
         Excuse
<1>3. /\ failed \subseteq failed'
      /\ \A q \in Runs \ {r} : /\ q \in tracked' <=> q \in tracked
                              /\ \A w : Failed(w, q)' <=> Failed(w, q)
  <2>1. CASE Recover(r)
    BY <2>1 DEF Recover, table, Failed
  <2>2. CASE Untrack(r)
    BY <2>2, UntrackEffect DEF Failed
  <2> QED
    BY <2>1, <2>2 DEF RecoverRun, RecoverNothing, RecoverGivesUp, RecoverEnds, Recovered
<1> SUFFICES ASSUME NEW q \in Runs \ {r} PROVE Untouched(q)
  BY <1>1, <1>3
<1>2. recoverer'[q] = recoverer[q] /\ answers'[q] = answers[q]
  BY DEF RecoverRun, Recover, RecoverNothing, RecoverGivesUp, RecoverEnds, Recovered,
         Answer, TypeOK
<1> QED
  BY <1>1, <1>2, <1>3 DEF Untouched

LEMMA UntouchedKeeps ==
    ASSUME NEW r \in Runs, Untouched(r), open' = open, excused \subseteq excused',
           RowInv(r), OnceInv(r), KeptInv(r)
    PROVE  RowInv(r)' /\ OnceInv(r)' /\ KeptInv(r)'
<1>1. Polling(r)' <=> Polling(r)
  BY DEF Untouched, Polling
<1>2. RowInv(r)'
  BY DEF Untouched, RowInv
<1>3. OnceInv(r)'
  BY DEF Untouched, OnceInv
<1>4. KeptInv(r)'
  BY <1>1 DEF Untouched, KeptInv
<1> QED
  BY <1>2, <1>3, <1>4

(* A poller that stops: its row goes too, and its run is over, answered or *)
(* given up.                                                               *)
LEMMA ExitKeeps ==
    ASSUME TypeOK, NEW r \in Runs, poller[r] \in Working, recoverer[r] = "off",
           recoverer' = recoverer, redo' = redo,
           poller'[r] = Gone, r \notin tracked' \/ Failed("untrack", r)',
           failed \subseteq failed',
           r \notin redo /\ ~Failed("untrack", r) => answers'[r] <= 1,
           r \notin excused' =>
              answers'[r] > 0 \/ ~(wf'[r] \in {"running", "complete"})
    PROVE  RowInv(r)' /\ OnceInv(r)' /\ KeptInv(r)'
<1>1. poller'[r].pc = "gone" /\ ~Polling(r)'
  BY DEF Gone, Polling
<1> QED
  BY <1>1 DEF RowInv, OnceInv, KeptInv, Failed

LEMMA ExitEffect ==
    ASSUME TypeOK, NEW r \in Runs, Exit(r)
    PROVE  poller'[r] = Gone /\ (r \notin tracked' \/ Failed("untrack", r)')
<1>1. r \notin tracked' \/ Failed("untrack", r)'
  BY UntrackEffect DEF Exit
<1> QED
  BY <1>1 DEF Exit, Stop, TypeOK

LEMMA PollKeeps ==
    ASSUME TypeOK, NEW r \in Runs, RowInv(r), OnceInv(r), KeptInv(r), Poll(r)
    PROVE  RowInv(r)' /\ OnceInv(r)' /\ KeptInv(r)'
<1>0. /\ poller[r] \in Working /\ poller[r].pc \in Pcs
      /\ UNCHANGED <<open, recoverer, redo>>
      /\ excused \subseteq excused' /\ failed \subseteq failed'
  BY PollerAtWork, PollFrame
     DEF Poll, Deny, Admit, AdmitThrows, CreateFails, Create, Track, Deliver, AnswerThrows,
         SendThrows, ErrorEvent, Synthesize, DoneTooLate, NoAnswer, ClientGone, Abort,
         TimeOut, End, At, Pcs
<1>1. recoverer[r] = "off" /\ Polling(r)
  BY <1>0 DEF RowInv, Pcs, Polling
<1>2. answers[r] \in Nat
  BY DEF TypeOK
<1>3. CASE Deny(r) \/ AdmitThrows(r)
  <2>1. poller'[r] = Gone /\ poller[r].pc = "check"
    BY <1>3 DEF Deny, AdmitThrows, Stop, TypeOK, At
  <2>2. r \notin tracked /\ tracked' = tracked
    BY <1>3, <2>1 DEF RowInv, Deny, AdmitThrows, table
  <2>3. UNCHANGED <<wf, answers, excused>>
    BY <1>3 DEF Deny, AdmitThrows, history
  <2>4. r \notin redo /\ ~Failed("untrack", r) => answers[r] = 0
    BY <2>1 DEF OnceInv
  <2>5. r \notin excused' => ~(wf'[r] \in {"running", "complete"}) \/ answers'[r] > 0
    BY <1>1, <2>1, <2>3 DEF KeptInv
  <2> QED
    BY <1>0, <1>1, <2>1, <2>2, <2>3, <2>4, <2>5, ExitKeeps
<1>4. CASE Admit(r) \/ Create(r) \/ Track(r) \/ Deliver(r) \/ ClientGone(r)
  <2>1. ASSUME NEW pc \in Pcs, Go(r, pc)
        PROVE  /\ poller'[r].pc = pc /\ poller'[r].client = poller[r].client
               /\ Polling(r)'
    BY <1>0, <2>1, PollerMoves DEF Pcs, Polling
  <2>2. CASE Admit(r)
    <3>1. poller[r].pc = "check" /\ poller'[r].pc = "create" /\ Polling(r)'
          /\ poller'[r].client = poller[r].client
      BY <2>1, <2>2 DEF Admit, At, Pcs
    <3> QED
      BY <1>0, <1>1, <2>2, <3>1 DEF Admit, RowInv, OnceInv, KeptInv, table, history, Failed
  <2>3. CASE Create(r)
    <3>1. poller[r].pc = "create" /\ poller'[r].pc = "track" /\ Polling(r)'
          /\ poller'[r].client = poller[r].client
      BY <2>1, <2>3 DEF Create, At, Pcs
    <3> QED
      BY <1>0, <1>1, <2>3, <3>1 DEF Create, RowInv, OnceInv, KeptInv, table, history, Failed
  <2>4. CASE Track(r)
    <3>1. poller[r].pc = "track" /\ poller'[r].pc = "sleep" /\ Polling(r)'
          /\ poller'[r].client = poller[r].client
      BY <2>1, <2>4 DEF Track, At, Pcs
    <3>2. tracked \subseteq tracked' /\ UNCHANGED <<wf, answers, excused>>
      BY <2>4, InsertEffect DEF Track, history
    <3>3. answers[r] > 0 => r \in redo \/ Failed("untrack", r)
      BY <1>2, <3>1 DEF OnceInv
    <3> QED
      BY <1>0, <1>1, <3>1, <3>2, <3>3 DEF RowInv, OnceInv, KeptInv, Failed
  <2>5. CASE Deliver(r)
    <3>1. poller[r].pc = "sleep" /\ poller'[r].pc = "ending" /\ Polling(r)'
          /\ poller'[r].client = poller[r].client
      BY <2>1, <2>5 DEF Deliver, At, Pcs
    <3>2. answers'[r] = answers[r] + 1
      BY <2>5 DEF Deliver, Answer, TypeOK
    <3> QED
      BY <1>0, <1>1, <1>2, <2>5, <3>1, <3>2
         DEF Deliver, RowInv, OnceInv, KeptInv, table, history, Failed
  <2>6. CASE ClientGone(r)
    <3>1. poller[r].pc = "sleep" /\ poller'[r].pc = "ending" /\ Polling(r)'
      BY <2>1, <2>6 DEF ClientGone, At, Pcs
    <3>2. r \in excused'
      BY <1>0, <1>1, <2>6 DEF ClientGone, Left, KeptInv
    <3> QED
      BY <1>0, <1>1, <2>6, <3>1, <3>2
         DEF ClientGone, RowInv, OnceInv, KeptInv, table, history, Failed
  <2> QED
    BY <1>4, <2>2, <2>3, <2>4, <2>5, <2>6
<1>5. CASE CreateFails(r) \/ AnswerThrows(r) \/ SendThrows(r) \/ ErrorEvent(r)
           \/ Synthesize(r) \/ DoneTooLate(r) \/ NoAnswer(r) \/ Abort(r) \/ TimeOut(r)
           \/ End(r)
  <2>1. poller'[r] = Gone /\ (r \notin tracked' \/ Failed("untrack", r)')
    BY <1>5, ExitEffect
       DEF CreateFails, AnswerThrows, SendThrows, ErrorEvent, Synthesize, DoneTooLate,
           NoAnswer, Abort, TimeOut, End
  <2>2. r \notin redo /\ ~Failed("untrack", r) => answers'[r] <= 1
    <3>1. CASE Synthesize(r)
      <4>1. answers'[r] = answers[r] + 1 /\ poller[r].pc = "sleep"
        BY <3>1 DEF Synthesize, Answer, At, TypeOK
      <4> QED
        BY <1>2, <4>1 DEF OnceInv
    <3>2. CASE ~Synthesize(r)
      <4>1. answers' = answers
        BY <1>5, <3>2 DEF CreateFails, AnswerThrows, SendThrows, ErrorEvent, DoneTooLate,
                          NoAnswer, Abort, TimeOut, End, history
      <4> QED
        BY <4>1 DEF OnceInv
    <3> QED
      BY <3>1, <3>2
  <2>3. r \notin excused' => answers'[r] > 0 \/ ~(wf'[r] \in {"running", "complete"})
    <3>1. CASE CreateFails(r)
      BY <1>0, <1>1, <3>1 DEF CreateFails, At, KeptInv
    <3>2. CASE SendThrows(r)
      BY <1>0, <1>1, <3>2 DEF SendThrows, Left, KeptInv
    <3>3. CASE AnswerThrows(r) \/ ErrorEvent(r) \/ DoneTooLate(r) \/ Abort(r) \/ TimeOut(r)
      BY <3>3 DEF AnswerThrows, ErrorEvent, DoneTooLate, Abort, TimeOut, Excuse
    <3>4. CASE Synthesize(r)
      BY <1>2, <3>4 DEF Synthesize, Answer, TypeOK
    <3>5. CASE NoAnswer(r)
      BY <3>5 DEF NoAnswer
    <3>6. CASE End(r)
      BY <1>0, <3>6 DEF End, At, KeptInv
    <3> QED
      BY <1>5, <3>1, <3>2, <3>3, <3>4, <3>5, <3>6
  <2> QED
    BY <1>0, <1>1, <2>1, <2>2, <2>3, ExitKeeps
<1> QED
  BY <1>3, <1>4, <1>5 DEF Poll

LEMMA RecoverKeeps ==
    ASSUME TypeOK, NEW r \in Runs, RowInv(r), OnceInv(r), KeptInv(r), RecoverRun(r)
    PROVE  RowInv(r)' /\ OnceInv(r)' /\ KeptInv(r)'
<1>0. failed \subseteq failed'
  BY RecoverFrame
<1>1. /\ UNCHANGED <<open, poller, redo, wf>> /\ excused \subseteq excused'
      /\ poller[r].pc = "gone" /\ ~Polling(r)'
  BY DEF RecoverRun, Recover, RecoverNothing, RecoverGivesUp, RecoverEnds, Recovering,
         RowInv, history, Excuse, Polling
<1>2. answers[r] \in Nat
  BY DEF TypeOK
<1>3. CASE Recover(r)
  <2>1. /\ answers'[r] = answers[r] + 1 /\ tracked' = tracked
        /\ recoverer[r] = "poll" /\ recoverer'[r] = "ending"
    BY <1>3 DEF Recover, Recovering, Answer, TypeOK, table
  <2> QED
    BY <1>0, <1>1, <1>2, <2>1 DEF RowInv, OnceInv, KeptInv, Failed
<1>4. CASE RecoverNothing(r) \/ RecoverGivesUp(r) \/ RecoverEnds(r)
  <2>3. Untrack(r)
    BY <1>4 DEF RecoverNothing, RecoverGivesUp, RecoverEnds, Recovered
  <2>1. /\ recoverer'[r] = "off" /\ answers' = answers
        /\ r \notin tracked' \/ Failed("untrack", r)'
    BY <1>4, <2>3, UntrackEffect
       DEF RecoverNothing, RecoverGivesUp, RecoverEnds, Recovered, TypeOK
  <2>4. r \in tracked' => r \in tracked
    BY <2>3, UntrackEffect
  <2>2. r \notin excused' => answers[r] > 0 \/ ~(wf[r] \in {"running", "complete"})
    BY <1>4, <1>1 DEF RecoverNothing, RecoverGivesUp, RecoverEnds, Recovering, Excuse, KeptInv
  <2> QED
    BY <1>0, <1>1, <2>1, <2>2, <2>4 DEF RowInv, OnceInv, KeptInv, Failed
<1> QED
  BY <1>3, <1>4 DEF RecoverRun

LEMMA RestartKeeps ==
    ASSUME TypeOK, NEW r \in Runs, RowInv(r), OnceInv(r), KeptInv(r), Restart
    PROVE  RowInv(r)' /\ OnceInv(r)' /\ KeptInv(r)'
<1>1. /\ poller'[r] \in {New, Gone} /\ ~Polling(r)'
      /\ poller[r] = New => poller'[r] = New
      /\ poller[r] # New => poller'[r] = Gone
  BY PollerAtWork DEF Restart, Polling, New, Gone
<1>2. /\ poller[r] = New <=> poller[r].pc = "new"
      /\ poller'[r] = New => poller'[r].pc = "new"
      /\ poller'[r] = Gone => poller'[r].pc = "gone"
  BY PollerAtWork DEF New, Gone
<1>3. /\ UNCHANGED <<tracked, failed, wf, answers>>
      /\ recoverer'[r] = IF r \in tracked THEN "poll" ELSE "off"
      /\ r \notin redo' => /\ r \notin redo /\ recoverer[r] # "ending"
                           /\ ~(poller[r].pc = "ending" /\ answers[r] > 0)
      /\ r \notin excused' => r \notin excused /\ (Polling(r) => r \in tracked)
  BY DEF Restart, Orphans, At, Excuse, table
<1>4. answers[r] \in Nat
  BY DEF TypeOK
<1>5. RowInv(r)'
  BY <1>1, <1>2, <1>3 DEF RowInv
<1>6. OnceInv(r)'
  BY <1>1, <1>2, <1>3, <1>4 DEF OnceInv, Failed
<1>7. KeptInv(r)'
  BY <1>1, <1>2, <1>3 DEF KeptInv, Polling
<1> QED
  BY <1>5, <1>6, <1>7

LEMMA RunStep == TypeOK /\ RunInv /\ [Next]_vars => RunInv'
<1> SUFFICES ASSUME TypeOK, RunInv, [Next]_vars, NEW r \in Runs
             PROVE  RowInv(r)' /\ OnceInv(r)' /\ KeptInv(r)'
  BY DEF RunInv
<1>0. RowInv(r) /\ OnceInv(r) /\ KeptInv(r)
  BY DEF RunInv
<1>1. ASSUME NEW c \in Clients, Connect(c)
      PROVE  RowInv(r)' /\ OnceInv(r)' /\ KeptInv(r)'
  BY <1>0, <1>1 DEF Connect, memory, history, table, RowInv, OnceInv, KeptInv, Polling, Failed
<1>2. ASSUME NEW c \in Clients, Close(c)
      PROVE  RowInv(r)' /\ OnceInv(r)' /\ KeptInv(r)'
  <2>1. /\ UNCHANGED <<poller, recoverer, tracked, failed, answers, redo>>
        /\ open' = open \ {c}
        /\ wf'[r] \in {wf[r], "terminated"}
        /\ r \notin excused' => r \notin excused /\ r \notin OwnRuns(c)
    BY <1>2 DEF Close, Excuse, Terminated, TypeOK, table
  <2>2. Polling(r)' <=> Polling(r)
    BY <2>1 DEF Polling
  <2>3. Polling(r) /\ r \notin excused' => poller[r].client # c
    BY <2>1 DEF OwnRuns
  <2>4. KeptInv(r)'
    BY <1>0, <2>1, <2>2, <2>3 DEF KeptInv
  <2> QED
    BY <1>0, <2>1, <2>4 DEF RowInv, OnceInv, Failed
<1>3. ASSUME NEW c \in Clients, NEW q \in Runs, Ask(c, q)
      PROVE  RowInv(r)' /\ OnceInv(r)' /\ KeptInv(r)'
  <2>1. /\ UNCHANGED <<open, recoverer, tracked, failed, wf, answers, redo, excused>>
        /\ poller[q].pc = "new"
    BY <1>3 DEF Ask, history, table, New
  <2>2. CASE q = r
    <3>1. /\ poller'[r].pc = "check" /\ poller'[r].client = c /\ c \in open
          /\ Polling(r)'
      BY <1>3, <2>2 DEF Ask, TypeOK, Polling
    <3> QED
      BY <1>0, <2>1, <2>2, <3>1 DEF RowInv, OnceInv, KeptInv, Failed
  <2>3. CASE q # r
    <3>1. poller'[r] = poller[r]
      BY <1>3, <2>3 DEF Ask, TypeOK
    <3> QED
      BY <1>0, <2>1, <3>1, UntouchedKeeps DEF Untouched, Failed
  <2> QED
    BY <2>2, <2>3
<1>4. ASSUME NEW q \in Runs, Poll(q)
      PROVE  RowInv(r)' /\ OnceInv(r)' /\ KeptInv(r)'
  <2>1. CASE q = r
    BY <1>0, <1>4, <2>1, PollKeeps
  <2>2. CASE q # r
    BY <1>0, <1>4, <2>2, PollFrame, UntouchedKeeps
  <2> QED
    BY <2>1, <2>2
<1>5. ASSUME NEW q \in Runs, RecoverRun(q)
      PROVE  RowInv(r)' /\ OnceInv(r)' /\ KeptInv(r)'
  <2>1. CASE q = r
    BY <1>0, <1>5, <2>1, RecoverKeeps
  <2>2. CASE q # r
    BY <1>0, <1>5, <2>2, RecoverFrame, UntouchedKeeps
  <2> QED
    BY <2>1, <2>2
<1>6. ASSUME NEW q \in Runs, NEW e \in {"done", "error"}, Emit(q, e)
      PROVE  RowInv(r)' /\ OnceInv(r)' /\ KeptInv(r)'
  BY <1>0, <1>6, UntouchedKeeps DEF Emit, history, table, Untouched, Failed
<1>7. ASSUME NEW q \in Runs, NEW status \in {"complete", "errored"}, Finish(q, status)
      PROVE  RowInv(r)' /\ OnceInv(r)' /\ KeptInv(r)'
  <2>1. /\ UNCHANGED <<open, poller, recoverer, tracked, failed, answers, redo, excused>>
        /\ wf'[r] = wf[r] \/ wf[r] = "running"
    BY <1>7 DEF Finish, history, table, TypeOK
  <2> QED
    BY <1>0, <2>1 DEF RowInv, OnceInv, KeptInv, Polling, Failed
<1>8. CASE CloseEnds
  <2>1. /\ UNCHANGED <<open, poller, recoverer, wf, answers, redo>>
        /\ tracked' \subseteq tracked /\ excused \subseteq excused'
        /\ failed \subseteq failed'
        /\ r \in tracked \ tracked' => r \in excused'
    <3>1. CASE activeWf = NoRun
      BY <1>8, <3>1 DEF CloseEnds, table
    <3>2. CASE activeWf # NoRun
      <4>1. activeWf \in Runs /\ Untrack(activeWf)
        BY <1>8, <3>2 DEF CloseEnds, TypeOK
      <4> QED
        BY <1>8, <3>2, <4>1, UntrackEffect DEF CloseEnds, Excuse
    <3> QED
      BY <3>1, <3>2
  <2> QED
    BY <1>0, <2>1 DEF RowInv, OnceInv, KeptInv, Polling, Failed
<1>9. CASE Restart
  BY <1>0, <1>9, RestartKeeps
<1>10. CASE UNCHANGED vars
  BY <1>0, <1>10, UntouchedKeeps DEF vars, history, table, Untouched, Failed
<1> QED
  BY <1>1, <1>2, <1>3, <1>4, <1>5, <1>6, <1>7, <1>8, <1>9, <1>10 DEF Next

-----------------------------------------------------------------------------
LEMMA PollSole ==
    ASSUME TypeOK, NEW r \in Runs, RowInv(r), SoleRun, Poll(r)
    PROVE  SoleRun'
<1> SUFFICES ASSUME Tidy'
             PROVE  /\ closers' = 0
                    /\ \A p, q \in UnderWay' : p = q
                    /\ UnderWay' # {} => activeRun'
                    /\ tracked' \subseteq UnderWay'
  BY DEF SoleRun
<1>0. Tidy
  BY PollFrame DEF Tidy, Failed
<1>1. poller[r].pc \in Pcs
  BY DEF Poll, Deny, Admit, AdmitThrows, CreateFails, Create, Track, Deliver, AnswerThrows,
         SendThrows, ErrorEvent, Synthesize, DoneTooLate, NoAnswer, ClientGone, Abort,
         TimeOut, End, At, Pcs
<1>2. Polling(r) /\ recoverer[r] = "off"
  BY <1>1 DEF Polling, Pcs, RowInv
<1>3. /\ UnderWay = {r} /\ activeRun /\ tracked \subseteq {r}
      /\ closers' = 0 /\ recoverer' = recoverer
  BY <1>0, <1>2, PollFrame DEF UnderWay, SoleRun
<1>4. UnderWay' \subseteq {r} /\ (r \in UnderWay' <=> Polling(r)')
  BY <1>2, <1>3, PollFrame DEF UnderWay, Untouched, Polling
<1>5. CASE Deny(r) \/ AdmitThrows(r)
  <2>1. ~Polling(r)' /\ tracked' = tracked /\ r \notin tracked
    BY <1>5 DEF Deny, AdmitThrows, Stop, TypeOK, Polling, Gone, At, RowInv, table
  <2> QED
    BY <1>3, <1>4, <2>1
<1>6. CASE Exit(r)
  <2>1. ~Polling(r)'
    BY <1>6, ExitEffect DEF Polling, Gone
  <2>2. tracked' = {}
    BY <1>3, <1>6, UntrackEffect DEF Exit, Tidy
  <2> QED
    BY <1>3, <1>4, <2>1, <2>2
<1>7. CASE Admit(r) \/ Create(r) \/ Track(r) \/ Deliver(r) \/ ClientGone(r)
  <2>1. activeRun' = activeRun /\ tracked' \subseteq tracked \cup {r}
    BY <1>7, InsertEffect DEF Admit, Create, Track, Deliver, ClientGone, memory, table
  <2>2. PICK pc \in Pcs : Go(r, pc)
    BY <1>7 DEF Admit, Create, Track, Deliver, ClientGone, Pcs
  <2>3. Polling(r)'
    BY <1>1, <2>2, PollerMoves, PollerAtWork DEF Pcs, Polling
  <2> QED
    BY <1>3, <1>4, <2>1, <2>3
<1> QED
  BY <1>5, <1>6, <1>7
     DEF Poll, CreateFails, AnswerThrows, SendThrows, ErrorEvent, Synthesize, DoneTooLate,
         NoAnswer, Abort, TimeOut, End

LEMMA SoleStep == TypeOK /\ RunInv /\ SoleRun /\ [Next]_vars => SoleRun'
<1> SUFFICES ASSUME TypeOK, RunInv, SoleRun, [Next]_vars PROVE SoleRun'
  OBVIOUS
<1>1. ASSUME NEW c \in Clients, Connect(c)
      PROVE  SoleRun'
  BY <1>1 DEF Connect, memory, history, table, SoleRun, Tidy, Failed, UnderWay, Polling
<1>2. ASSUME NEW c \in Clients, Close(c)
      PROVE  SoleRun'
  BY <1>2 DEF Close, SoleRun, Tidy
<1>3. ASSUME NEW c \in Clients, NEW r \in Runs, Ask(c, r)
      PROVE  SoleRun'
  <2> SUFFICES ASSUME Tidy'
               PROVE  /\ closers' = 0
                      /\ \A p, q \in UnderWay' : p = q
                      /\ UnderWay' # {} => activeRun'
                      /\ tracked' \subseteq UnderWay'
    BY DEF SoleRun
  <2>0. Tidy
    BY <1>3 DEF Ask, history, table, Tidy, Failed
  <2>1. UnderWay = {} /\ tracked = {} /\ closers = 0
    BY <1>3, <2>0 DEF Ask, SoleRun
  <2>2. UnderWay' \subseteq {r}
    BY <1>3, <2>1 DEF UnderWay, Ask, Polling, TypeOK
  <2> QED
    BY <1>3, <2>1, <2>2 DEF Ask, table
<1>4. ASSUME NEW r \in Runs, Poll(r)
      PROVE  SoleRun'
  BY <1>4, PollSole DEF RunInv
<1>5. ASSUME NEW r \in Runs, RecoverRun(r)
      PROVE  SoleRun'
  <2> SUFFICES ASSUME Tidy'
               PROVE  /\ closers' = 0
                      /\ \A p, q \in UnderWay' : p = q
                      /\ UnderWay' # {} => activeRun'
                      /\ tracked' \subseteq UnderWay'
    BY DEF SoleRun
  <2>0. Tidy
    BY <1>5, RecoverFrame DEF Tidy, Failed
  <2>1. r \in UnderWay
    BY <1>5 DEF RecoverRun, Recover, RecoverNothing, RecoverGivesUp, RecoverEnds, Recovering,
                UnderWay
  <2>2. UnderWay = {r} /\ activeRun /\ tracked \subseteq {r} /\ closers = 0
    BY <2>0, <2>1 DEF SoleRun
  <2>3. UnderWay' \subseteq {r}
    BY <1>5, <2>2, RecoverFrame DEF UnderWay, Untouched, Polling
  <2>4. closers' = 0 /\ activeRun'
    BY <1>5, <2>2, RecoverFrame DEF memory
  <2>5. CASE Recover(r)
    <3>1. recoverer'[r] = "ending" /\ tracked' = tracked
      BY <2>5 DEF Recover, TypeOK, table
    <3> QED
      BY <2>2, <2>3, <2>4, <3>1 DEF UnderWay
  <2>6. CASE Recovered(r)
    <3>1. tracked' = {}
      BY <2>2, <2>6, UntrackEffect DEF Recovered, Tidy
    <3> QED
      BY <2>3, <2>4, <3>1
  <2> QED
    BY <1>5, <2>5, <2>6 DEF RecoverRun, RecoverNothing, RecoverGivesUp, RecoverEnds
<1>6. ASSUME NEW r \in Runs,
             \/ \E e \in {"done", "error"} : Emit(r, e)
             \/ \E status \in {"complete", "errored"} : Finish(r, status)
      PROVE  SoleRun'
  BY <1>6 DEF Emit, Finish, memory, history, table, SoleRun, Tidy, Failed, UnderWay, Polling
<1>7. CASE CloseEnds
  <2>1. closed' = closed /\ failed \subseteq failed' /\ closers # 0
    <3>1. failed \subseteq failed'
      BY <1>7, UntrackEffect DEF CloseEnds, TypeOK, table
    <3> QED
      BY <1>7, <3>1 DEF CloseEnds, Awaiting
  <2>2. ~Tidy
    BY <2>1 DEF SoleRun
  <2> QED
    BY <2>1, <2>2 DEF SoleRun, Tidy, Failed
<1>8. CASE Restart
  <2>1. UnderWay' = tracked
    <3>1. \A r \in Runs : ~Polling(r)'
      BY <1>8 DEF Restart, TypeOK, Polling, Gone
    <3>2. \A r \in Runs : recoverer'[r] # "off" <=> r \in tracked
      BY <1>8 DEF Restart, Orphans
    <3> QED
      BY <3>1, <3>2 DEF UnderWay, TypeOK
  <2>2. tracked' = tracked /\ closers' = 0 /\ (Tidy' <=> Tidy)
        /\ (activeRun' <=> tracked # {})
    BY <1>8 DEF Restart, GuardRebuilt, table, Tidy, Failed
  <2>3. Tidy => \A p, q \in tracked : p = q
    BY DEF SoleRun
  <2> QED
    BY <2>1, <2>2, <2>3 DEF SoleRun
<1>9. CASE UNCHANGED vars
  BY <1>9 DEF vars, memory, history, table, SoleRun, Tidy, Failed, UnderWay, Polling
<1> QED
  BY <1>1, <1>2, <1>3, <1>4, <1>5, <1>6, <1>7, <1>8, <1>9 DEF Next

LEMMA SoleIsOne == SoleRun => OneRunUnlessClosed
<1> SUFFICES ASSUME SoleRun, Tidy PROVE Cardinality(UnderWay) <= 1
  BY DEF OneRunUnlessClosed, Tidy
<1>1. CASE UnderWay = {}
  BY <1>1, FS_EmptySet
<1>2. CASE UnderWay # {}
  <2>1. PICK r \in UnderWay : UnderWay = {r}
    BY <1>2 DEF SoleRun
  <2> QED
    BY <2>1, FS_Singleton
<1> QED
  BY <1>1, <1>2

-----------------------------------------------------------------------------
LEMMA InitRun == Init => GuardIsFreed /\ RunInv /\ SoleRun
<1> SUFFICES ASSUME Init PROVE GuardIsFreed /\ RunInv /\ SoleRun
  OBVIOUS
<1>1. GuardIsFreed
  BY DEF Init, GuardIsFreed
<1>2. \A r \in Runs : poller[r].pc = "new" /\ ~Polling(r) /\ recoverer[r] = "off"
  BY DEF Init, New, Polling
<1>3. RunInv
  BY <1>2 DEF Init, RunInv, RowInv, OnceInv, KeptInv
<1>4. SoleRun
  BY <1>2 DEF Init, SoleRun, UnderWay
<1> QED
  BY <1>1, <1>3, <1>4

(* The guard is never left set without a run under way, as long as the     *)
(* object does not restart: every way out of a run clears it, also when it *)
(* races the handler of a closed connection.                               *)
THEOREM GuardFreed == Spec => []GuardIsFreed
<1>1. TypeOK /\ GuardIsFreed /\ [Next]_vars => GuardIsFreed'
  BY GuardStep
<1> QED
  BY <1>1, InitRun, TypeCorrect, PTL DEF Spec

(* While no client closes its connection, and every row can be deleted, a  *)
(* session runs one message at a time, any number of restarts and          *)
(* recoveries included.                                                    *)
THEOREM OneRun == Spec => []OneRunUnlessClosed
<1>1. RunInv /\ TypeOK /\ [Next]_vars => RunInv'
  BY RunStep
<1>2. TypeOK /\ RunInv /\ SoleRun /\ [Next]_vars => SoleRun'
  BY SoleStep
<1>3. SoleRun => OneRunUnlessClosed
  BY SoleIsOne
<1> QED
  BY <1>1, <1>2, <1>3, InitRun, TypeCorrect, PTL DEF Spec

(* No answer is recorded by a poller and by the recovery of its run both.  *)
THEOREM AnswersRecordedOnce == Spec => []AnswerRecordedOnce
<1>1. RunInv /\ TypeOK /\ [Next]_vars => RunInv'
  BY RunStep
<1>2. RunInv => AnswerRecordedOnce
  BY DEF RunInv, OnceInv, AnswerRecordedOnce
<1> QED
  BY <1>1, <1>2, InitRun, TypeCorrect, PTL DEF Spec

(* The answer of a complete workflow reaches the history, over any number  *)
(* of restarts, unless the run was given up in one of the ways that        *)
(* AnswerKept names.                                                       *)
THEOREM AnswersKept == Spec => []AnswerKept
<1>1. RunInv /\ TypeOK /\ [Next]_vars => RunInv'
  BY RunStep
<1>2. TypeOK /\ RunInv => AnswerKept
  BY PollerAtWork DEF RunInv, KeptInv, AnswerKept, UnderWay, Polling
<1> QED
  BY <1>1, <1>2, InitRun, TypeCorrect, PTL DEF Spec
=============================================================================
