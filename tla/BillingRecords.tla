--------------------------- MODULE BillingRecords ---------------------------
(***************************************************************************)
(* The billing records of finished runs: writeBillingRecord of             *)
(* runtime/db.ts and replayBillingDLQ, which the cron handler calls for    *)
(* the records that could not be written.                                  *)
(*                                                                         *)
(* A call looks for a row of its session, inserts one, inserts again when  *)
(* anything throws, and puts the record into the KV store when that throws *)
(* too.  The database can fail before or after it commits.                 *)
(***************************************************************************)
EXTENDS Integers, FiniteSets

CONSTANTS
    Calls,      \* calls of writeBillingRecord by the runs, with an org
    Sweeps,     \* calls of replayBillingDLQ
    SessionOf,  \* the session of each call's record
    MaxFaults   \* bound on the statements that throw, and on evictions

ASSUME BillingAssumption ==
    /\ IsFiniteSet(Calls) /\ IsFiniteSet(Sweeps) /\ Calls \cap Sweeps = {}
    /\ MaxFaults \in Nat

VARIABLES
    rows,       \* number of inference rows of each session
    letters,    \* records in the dead-letter queue, as the call each is of
    writer,     \* local state of each call and each sweep
    faults,     \* the bound's counter
    lapses,     \* history: for each session, the inserts not covered by a check
    dropped     \* history: calls whose record nothing holds any more

history == <<lapses, dropped>>
vars == <<rows, letters, writer, faults, history>>

Sessions == {SessionOf[c] : c \in Calls}
Writers == Calls \cup Sweeps

New == [pc |-> "new"]
Done == [pc |-> "done"]
Writing == [pc: {"select", "insert", "retry", "dead", "delete"}, of: Calls]

TypeOK ==
    /\ rows \in [Sessions -> Nat]
    /\ letters \subseteq Calls
    /\ writer \in [Writers -> {New, Done} \cup Writing]
    /\ \A c \in Calls : writer[c] \in Writing => writer[c].of = c /\ writer[c].pc # "delete"
    /\ faults \in 0..MaxFaults
    /\ lapses \in [Sessions -> Nat]
    /\ dropped \subseteq Calls

Init ==
    /\ rows = [s \in Sessions |-> 0]
    /\ letters = {}
    /\ writer = [w \in Writers |-> New]
    /\ faults = 0
    /\ lapses = [s \in Sessions |-> 0]
    /\ dropped = {}

-----------------------------------------------------------------------------
At(w, pc) == writer[w].pc = pc
Go(w, pc) == writer' = [writer EXCEPT ![w].pc = pc]
SessionAt(w) == SessionOf[writer[w].of]
Fault == faults < MaxFaults /\ faults' = faults + 1
Lapse(s) == lapses' = [lapses EXCEPT ![s] = @ + 1]

(* The end of writeBillingRecord, which never tells its caller that it     *)
(* failed; a sweep goes on to delete the letter.                           *)
ReturnToSweep(w) == writer' = [writer EXCEPT ![w].pc = "delete"]
Return(w) ==
    writer' = [writer EXCEPT ![w] = IF w \in Calls THEN Done ELSE [@ EXCEPT !.pc = "delete"]]

(* Those that have looked for a row of the session and will insert one.    *)
Unchecked(s) == {w \in Writers : writer[w].pc \in {"insert", "retry"} /\ SessionAt(w) = s}

(* Conditions that a plausible mistake would change, each preceded by the  *)
(* form the mistake would give it.                                         *)
BilledNever(s) == FALSE
Billed(s) == rows[s] > 0

UnsavedLetters(w) == letters
SavedLetters(w) == letters \cup {writer[w].of}

LettersKept(w) == letters
LettersLeft(w) == letters \ {writer[w].of}

-----------------------------------------------------------------------------
Begin(c) ==
    /\ writer[c] = New
    /\ writer' = [writer EXCEPT ![c] = [pc |-> "select", of |-> c]]
    /\ UNCHANGED <<rows, letters, faults, history>>

(* The database cannot be reached at all: the caller's catch drops the     *)
(* record, a sweep leaves the letter where it is.                          *)
NoDatabase(w) ==
    /\ At(w, "select") /\ Fault
    /\ writer' = [writer EXCEPT ![w] = Done]
    /\ dropped' = IF w \in Calls THEN dropped \cup {w} ELSE dropped
    /\ UNCHANGED <<rows, letters, lapses>>

Select(w) ==
    /\ At(w, "select")
    /\ IF Billed(SessionAt(w)) THEN Return(w) /\ UNCHANGED lapses
       ELSE /\ Go(w, "insert")
            /\ IF Unchecked(SessionAt(w)) = {} THEN UNCHANGED lapses
               ELSE Lapse(SessionAt(w))
    /\ UNCHANGED <<rows, letters, faults, dropped>>

(* A check that throws is followed by an insert, too.                      *)
SelectThrows(w) ==
    /\ At(w, "select") /\ Fault
    /\ Go(w, "retry")
    /\ Lapse(SessionAt(w))
    /\ UNCHANGED <<rows, letters, dropped>>

Insert(w) ==
    /\ writer[w].pc \in {"insert", "retry"}
    /\ rows' = [rows EXCEPT ![SessionAt(w)] = @ + 1]
    /\ Return(w)
    /\ UNCHANGED <<letters, faults, history>>

(* The insert throws, before or after the commit.                          *)
InsertThrows(w) ==
    /\ writer[w].pc \in {"insert", "retry"} /\ Fault
    /\ \/ UNCHANGED <<rows, lapses>>
       \/ rows' = [rows EXCEPT ![SessionAt(w)] = @ + 1] /\ Lapse(SessionAt(w))
    /\ Go(w, IF At(w, "insert") THEN "retry" ELSE "dead")
    /\ UNCHANGED <<letters, dropped>>

(* Both inserts threw.  The callers pass the KV store for the record; a    *)
(* sweep does not, and goes on to delete the letter it has read.           *)
DeadLetter(c) ==
    /\ At(c, "dead") /\ c \in Calls
    /\ letters' = SavedLetters(c)
    /\ Return(c)
    /\ UNCHANGED <<rows, faults, history>>

DeadLetterThrows(c) ==
    /\ At(c, "dead") /\ c \in Calls /\ Fault
    /\ dropped' = dropped \cup {c}
    /\ Return(c)
    /\ UNCHANGED <<rows, letters, lapses>>

NoDeadLetter(k) ==
    /\ At(k, "dead") /\ k \in Sweeps
    /\ dropped' = dropped \cup {writer[k].of}
    /\ Return(k)
    /\ UNCHANGED <<rows, letters, faults, lapses>>

(* A call is evicted with its worker: its record is lost; a sweep leaves   *)
(* its letter.                                                             *)
Evicted(w) ==
    /\ writer[w] \in Writing /\ Fault
    /\ writer' = [writer EXCEPT ![w] = Done]
    /\ dropped' = IF w \in Calls THEN dropped \cup {w} ELSE dropped
    /\ UNCHANGED <<rows, letters, lapses>>

-----------------------------------------------------------------------------
(* replayBillingDLQ: for each letter listed, read it, write its record and *)
(* delete it.  Two sweeps may read the same letter.                        *)
Replay(k, c) ==
    /\ writer[k].pc \in {"new", "done"} /\ c \in letters
    /\ writer' = [writer EXCEPT ![k] = [pc |-> "select", of |-> c]]
    /\ UNCHANGED <<rows, letters, faults, history>>

Delete(k) ==
    /\ At(k, "delete")
    /\ letters' = LettersLeft(k)
    /\ writer' = [writer EXCEPT ![k] = Done]
    /\ UNCHANGED <<rows, faults, history>>

Step(w) ==
    \/ NoDatabase(w) \/ Select(w) \/ SelectThrows(w) \/ Insert(w) \/ InsertThrows(w)
    \/ DeadLetter(w) \/ DeadLetterThrows(w) \/ NoDeadLetter(w) \/ Delete(w)

Next ==
    \/ \E c \in Calls : Begin(c)
    \/ \E k \in Sweeps, c \in Calls : Replay(k, c)
    \/ \E w \in Writers : Step(w) \/ Evicted(w)

Spec == Init /\ [][Next]_vars

(* Calls run on, and the cron handler comes by again and again.            *)
FairSpec ==
    /\ Spec
    /\ \A w \in Writers : WF_vars(Step(w))
    /\ \A c \in Calls : WF_vars(\E k \in Sweeps : Replay(k, c))

-----------------------------------------------------------------------------
(* A session is billed once, but for the inserts that no check covers: one *)
(* for each check that threw or ran beside another writer of the session,  *)
(* and one for each insert that threw after its commit.  The dead-letter   *)
(* queue and its replays add none.                                         *)
BilledOnce == \A s \in Sessions : rows[s] <= 1 + lapses[s]

(* The record of a call that has ended is a row, or a letter, or nobody    *)
(* holds it: the call was evicted or found no database, the KV store       *)
(* failed after the database, or the inserts of a replay failed.  (A       *)
(* letter also expires after seven days, db.ts:556; time does not pass     *)
(* here.)                                                                  *)
RecordHeld ==
    \A c \in Calls \ dropped :
        writer[c] = Done => rows[SessionOf[c]] > 0 \/ c \in letters

(* The dead-letter queue drains once the faults stop.                      *)
LettersDrain == <>[](letters = {})
=============================================================================
