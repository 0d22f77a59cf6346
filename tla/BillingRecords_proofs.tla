------------------------ MODULE BillingRecords_proofs ------------------------
(***************************************************************************)
(* Proofs about BillingRecords, for any calls, sessions and sweeps.        *)
(***************************************************************************)
EXTENDS BillingRecords, FiniteSetTheorems, TLAPS

Pcs == {"select", "insert", "retry", "dead", "delete"}

(* A writer at work is about one call, a call about itself.                *)
LEMMA WriterAtWork ==
    ASSUME TypeOK, NEW w \in Writers, writer[w].pc \in Pcs
    PROVE  /\ writer[w] \in Writing
           /\ writer[w].of \in Calls
           /\ SessionAt(w) \in Sessions
           /\ w \in Calls => writer[w].of = w /\ writer[w].pc # "delete"
<1>1. writer[w] \in {New, Done} \cup Writing
  BY DEF TypeOK
<1>2. writer[w] \in Writing
  BY <1>1 DEF New, Done, Pcs
<1>3. writer[w].of \in Calls
  BY <1>2 DEF Writing
<1> QED
  BY <1>2, <1>3 DEF TypeOK, SessionAt, Sessions

(* A writer that goes on at another point of its work, or ends it.         *)
LEMMA WriterType ==
    ASSUME TypeOK, NEW w \in Writers, writer[w].pc \in Pcs,
           \/ \E pc \in Pcs \ {"delete"} : Go(w, pc)
           \/ Return(w)
           \/ writer' = [writer EXCEPT ![w] = Done]
    PROVE  /\ writer' \in [Writers -> {New, Done} \cup Writing]
           /\ \A c \in Calls : writer'[c] \in Writing =>
                 writer'[c].of = c /\ writer'[c].pc # "delete"
<1>1. /\ writer[w] \in Writing
      /\ w \in Calls => writer[w].of = w /\ writer[w].pc # "delete"
  BY WriterAtWork
<1>2. writer \in [Writers -> {New, Done} \cup Writing]
  BY DEF TypeOK
<1>3. ASSUME NEW pc \in Pcs, Go(w, pc), w \in Calls => pc # "delete"
      PROVE  /\ writer' \in [Writers -> {New, Done} \cup Writing]
             /\ \A c \in Calls : writer'[c] \in Writing =>
                   writer'[c].of = c /\ writer'[c].pc # "delete"
  <2>1. [writer[w] EXCEPT !.pc = pc] \in Writing
    BY <1>1 DEF Writing, Pcs
  <2>2. [writer[w] EXCEPT !.pc = pc].of = writer[w].of
        /\ [writer[w] EXCEPT !.pc = pc].pc = pc
    BY <1>1 DEF Writing
  <2>3. writer' = [writer EXCEPT ![w] = [writer[w] EXCEPT !.pc = pc]]
    BY <1>3 DEF Go
  <2> HIDE <1>3
  <2> QED
    BY <1>1, <1>2, <1>3, <2>1, <2>2, <2>3 DEF TypeOK
<1>4. ASSUME writer' = [writer EXCEPT ![w] = Done]
      PROVE  /\ writer' \in [Writers -> {New, Done} \cup Writing]
             /\ \A c \in Calls : writer'[c] \in Writing =>
                   writer'[c].of = c /\ writer'[c].pc # "delete"
  <2>1. Done \notin Writing
    BY DEF Done, Writing
  <2> QED
    BY <1>2, <1>4, <2>1 DEF TypeOK
<1>5. CASE Return(w)
  <2>1. CASE w \in Calls
    BY <1>4, <1>5, <2>1 DEF Return
  <2>2. CASE w \notin Calls
    <3>1. Go(w, "delete")
      BY <1>2, <1>5, <2>2 DEF Return, Go
    <3> QED
      BY <1>3, <2>2, <3>1 DEF Pcs
  <2> QED
    BY <2>1, <2>2
<1> QED
  BY <1>3, <1>4, <1>5

LEMMA InitType == Init => TypeOK
<1> SUFFICES ASSUME Init PROVE TypeOK
  OBVIOUS
<1>1. New \notin Writing
  BY DEF New, Writing
<1> QED
  BY <1>1, BillingAssumption DEF Init, TypeOK, Writers

LEMMA NextType == TypeOK /\ [Next]_vars => TypeOK'
<1> SUFFICES ASSUME TypeOK, [Next]_vars PROVE TypeOK'
  OBVIOUS
<1> USE BillingAssumption
<1>1. ASSUME NEW w \in Writers, NEW c \in Calls, w \in Calls => w = c,
             writer' = [writer EXCEPT ![w] = [pc |-> "select", of |-> c]],
             UNCHANGED <<rows, letters, faults, history>>
      PROVE  TypeOK'
  <2>1. [pc |-> "select", of |-> c] \in Writing
    BY DEF Writing
  <2> QED
    BY <1>1, <2>1 DEF TypeOK, history
<1>2. ASSUME NEW c \in Calls, Begin(c)
      PROVE  TypeOK'
  BY <1>1, <1>2 DEF Begin, Writers
<1>3. ASSUME NEW k \in Sweeps, NEW c \in Calls, Replay(k, c)
      PROVE  TypeOK'
  BY <1>1, <1>3 DEF Replay, Writers
<1>4. ASSUME NEW w \in Writers, Step(w) \/ Evicted(w)
      PROVE  TypeOK'
  <2>1. writer[w].pc \in Pcs
    BY <1>4 DEF Step, NoDatabase, Select, SelectThrows, Insert, InsertThrows,
                DeadLetter, DeadLetterThrows, NoDeadLetter, Delete, Evicted, At, Pcs,
                Writing
  <2>2. writer[w].of \in Calls /\ SessionAt(w) \in Sessions
    BY <2>1, WriterAtWork
  <2>3. /\ writer' \in [Writers -> {New, Done} \cup Writing]
        /\ \A c \in Calls : writer'[c] \in Writing =>
              writer'[c].of = c /\ writer'[c].pc # "delete"
    <3>1. \/ \E pc \in Pcs \ {"delete"} : Go(w, pc)
          \/ Return(w)
          \/ writer' = [writer EXCEPT ![w] = Done]
      BY <1>4 DEF Step, NoDatabase, Select, SelectThrows, Insert, InsertThrows,
                  DeadLetter, DeadLetterThrows, NoDeadLetter, Delete, Evicted, Pcs
    <3> QED
      BY <2>1, <3>1, WriterType
  <2>4. rows' \in [Sessions -> Nat] /\ lapses' \in [Sessions -> Nat]
    BY <1>4, <2>2
       DEF TypeOK, Step, NoDatabase, Select, SelectThrows, Insert, InsertThrows, Lapse,
           DeadLetter, DeadLetterThrows, NoDeadLetter, Delete, Evicted, history
  <2>5. letters' \subseteq Calls /\ dropped' \subseteq Calls
    BY <1>4, <2>2
       DEF TypeOK, Step, NoDatabase, Select, SelectThrows, Insert, InsertThrows,
           SavedLetters, LettersLeft, DeadLetter, DeadLetterThrows, NoDeadLetter, Delete,
           Evicted, history
  <2>6. faults' \in 0..MaxFaults
    BY <1>4
       DEF TypeOK, Step, NoDatabase, Select, SelectThrows, Insert, InsertThrows, Fault,
           DeadLetter, DeadLetterThrows, NoDeadLetter, Delete, Evicted
  <2> QED
    BY <2>3, <2>4, <2>5, <2>6 DEF TypeOK
<1>5. CASE UNCHANGED vars
  BY <1>5 DEF vars, history, TypeOK
<1> QED
  BY <1>2, <1>3, <1>4, <1>5 DEF Next

(* Every variable keeps its type; in particular no call deletes a letter.  *)
THEOREM TypeCorrect == Spec => []TypeOK
  BY InitType, NextType, PTL DEF Spec

-----------------------------------------------------------------------------
(* What a sweep relies on when it deletes a letter: the record is a row,   *)
(* or was given up.                                                        *)
Safe(c) == c \in dropped \/ rows[SessionOf[c]] > 0
SafeAfter(c) == c \in dropped' \/ rows'[SessionOf[c]] > 0
DeleteInv == \A k \in Sweeps : writer[k].pc = "delete" => Safe(writer[k].of)
HeldInv == DeleteInv /\ RecordHeld

(* Rows are never deleted, and nothing dropped comes back.                 *)
LEMMA SafeStays ==
    ASSUME TypeOK, [Next]_vars, NEW c \in Calls, Safe(c)
    PROVE  SafeAfter(c)
<1>1. SessionOf[c] \in Sessions
  BY DEF Sessions
<1>2. dropped \subseteq dropped'
  BY DEF Next, Begin, Replay, Step, NoDatabase, Select, SelectThrows, Insert,
         InsertThrows, DeadLetter, DeadLetterThrows, NoDeadLetter, Delete, Evicted,
         vars, history
<1>3. rows' = rows \/ \E s \in Sessions : rows' = [rows EXCEPT ![s] = @ + 1]
  <2>1. ASSUME NEW w \in Writers, Insert(w) \/ InsertThrows(w)
        PROVE  rows' = rows \/ \E s \in Sessions : rows' = [rows EXCEPT ![s] = @ + 1]
    <3>1. SessionAt(w) \in Sessions
      BY <2>1, WriterAtWork DEF Insert, InsertThrows, Pcs
    <3> QED
      BY <2>1, <3>1 DEF Insert, InsertThrows
  <2> QED
    BY <2>1 DEF Next, Begin, Replay, Step, NoDatabase, Select, SelectThrows,
                DeadLetter, DeadLetterThrows, NoDeadLetter, Delete, Evicted, vars
<1> QED
  BY <1>1, <1>2, <1>3 DEF Safe, SafeAfter, TypeOK

(* A call or a sweep that returns has seen or written a row of the         *)
(* session, put the record into the queue, or given it up.                 *)
LEMMA ReturnIsSafe ==
    ASSUME TypeOK, NEW w \in Writers,
           Select(w) \/ Insert(w) \/ DeadLetter(w) \/ DeadLetterThrows(w) \/ NoDeadLetter(w),
           Return(w)
    PROVE  \/ SafeAfter(writer[w].of)
           \/ w \in Calls /\ writer[w].of \in letters'
<1>1. /\ writer[w].of \in Calls /\ SessionAt(w) \in Sessions
      /\ w \in Calls => writer[w].of = w /\ writer[w].pc # "delete"
      /\ writer \in [Writers -> {New, Done} \cup Writing]
  BY WriterAtWork
     DEF Select, Insert, DeadLetter, DeadLetterThrows, NoDeadLetter, At, Pcs, TypeOK
<1> DEFINE c == writer[w].of
<1>2. CASE Insert(w)
  <2>1. rows'[SessionAt(w)] = rows[SessionAt(w)] + 1 /\ rows[SessionAt(w)] \in Nat
    BY <1>1, <1>2 DEF Insert, TypeOK
  <2> QED
    BY <2>1 DEF Safe, SafeAfter, SessionAt
<1>3. CASE Select(w)
  <2>1. CASE Billed(SessionAt(w))
    BY <1>3, <2>1 DEF Select, Billed, Safe, SafeAfter, SessionAt
  <2>2. CASE ~Billed(SessionAt(w))
    <3>1. Go(w, "insert")
      BY <1>3, <2>2 DEF Select
    <3>2. writer'[w].pc = "insert"
      BY <1>1, <1>3, <3>1, WriterAtWork DEF Go, Select, At, Pcs, Writing
    <3>3. writer'[w].pc \in {"done", "delete"}
      BY <1>1, <1>3, WriterAtWork DEF Return, Done, Select, At, Pcs, Writing
    <3> QED
      BY <3>2, <3>3
  <2> QED
    BY <2>1, <2>2
<1>4. CASE DeadLetter(w)
  BY <1>4 DEF DeadLetter, SavedLetters
<1>5. CASE DeadLetterThrows(w) \/ NoDeadLetter(w)
  BY <1>1, <1>5 DEF DeadLetterThrows, NoDeadLetter, Safe, SafeAfter
<1> QED
  BY <1>2, <1>3, <1>4, <1>5

LEMMA InitHeld == Init => HeldInv
  BY DEF Init, HeldInv, DeleteInv, RecordHeld, Writers, New, Done

LEMMA NextHeld == TypeOK /\ HeldInv /\ [Next]_vars => HeldInv'
<1> SUFFICES ASSUME TypeOK, HeldInv, [Next]_vars PROVE HeldInv'
  OBVIOUS
<1> USE BillingAssumption
<1>0. writer \in [Writers -> {New, Done} \cup Writing]
  BY DEF TypeOK
(* What another writer does leaves a sweep at its letter and a call at rest. *)
<1>1. ASSUME NEW k \in Sweeps, writer'[k] = writer[k], writer[k].pc = "delete"
      PROVE  SafeAfter(writer'[k].of)
  <2>1. Safe(writer[k].of) /\ writer[k].of \in Calls
    BY <1>1, WriterAtWork DEF HeldInv, DeleteInv, Writers, Pcs
  <2> QED
    BY <1>1, <2>1, SafeStays DEF Safe, SafeAfter
<1>2. ASSUME NEW c \in Calls, writer[c] = Done, c \notin dropped'
      PROVE  rows'[SessionOf[c]] > 0 \/ c \in letters'
  <2>1. dropped \subseteq dropped'
    BY DEF Next, Begin, Replay, Step, NoDatabase, Select, SelectThrows, Insert,
           InsertThrows, DeadLetter, DeadLetterThrows, NoDeadLetter, Delete, Evicted,
           vars, history
  <2>2. rows[SessionOf[c]] > 0 \/ c \in letters
    BY <1>2, <2>1 DEF HeldInv, RecordHeld
  <2>3. CASE rows[SessionOf[c]] > 0
    BY <1>2, <2>3, SafeStays DEF Safe, SafeAfter
  <2>4. CASE c \in letters /\ \E k \in Writers : Delete(k)
    <3>1. PICK k \in Writers : Delete(k)
      BY <2>4
    <3>2. k \in Sweeps
      BY <3>1, WriterAtWork DEF Delete, At, Pcs, Writers
    <3>3. Safe(writer[k].of) /\ writer[k].of \in Calls
      BY <3>1, <3>2, WriterAtWork DEF HeldInv, DeleteInv, Delete, At, Pcs
    <3>4. CASE c = writer[k].of
      BY <1>2, <3>3, <3>4, SafeStays DEF Safe, SafeAfter
    <3>5. CASE c # writer[k].of
      BY <2>4, <3>1, <3>5 DEF Delete, LettersLeft
    <3> QED
      BY <3>4, <3>5
  <2>5. CASE c \in letters /\ ~\E k \in Writers : Delete(k)
    BY <2>5 DEF Next, Begin, Replay, Step, NoDatabase, Select, SelectThrows, Insert,
           InsertThrows, DeadLetter, DeadLetterThrows, NoDeadLetter, SavedLetters,
           Evicted, vars
  <2> QED
    BY <2>2, <2>3, <2>4, <2>5
<1>3. ASSUME NEW w \in Writers,
             \A v \in Writers \ {w} : writer'[v] = writer[v],
             \/ writer'[w].pc \notin {"done", "delete"}
             \/ w \in Sweeps /\ writer'[w].pc = "delete" /\ SafeAfter(writer'[w].of)
             \/ /\ w \in Calls /\ writer'[w] = Done
                /\ SafeAfter(w) \/ w \in letters'
             \/ w \in Sweeps /\ writer'[w] = Done
      PROVE  HeldInv'
  <2>1. ASSUME NEW k \in Sweeps, writer'[k].pc = "delete"
        PROVE  SafeAfter(writer'[k].of)
    BY <1>1, <1>3, <2>1 DEF Writers, Done
  <2>2. ASSUME NEW c \in Calls \ dropped', writer'[c] = Done
        PROVE  rows'[SessionOf[c]] > 0 \/ c \in letters'
    BY <1>2, <1>3, <2>2 DEF Writers, Done, Safe, SafeAfter
  <2> QED
    BY <2>1, <2>2 DEF HeldInv, DeleteInv, RecordHeld, Safe, SafeAfter
<1>4. ASSUME NEW w \in Writers, NEW c,
             writer' = [writer EXCEPT ![w] = [pc |-> "select", of |-> c]]
      PROVE  HeldInv'
  BY <1>0, <1>3, <1>4
<1>5. ASSUME NEW w \in Writers, writer[w].pc \in Pcs,
             NEW pc \in Pcs \ {"delete"}, Go(w, pc)
      PROVE  HeldInv'
  <2>1. writer'[w].pc = pc /\ \A v \in Writers \ {w} : writer'[v] = writer[v]
    BY <1>0, <1>5, WriterAtWork DEF Go, Writing
  <2> QED
    BY <1>3, <2>1 DEF Pcs
<1>6. ASSUME NEW w \in Writers, Return(w),
             Select(w) \/ Insert(w) \/ DeadLetter(w) \/ DeadLetterThrows(w)
               \/ NoDeadLetter(w)
      PROVE  HeldInv'
  <2>1. \/ SafeAfter(writer[w].of)
        \/ w \in Calls /\ writer[w].of \in letters'
    BY <1>6, ReturnIsSafe
  <2>2. /\ writer[w] \in Writing
        /\ w \in Calls => writer[w].of = w
    BY <1>6, WriterAtWork
       DEF Select, Insert, DeadLetter, DeadLetterThrows, NoDeadLetter, At, Pcs
  <2>3. CASE w \in Calls
    BY <1>0, <1>3, <1>6, <2>1, <2>2, <2>3 DEF Return
  <2>4. CASE w \notin Calls
    <3>1. writer'[w].pc = "delete" /\ writer'[w].of = writer[w].of
          /\ \A v \in Writers \ {w} : writer'[v] = writer[v]
      BY <1>0, <1>6, <2>2, <2>4 DEF Return, Writing
    <3>2. SafeAfter(writer'[w].of)
      BY <2>1, <2>4, <3>1 DEF Safe, SafeAfter
    <3> QED
      BY <1>3, <2>4, <3>1, <3>2 DEF Writers
  <2> QED
    BY <2>3, <2>4
<1>7. ASSUME NEW w \in Writers, NoDatabase(w) \/ Evicted(w) \/ Delete(w)
      PROVE  HeldInv'
  <2>1. writer'[w] = Done /\ \A v \in Writers \ {w} : writer'[v] = writer[v]
    BY <1>0, <1>7 DEF NoDatabase, Evicted, Delete
  <2>2. CASE w \in Calls
    <3>1. w \in dropped'
      BY <1>7, <2>2, WriterAtWork DEF NoDatabase, Evicted, Delete, At, Pcs
    <3> QED
      BY <1>3, <2>1, <2>2, <3>1 DEF Safe, SafeAfter
  <2>3. CASE w \in Sweeps
    BY <1>3, <2>1, <2>3
  <2> QED
    BY <2>2, <2>3 DEF Writers
<1>8. ASSUME NEW w \in Writers, Step(w)
      PROVE  HeldInv'
  <2>1. CASE Select(w)
    BY <1>5, <1>6, <2>1 DEF Select, At, Pcs
  <2>2. CASE SelectThrows(w) \/ InsertThrows(w)
    BY <1>5, <2>2 DEF SelectThrows, InsertThrows, At, Pcs
  <2>3. CASE Insert(w) \/ DeadLetter(w) \/ DeadLetterThrows(w) \/ NoDeadLetter(w)
    BY <1>6, <2>3 DEF Insert, DeadLetter, DeadLetterThrows, NoDeadLetter
  <2> QED
    BY <1>7, <1>8, <2>1, <2>2, <2>3 DEF Step
<1>9. CASE UNCHANGED vars
  BY <1>9 DEF vars, history, HeldInv, DeleteInv, Safe, SafeAfter, RecordHeld
<1> QED
  BY <1>4, <1>7, <1>8, <1>9 DEF Next, Begin, Replay, Writers

(* The record of a call that has ended is a row or a letter, unless it was *)
(* given up; no replay loses one, however sweeps, calls and faults meet.   *)
THEOREM RecordsAreHeld == Spec => []RecordHeld
<1>1. HeldInv => RecordHeld
  BY DEF HeldInv
<1> QED
  BY <1>1, InitHeld, NextHeld, TypeCorrect, PTL DEF Spec

-----------------------------------------------------------------------------
(* The rows of a session and those about to insert one are covered by one  *)
(* check and the lapses.                                                   *)
Covered(s) == rows[s] + Cardinality(Unchecked(s)) <= 1 + lapses[s]
BilledInv == \A s \in Sessions : Covered(s)

LEMMA FiniteWriters ==
    ASSUME NEW S, S \subseteq Writers
    PROVE  IsFiniteSet(S) /\ Cardinality(S) \in Nat
  BY BillingAssumption, FS_Union, FS_Subset, FS_CardinalityType DEF Writers

LEMMA UncheckedType ==
    ASSUME NEW s
    PROVE  /\ Unchecked(s) \subseteq Writers
           /\ IsFiniteSet(Unchecked(s))
           /\ Cardinality(Unchecked(s)) \in Nat
  BY FiniteWriters DEF Unchecked

(* A writer that is not about to insert afterwards adds none.              *)
LEMMA NoNewUnchecked ==
    ASSUME NEW s, NEW w \in Writers, \A v \in Writers \ {w} : writer'[v] = writer[v],
           \/ writer'[w].pc \notin {"insert", "retry"}
           \/ w \in Unchecked(s)
           \/ writer'[w].of = writer[w].of /\ SessionAt(w) # s
    PROVE  /\ Cardinality(Unchecked(s)') \in Nat
           /\ Cardinality(Unchecked(s)') <= Cardinality(Unchecked(s))
           /\ w \in Unchecked(s) /\ writer'[w].pc \notin {"insert", "retry"}
                => Cardinality(Unchecked(s)') <= Cardinality(Unchecked(s)) - 1
<1>1. Unchecked(s)' \subseteq Unchecked(s)
  BY DEF Unchecked, SessionAt
<1>2. IsFiniteSet(Unchecked(s)) /\ Cardinality(Unchecked(s)) \in Nat
  BY UncheckedType
<1>3. /\ Cardinality(Unchecked(s)') \in Nat
      /\ Cardinality(Unchecked(s)') <= Cardinality(Unchecked(s))
  BY <1>1, <1>2, FS_Subset, FS_CardinalityType
<1>4. ASSUME w \in Unchecked(s), writer'[w].pc \notin {"insert", "retry"}
      PROVE  Cardinality(Unchecked(s)') <= Cardinality(Unchecked(s)) - 1
  <2>1. Unchecked(s)' \subseteq Unchecked(s) \ {w}
    BY <1>1, <1>4 DEF Unchecked
  <2>2. /\ IsFiniteSet(Unchecked(s) \ {w})
        /\ Cardinality(Unchecked(s) \ {w}) = Cardinality(Unchecked(s)) - 1
    BY <1>2, <1>4, FS_RemoveElement
  <2> QED
    BY <2>1, <2>2, FS_Subset
<1> QED
  BY <1>3, <1>4

(* A writer adds itself at most.                                           *)
LEMMA OneNewUnchecked ==
    ASSUME NEW s, NEW w \in Writers, \A v \in Writers \ {w} : writer'[v] = writer[v]
    PROVE  /\ Cardinality(Unchecked(s)') \in Nat
           /\ Cardinality(Unchecked(s)') <= Cardinality(Unchecked(s)) + 1
<1>1. Unchecked(s)' \subseteq Unchecked(s) \cup {w}
  BY DEF Unchecked, SessionAt
<1>2. IsFiniteSet(Unchecked(s)) /\ Cardinality(Unchecked(s)) \in Nat
  BY UncheckedType
<1>3. /\ IsFiniteSet(Unchecked(s) \cup {w})
      /\ Cardinality(Unchecked(s) \cup {w}) <= Cardinality(Unchecked(s)) + 1
  <2>1. PICK U : U = Unchecked(s)
    OBVIOUS
  <2>2. IsFiniteSet(U) /\ Cardinality(U) \in Nat
    BY <1>2, <2>1
  <2>3. /\ IsFiniteSet(U \cup {w})
        /\ Cardinality(U \cup {w}) = Cardinality(U) \/ Cardinality(U \cup {w}) = Cardinality(U) + 1
    BY <2>2, FS_AddElement
  <2> QED
    BY <2>1, <2>2, <2>3
<1> QED
  BY <1>1, <1>2, <1>3, FS_Subset, FS_CardinalityType

LEMMA InitBilled == Init => BilledInv
<1> SUFFICES ASSUME Init, NEW s \in Sessions PROVE Covered(s)
  BY DEF BilledInv
<1>1. Unchecked(s) = {}
  BY DEF Init, Unchecked, New
<1> QED
  BY <1>1, FS_EmptySet DEF Init, Covered

LEMMA NextBilled == TypeOK /\ BilledInv /\ [Next]_vars => BilledInv'
<1> SUFFICES ASSUME TypeOK, BilledInv, [Next]_vars, NEW s \in Sessions PROVE Covered(s)'
  BY DEF BilledInv
<1> DEFINE before == Cardinality(Unchecked(s))
<1> DEFINE after == Cardinality(Unchecked(s)')
<1>0. /\ writer \in [Writers -> {New, Done} \cup Writing]
      /\ rows \in [Sessions -> Nat] /\ lapses \in [Sessions -> Nat]
      /\ rows[s] \in Nat /\ lapses[s] \in Nat /\ before \in Nat
      /\ rows[s] + before <= 1 + lapses[s]
  BY UncheckedType DEF TypeOK, BilledInv, Covered
<1>1. Covered(s)' <=> rows'[s] + after <= 1 + lapses'[s]
  BY DEF Covered
<1> HIDE DEF before, after
<1>2. ASSUME NEW w \in Writers, \A v \in Writers \ {w} : writer'[v] = writer[v],
             writer'[w].pc \notin {"insert", "retry"},
             UNCHANGED <<rows, lapses>>
      PROVE  Covered(s)'
  <2>1. after \in Nat /\ after <= before
    BY <1>2, NoNewUnchecked DEF before, after
  <2>2. rows'[s] = rows[s] /\ lapses'[s] = lapses[s]
    BY <1>2
  <2> QED
    BY <1>0, <1>1, <2>1, <2>2
<1>3. ASSUME NEW w \in Writers, Select(w)
      PROVE  Covered(s)'
  <2>1. writer[w] \in Writing /\ writer[w].pc = "select"
    BY <1>3, WriterAtWork DEF Select, At, Pcs
  <2>2. CASE Billed(SessionAt(w))
    <3>1. writer'[w].pc \notin {"insert", "retry"} /\ UNCHANGED <<rows, lapses>>
      BY <1>0, <1>3, <2>1, <2>2 DEF Select, Return, Done, Writing
    <3> QED
      BY <1>0, <1>2, <1>3, <2>2, <3>1 DEF Select, Return
  <2>3. CASE ~Billed(SessionAt(w))
    <3>1. /\ Go(w, "insert") /\ UNCHANGED rows
          /\ IF Unchecked(SessionAt(w)) = {} THEN UNCHANGED lapses ELSE Lapse(SessionAt(w))
      BY <1>3, <2>3 DEF Select
    <3>2. /\ \A v \in Writers \ {w} : writer'[v] = writer[v]
          /\ writer'[w].of = writer[w].of
      BY <1>0, <2>1, <3>1 DEF Go, Writing
    <3>3. CASE SessionAt(w) # s
      <4>1. after \in Nat /\ after <= before
        BY <3>2, <3>3, NoNewUnchecked DEF before, after
      <4>2. rows'[s] = rows[s] /\ lapses'[s] = lapses[s]
        BY <1>0, <3>1, <3>3 DEF Lapse
      <4> QED
        BY <1>0, <1>1, <4>1, <4>2
    <3>4. CASE SessionAt(w) = s /\ Unchecked(s) = {}
      <4>1. rows[s] = 0 /\ before = 0
        BY <1>0, <2>3, <3>4, FS_EmptySet DEF Billed, before
      <4>2. after \in Nat /\ after <= before + 1
        BY <3>2, OneNewUnchecked DEF before, after
      <4> QED
        BY <1>0, <1>1, <3>1, <3>4, <4>1, <4>2
    <3>5. CASE SessionAt(w) = s /\ Unchecked(s) # {}
      <4>1. lapses'[s] = lapses[s] + 1
        BY <1>0, <3>1, <3>5 DEF Lapse
      <4>2. after \in Nat /\ after <= before + 1
        BY <3>2, OneNewUnchecked DEF before, after
      <4> QED
        BY <1>0, <1>1, <3>1, <4>1, <4>2
    <3> QED
      BY <3>3, <3>4, <3>5
  <2> QED
    BY <2>2, <2>3
<1>4. ASSUME NEW w \in Writers, SelectThrows(w)
      PROVE  Covered(s)'
  <2>1. writer[w] \in Writing
    BY <1>4, WriterAtWork DEF SelectThrows, At, Pcs
  <2>2. /\ \A v \in Writers \ {w} : writer'[v] = writer[v]
        /\ writer'[w].of = writer[w].of
        /\ UNCHANGED rows /\ Lapse(SessionAt(w))
    BY <1>0, <1>4, <2>1 DEF SelectThrows, Go, Writing
  <2>3. CASE SessionAt(w) # s
    BY <1>0, <1>1, <2>2, <2>3, NoNewUnchecked DEF before, after, Lapse
  <2>4. CASE SessionAt(w) = s
    <3>1. after \in Nat /\ after <= before + 1 /\ lapses'[s] = lapses[s] + 1
      BY <1>0, <2>2, <2>4, OneNewUnchecked DEF before, after, Lapse
    <3> QED
      BY <1>0, <1>1, <2>2, <3>1
  <2> QED
    BY <2>3, <2>4
<1>5. ASSUME NEW w \in Writers, Insert(w) \/ InsertThrows(w)
      PROVE  Covered(s)'
  <2>1. writer[w] \in Writing /\ writer[w].pc \in {"insert", "retry"}
    BY <1>5, WriterAtWork DEF Insert, InsertThrows, Pcs
  <2>2. /\ \A v \in Writers \ {w} : writer'[v] = writer[v]
        /\ writer'[w].pc \in {"insert", "retry"} => writer'[w].of = writer[w].of
    <3>1. CASE Insert(w)
      BY <1>0, <2>1, <3>1 DEF Insert, Return, Done, Writing
    <3>2. CASE InsertThrows(w)
      BY <1>0, <2>1, <3>2 DEF InsertThrows, Go, Writing
    <3> QED
      BY <1>5, <3>1, <3>2
  <2>3. w \in Unchecked(s) <=> SessionAt(w) = s
    BY <2>1 DEF Unchecked
  <2>4. /\ after \in Nat /\ after <= before
        /\ SessionAt(w) = s /\ writer'[w].pc \notin {"insert", "retry"}
              => after <= before - 1
    BY <2>2, <2>3, NoNewUnchecked DEF before, after
  <2>5. CASE Insert(w)
    <3>1. writer'[w].pc \notin {"insert", "retry"}
      BY <1>0, <2>1, <2>5 DEF Insert, Return, Done, Writing
    <3>2. UNCHANGED lapses /\ rows' = [rows EXCEPT ![SessionAt(w)] = @ + 1]
      BY <2>5 DEF Insert, history
    <3> QED
      BY <1>0, <1>1, <2>4, <3>1, <3>2
  <2>6. CASE InsertThrows(w) /\ UNCHANGED <<rows, lapses>>
    BY <1>0, <1>1, <2>4, <2>6
  <2>7. CASE /\ rows' = [rows EXCEPT ![SessionAt(w)] = @ + 1]
             /\ Lapse(SessionAt(w))
    BY <1>0, <1>1, <2>4, <2>7 DEF Lapse
  <2> QED
    BY <1>5, <2>5, <2>6, <2>7 DEF InsertThrows
<1>6. ASSUME NEW w \in Writers,
             \/ NoDatabase(w) \/ DeadLetter(w) \/ DeadLetterThrows(w) \/ NoDeadLetter(w)
             \/ Delete(w) \/ Evicted(w)
      PROVE  Covered(s)'
  <2>1. writer[w] \in Writing
    BY <1>6, WriterAtWork DEF NoDatabase, DeadLetter, DeadLetterThrows, NoDeadLetter,
                              Delete, Evicted, At, Pcs
  <2>2. /\ \A v \in Writers \ {w} : writer'[v] = writer[v]
        /\ writer'[w].pc \notin {"insert", "retry"}
    <3>1. writer' = [writer EXCEPT ![w] = Done] \/ Return(w)
      BY <1>6 DEF NoDatabase, DeadLetter, DeadLetterThrows, NoDeadLetter, Delete, Evicted
    <3> QED
      BY <1>0, <2>1, <3>1 DEF Return, Done, Writing
  <2>3. UNCHANGED <<rows, lapses>>
    BY <1>6 DEF NoDatabase, DeadLetter, DeadLetterThrows, NoDeadLetter, Delete, Evicted,
                history
  <2> QED
    BY <1>2, <2>2, <2>3
<1>7. ASSUME NEW w \in Writers, NEW c,
             writer' = [writer EXCEPT ![w] = [pc |-> "select", of |-> c]],
             UNCHANGED <<rows, letters, faults, history>>
      PROVE  Covered(s)'
  BY <1>0, <1>2, <1>7 DEF history
<1>8. CASE UNCHANGED vars
  BY <1>8 DEF vars, history, BilledInv, Covered, Unchecked, SessionAt
<1> QED
  BY <1>3, <1>4, <1>5, <1>6, <1>7, <1>8 DEF Next, Step, Begin, Replay, Writers

(* A session is billed once, but for checks that threw or ran beside       *)
(* another writer, and inserts that threw after their commit.              *)
THEOREM SessionsBilledOnce == Spec => []BilledOnce
<1>1. TypeOK /\ BilledInv => BilledOnce
  <2> SUFFICES ASSUME TypeOK, BilledInv, NEW s \in Sessions
               PROVE  rows[s] <= 1 + lapses[s]
    BY DEF BilledOnce
  <2>1. rows[s] \in Nat /\ lapses[s] \in Nat /\ Cardinality(Unchecked(s)) \in Nat
    BY UncheckedType DEF TypeOK
  <2> QED
    BY <2>1 DEF BilledInv, Covered
<1> QED
  BY <1>1, InitBilled, NextBilled, TypeCorrect, PTL DEF Spec
=============================================================================
