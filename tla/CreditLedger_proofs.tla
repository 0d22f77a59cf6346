------------------------ MODULE CreditLedger_proofs ------------------------
(***************************************************************************)
(* Proofs about CreditLedger, for any number of requests, orgs, sessions,  *)
(* amounts and calls, and about Webhooks, for any events, payers and       *)
(* failures.  Up to the section on Webhooks nothing uses that module.      *)
(***************************************************************************)
EXTENDS Webhooks, FiniteSetFacts

(* The two ways the actions assign a request record keep its type.         *)
LEMMA EnterType ==
    ASSUME TypeOK, NEW r \in Requests, NEW pc \in {"dedup", "update", "audit"},
           NEW kind \in Kinds, NEW o \in Orgs, NEW a \in Amounts,
           NEW s \in Sessions \cup {NoSession}, Enter(r, pc, kind, o, a, s)
    PROVE  req' \in [Requests -> {Idle} \cup Working]
  BY DEF TypeOK, Enter, Working

LEMMA ReturnType ==
    ASSUME TypeOK, NEW r \in Requests, Return(r)
    PROVE  req' \in [Requests -> {Idle} \cup Working]
  BY DEF TypeOK, Return

(* A request past its first statement is a working one.                    *)
LEMMA WorkingRequest ==
    ASSUME TypeOK, NEW r \in Requests, req[r].pc # "idle"
    PROVE  /\ req[r] \in Working
           /\ req[r].org \in Orgs
           /\ req[r].amt \in Amounts
           /\ req[r].amt \in Nat
           /\ req[r].kind \in Kinds
           /\ req[r].session \in Sessions \cup {NoSession}
<1>1. req[r] \in {Idle} \cup Working
  BY DEF TypeOK
<1>2. req[r] # Idle
  BY DEF Idle
<1>3. req[r] \in Working
  BY <1>1, <1>2
<1>4. req[r].org \in Orgs /\ req[r].amt \in Amounts /\ req[r].kind \in Kinds
      /\ req[r].session \in Sessions \cup {NoSession}
  BY <1>3 DEF Working
<1>5. QED
  BY <1>3, <1>4, LedgerAssumption

LEMMA InitType == Init => TypeOK
  BY LedgerAssumption DEF Init, TypeOK, NoSums, Sums, Kinds

LEMMA NextType == TypeOK /\ [Next]_vars => TypeOK'
<1> SUFFICES ASSUME TypeOK, [Next]_vars PROVE TypeOK'
  OBVIOUS
<1> USE LedgerAssumption
<1>1. ASSUME NEW r \in Requests, NEW o \in Orgs, NEW a \in Amounts,
             AddUpsert(r, o, a)
      PROVE  TypeOK'
  <2>1. req' \in [Requests -> {Idle} \cup Working]
    BY <1>1, EnterType DEF AddUpsert, Kinds
  <2>2. QED
    BY <1>1, <2>1 DEF AddUpsert, Begin, TypeOK, log, history
<1>2. ASSUME NEW r \in Requests, NEW o \in Orgs, NEW a \in Amounts,
             RefundUpsert(r, o, a)
      PROVE  TypeOK'
  <2>1. req' \in [Requests -> {Idle} \cup Working]
    BY <1>2, EnterType DEF RefundUpsert, Kinds
  <2>2. QED
    BY <1>2, <2>1 DEF RefundUpsert, Begin, TypeOK, log, history
<1>3. ASSUME NEW r \in Requests, NEW o \in Orgs, NEW a \in Amounts,
             NEW s \in Sessions \cup {NoSession}, DailyCap(r, o, a, s)
      PROVE  TypeOK'
  <2>1. req' \in [Requests -> {Idle} \cup Working]
    <3>1. CASE UNCHANGED req
      BY <3>1 DEF TypeOK
    <3>2. CASE Enter(r, IF s = NoSession THEN "update" ELSE "dedup",
                     "burn", o, a, s)
      BY <3>2, EnterType DEF Kinds
    <3>3. QED
      BY <1>3, <3>1, <3>2 DEF DailyCap
  <2>2. QED
    BY <1>3, <2>1 DEF DailyCap, Begin, TypeOK, table, log
<1>4. ASSUME NEW r \in Requests, Dedup(r)
      PROVE  TypeOK'
  <2>1. /\ req[r] \in Working
        /\ req[r].org \in Orgs
    BY <1>4, WorkingRequest DEF Dedup
  <2>2. req' \in [Requests -> {Idle} \cup Working]
    <3>1. CASE Return(r)
      BY <3>1, ReturnType
    <3>2. CASE req' = [req EXCEPT ![r].pc = "update"]
      BY <2>1, <3>2 DEF TypeOK, Working
    <3>3. QED
      BY <1>4, <3>1, <3>2 DEF Dedup
  <2>3. QED
    BY <1>4, <2>1, <2>2 DEF Dedup, TypeOK, table, log
<1>5. ASSUME NEW r \in Requests, DeductUpdate(r)
      PROVE  TypeOK'
  <2>1. /\ req[r] \in Working
        /\ req[r].org \in Orgs
        /\ req[r].amt \in Nat
        /\ req[r].session \in Sessions \cup {NoSession}
    BY <1>5, WorkingRequest DEF DeductUpdate
  <2>2. req' \in [Requests -> {Idle} \cup Working]
    <3>1. CASE Return(r)
      BY <3>1, ReturnType
    <3>2. CASE req' = [req EXCEPT ![r].pc = "audit"]
      BY <2>1, <3>2 DEF TypeOK, Working
    <3>3. QED
      BY <1>5, <3>1, <3>2 DEF DeductUpdate
  <2>3. charges' \in [Orgs -> [Sessions -> Nat]]
    <3>1. CASE charges' = charges
      BY <3>1 DEF TypeOK
    <3>2. CASE /\ req[r].session \in Sessions
               /\ charges' = [charges EXCEPT ![req[r].org][req[r].session]
                                               = @ + 1]
      <4>1. charges[req[r].org] \in [Sessions -> Nat]
        BY <2>1 DEF TypeOK
      <4>2. [charges[req[r].org] EXCEPT ![req[r].session] = @ + 1]
              \in [Sessions -> Nat]
        BY <3>2, <4>1
      <4>3. QED
        BY <2>1, <3>2, <4>2 DEF TypeOK
    <3>3. QED
      BY <1>5, <2>1, <3>1, <3>2 DEF DeductUpdate
  <2>4. QED
    BY <1>5, <2>1, <2>2, <2>3 DEF DeductUpdate, TypeOK, log
<1>6. ASSUME NEW r \in Requests, AuditInsert(r)
      PROVE  TypeOK'
  <2>1. /\ req[r].org \in Orgs
        /\ req[r].amt \in Nat
        /\ req[r].kind \in Kinds
        /\ req[r].session \in Sessions \cup {NoSession}
    BY <1>6, WorkingRequest DEF AuditInsert
  <2>2. req' \in [Requests -> {Idle} \cup Working]
    BY <1>6, ReturnType DEF AuditInsert
  <2>3. audit' \in [Orgs -> Sums]
    BY <1>6, <2>1 DEF AuditInsert, TypeOK, Sums
  <2>4. daySpend' \in [Orgs -> Nat]
    BY <1>6, <2>1 DEF AuditInsert, TypeOK, SpendOfRow
  <2>5. burnRows' \in [Orgs -> [Sessions -> Nat]]
    BY <1>6, <2>1 DEF AuditInsert, TypeOK
  <2>6. QED
    BY <1>6, <2>2, <2>3, <2>4, <2>5 DEF AuditInsert, TypeOK, table, history
<1>7. ASSUME NEW r \in Requests, Die(r)
      PROVE  TypeOK'
  <2>1. req' \in [Requests -> {Idle} \cup Working]
    BY <1>7, ReturnType DEF Die
  <2>2. unaudited' \in [Orgs -> Sums]
    <3>1. CASE req[r].pc = "audit"
      BY <1>7, <3>1, WorkingRequest DEF Die, TypeOK, Sums
    <3>2. CASE req[r].pc # "audit"
      BY <1>7, <3>2 DEF Die, TypeOK
    <3>3. QED
      BY <3>1, <3>2
  <2>3. QED
    BY <1>7, <2>1, <2>2 DEF Die, TypeOK, table, log
<1>8. ASSUME NEW o \in Orgs, WindowSlides(o)
      PROVE  TypeOK'
  BY <1>8 DEF WindowSlides, TypeOK, table, history
<1>9. CASE UNCHANGED vars
  BY <1>9 DEF vars, table, log, history, TypeOK
<1>10. QED
  BY <1>1, <1>2, <1>3, <1>4, <1>5, <1>6, <1>7, <1>8, <1>9 DEF Next

(* Every variable keeps its type in every behaviour of the ledger.         *)
THEOREM TypeCorrect == Spec => []TypeOK
<1>1. QED
  BY InitType, NextType, PTL DEF Spec

(* Concurrent requests never overdraw an org: only the guarded UPDATE of   *)
(* deductCredits lowers a balance.                                         *)
THEOREM NeverOverdrawn == Spec => []NoOverdraft
<1>1. Init => NoOverdraft
  BY LedgerAssumption DEF Init, NoOverdraft
<1>2. TypeOK /\ NoOverdraft /\ [Next]_vars => NoOverdraft'
  <2> SUFFICES ASSUME TypeOK, NoOverdraft, [Next]_vars, NEW p \in Orgs
               PROVE  balance'[p] >= 0
    BY DEF NoOverdraft
  <2>0. balance[p] \in Int /\ balance[p] >= 0
    BY DEF TypeOK, NoOverdraft
  <2>1. ASSUME NEW r \in Requests, NEW o \in Orgs, NEW a \in Amounts,
               AddUpsert(r, o, a) \/ RefundUpsert(r, o, a)
        PROVE  balance'[p] >= 0
    <3>1. a \in Nat
      BY LedgerAssumption
    <3>2. balance' = [balance EXCEPT ![o] = @ + a] /\ balance \in [Orgs -> Int]
      BY <2>1 DEF AddUpsert, RefundUpsert, TypeOK
    <3>3. balance'[p] = balance[p] \/ balance'[p] = balance[p] + a
      BY <3>2
    <3>4. QED
      BY <2>0, <3>1, <3>3
  <2>2. ASSUME NEW r \in Requests, DeductUpdate(r)
        PROVE  balance'[p] >= 0
    <3>1. req[r].org \in Orgs /\ req[r].amt \in Nat
      BY <2>2, WorkingRequest DEF DeductUpdate
    <3>2. QED
      BY <2>0, <2>2, <3>1 DEF DeductUpdate, Covers, TypeOK
  <2>3. CASE UNCHANGED balance
    BY <2>0, <2>3
  <2>4. QED
    BY <2>1, <2>2, <2>3
       DEF Next, DailyCap, Dedup, AuditInsert, Die, WindowSlides, vars, table
<1>3. QED
  BY <1>1, <1>2, TypeCorrect, PTL DEF Spec

(* The inductive form of RetryNotCharged: a call whose session had a burn  *)
(* row when it began is held at the idempotency check, and the row is      *)
(* still there, since no statement deletes rows.                           *)
Caught(r) ==
    req[r] # Idle /\ req[r].known /\ req[r].org \notin blind
        => /\ req[r].pc = "dedup"
           /\ req[r].session \in Sessions
           /\ burnRows[req[r].org][req[r].session] > 0
RetryInv == \A r \in Requests : Caught(r)

(* Only AuditInsert writes burn rows, and it only adds them.               *)
LEMMA BurnRowsGrow ==
    ASSUME TypeOK, [Next]_vars, NEW o \in Orgs, NEW s \in Sessions,
           burnRows[o][s] > 0
    PROVE  burnRows'[o][s] > 0
<1>1. ASSUME NEW r \in Requests, AuditInsert(r)
      PROVE  burnRows'[o][s] > 0
  <2>1. req[r].org \in Orgs
    BY <1>1, WorkingRequest DEF AuditInsert
  <2>2. burnRows[o][s] \in Nat /\ burnRows[o] \in [Sessions -> Nat]
    BY DEF TypeOK
  <2>3. CASE burnRows' = burnRows
    BY <2>3
  <2>4. CASE burnRows' = [burnRows EXCEPT ![req[r].org][req[r].session] = @ + 1]
    BY <2>1, <2>2, <2>4 DEF TypeOK
  <2>5. QED
    BY <1>1, <2>3, <2>4 DEF AuditInsert
<1>2. CASE UNCHANGED burnRows
  BY <1>2
<1>3. ASSUME NEW r \in Requests, Dedup(r) \/ DeductUpdate(r) \/ Die(r)
      PROVE  UNCHANGED burnRows
  BY <1>3 DEF Dedup, DeductUpdate, Die, log
<1>4. ASSUME NEW r \in Requests, NEW p \in Orgs, NEW a \in Amounts,
             \/ AddUpsert(r, p, a) \/ RefundUpsert(r, p, a)
             \/ \E t \in Sessions \cup {NoSession} : DailyCap(r, p, a, t)
      PROVE  UNCHANGED burnRows
  BY <1>4 DEF AddUpsert, RefundUpsert, DailyCap, log
<1>5. ASSUME NEW p \in Orgs, WindowSlides(p)
      PROVE  UNCHANGED burnRows
  BY <1>5 DEF WindowSlides
<1>6. CASE UNCHANGED vars
  BY <1>6 DEF vars, log
<1>7. QED
  BY <1>1, <1>2, <1>3, <1>4, <1>5, <1>6 DEF Next

(* No step clears blind, and a request that a step leaves alone stays      *)
(* caught.                                                                 *)
LEMMA CaughtStays ==
    ASSUME TypeOK, [Next]_vars, NEW q \in Requests, Caught(q), req'[q] = req[q]
    PROVE  Caught(q)'
<1>1. blind \subseteq blind'
  <2>1. ASSUME NEW r \in Requests, NEW o \in Orgs, NEW a \in Amounts,
               NEW s \in Sessions \cup {NoSession}, DailyCap(r, o, a, s)
        PROVE  blind \subseteq blind'
    BY <2>1 DEF DailyCap
  <2>2. ASSUME NEW r \in Requests, Dedup(r)
        PROVE  blind \subseteq blind'
    BY <2>2 DEF Dedup
  <2>3. CASE UNCHANGED blind
    BY <2>3
  <2>4. QED
    BY <2>1, <2>2, <2>3
       DEF Next, AddUpsert, RefundUpsert, DeductUpdate, AuditInsert, Die,
           WindowSlides, vars, history
<1>2. CASE req[q] = Idle
  BY <1>2 DEF Caught, Idle
<1>3. CASE req[q] # Idle
  <2>1. req[q].org \in Orgs
    BY <1>3, WorkingRequest DEF TypeOK, Idle, Working
  <2>2. QED
    BY <1>1, <1>3, <2>1, BurnRowsGrow DEF Caught, Idle
<1>4. QED
  BY <1>2, <1>3

(* A call that begins after its session was recorded as charged is not     *)
(* charged again, as long as the reads of its org succeed.                 *)
THEOREM RetriesAreFree == Spec => []RetryNotCharged
<1>1. Init => RetryInv
  BY DEF Init, RetryInv, Caught
<1>2. TypeOK /\ RetryInv /\ [Next]_vars => RetryInv'
  <2> SUFFICES ASSUME TypeOK, RetryInv, [Next]_vars, NEW q \in Requests
               PROVE  Caught(q)'
    BY DEF RetryInv
  <2>0. Caught(q)
    BY DEF RetryInv
  <2>1. CASE req'[q] = req[q]
    BY <2>0, <2>1, CaughtStays
  <2>2. CASE req'[q] = Idle
    BY <2>2 DEF Caught, Idle
  <2>3. ASSUME NEW pc \in {"dedup", "update", "audit"}, NEW kind \in Kinds,
               NEW o \in Orgs, NEW a \in Amounts,
               NEW s \in Sessions \cup {NoSession},
               Enter(q, pc, kind, o, a, s), s \in Sessions => pc = "dedup",
               UNCHANGED burnRows
        PROVE  Caught(q)'
    BY <2>3 DEF Enter, TypeOK, Caught
  <2>4. CASE Dedup(q)
    <3>1. /\ req[q] \in Working
          /\ req[q].org \in Orgs
      BY <2>4, WorkingRequest DEF Dedup
    <3>2. CASE Return(q)
      BY <2>2, <3>2 DEF Return, TypeOK
    <3>3. CASE /\ req' = [req EXCEPT ![q].pc = "update"]
               /\ ~HasBurnRow(req[q].org, req[q].session)
               /\ UNCHANGED blind
      BY <2>0, <2>4, <3>1, <3>3 DEF Caught, HasBurnRow, Dedup, TypeOK, Working, Idle
    <3>4. CASE /\ req' = [req EXCEPT ![q].pc = "update"]
               /\ blind' = blind \cup {req[q].org}
      BY <3>1, <3>4 DEF Caught, TypeOK, Working
    <3>5. QED
      BY <2>4, <3>2, <3>3, <3>4 DEF Dedup
  <2>5. CASE DeductUpdate(q)
    <3>1. /\ req[q] \in Working
          /\ req[q].org \in Orgs
      BY <2>5, WorkingRequest DEF DeductUpdate
    <3>2. CASE Return(q)
      BY <2>2, <3>2 DEF Return, TypeOK
    <3>3. CASE req' = [req EXCEPT ![q].pc = "audit"]
      BY <2>0, <2>5, <3>1, <3>3 DEF Caught, DeductUpdate, TypeOK, Working, Idle
    <3>4. QED
      BY <2>5, <3>2, <3>3 DEF DeductUpdate
  <2>6. ASSUME NEW r \in Requests, r # q, Return(r) \/ UNCHANGED req
        PROVE  req'[q] = req[q]
    BY <2>6 DEF Return, TypeOK
  <2>7. ASSUME NEW r \in Requests, r # q, NEW pc, NEW kind, NEW o, NEW a, NEW s,
               Enter(r, pc, kind, o, a, s)
        PROVE  req'[q] = req[q]
    BY <2>7 DEF Enter, TypeOK
  <2>8. ASSUME NEW r \in Requests, NEW o \in Orgs, NEW a \in Amounts,
               AddUpsert(r, o, a) \/ RefundUpsert(r, o, a)
        PROVE  Caught(q)'
    <3>1. CASE r = q
      <4>1. PICK kind \in Kinds : Enter(q, "audit", kind, o, a, NoSession)
        BY <2>8, <3>1 DEF AddUpsert, RefundUpsert, Kinds
      <4>2. NoSession \notin Sessions /\ UNCHANGED burnRows
        BY <2>8, LedgerAssumption DEF AddUpsert, RefundUpsert, log
      <4>3. QED
        BY <2>3, <4>1, <4>2
    <3>2. CASE r # q
      BY <2>1, <2>7, <2>8, <3>2 DEF AddUpsert, RefundUpsert
    <3>3. QED
      BY <3>1, <3>2
  <2>9. ASSUME NEW r \in Requests, NEW o \in Orgs, NEW a \in Amounts,
               NEW s \in Sessions \cup {NoSession}, DailyCap(r, o, a, s)
        PROVE  Caught(q)'
    <3>1. CASE UNCHANGED req
      BY <2>1, <3>1
    <3>2. CASE /\ r = q
               /\ Enter(r, IF s = NoSession THEN "update" ELSE "dedup",
                        "burn", o, a, s)
      <4>1. /\ s \in Sessions => s # NoSession
            /\ UNCHANGED burnRows
        BY <2>9, LedgerAssumption DEF DailyCap, log
      <4>2. QED
        BY <2>3, <3>2, <4>1 DEF Kinds
    <3>3. CASE /\ r # q
               /\ Enter(r, IF s = NoSession THEN "update" ELSE "dedup",
                        "burn", o, a, s)
      BY <2>1, <2>7, <3>3
    <3>4. QED
      BY <2>9, <3>1, <3>2, <3>3 DEF DailyCap
  <2>10. ASSUME NEW r \in Requests, AuditInsert(r) \/ Die(r)
         PROVE  Caught(q)'
    BY <2>1, <2>2, <2>6, <2>10 DEF AuditInsert, Die, Return, TypeOK
  <2>11. ASSUME NEW r \in Requests, r # q, Dedup(r) \/ DeductUpdate(r)
         PROVE  Caught(q)'
    BY <2>1, <2>11 DEF Dedup, DeductUpdate, Return, TypeOK
  <2>12. CASE UNCHANGED req
    BY <2>1, <2>12
  <2>13. QED
    BY <2>4, <2>5, <2>8, <2>9, <2>10, <2>11, <2>12
       DEF Next, WindowSlides, vars
<1>3. RetryInv => RetryNotCharged
  BY DEF RetryInv, Caught, RetryNotCharged, Idle
<1>4. QED
  BY <1>1, <1>2, <1>3, TypeCorrect, PTL DEF Spec

-----------------------------------------------------------------------------
(* The calls of session s of org o that are at one statement.              *)
RequestsAt(pc, o, s) == {r \in Requests : req[r].pc = pc /\ req[r].org = o
                                                 /\ req[r].session = s}

(* The inductive form of DuplicatesBounded.  Until a session has a row,    *)
(* its charges are those of calls that still have their row to write, and  *)
(* only a call that found no row comes to the UPDATE.                      *)
Charged(o, s) ==
    /\ burnRows[o][s] = 0 => charges[o][s] = Cardinality(RequestsAt("audit", o, s))
    /\ charges[o][s] + Cardinality(RequestsAt("update", o, s)) <= Cardinality(Requests)
SessionInv(o, s) ==
    /\ unaudited[o]["burn"] >= 0
    /\ o \notin blind /\ unaudited[o]["burn"] = 0 => Charged(o, s)

(* Only deductCredits has a session.                                       *)
BurnsOnly(r) ==
    req[r] # Idle /\ req[r].session \in Sessions => req[r].kind = "burn"

LedgerInv ==
    /\ \A r \in Requests : BurnsOnly(r)
    /\ \A o \in Orgs, s \in Sessions : SessionInv(o, s)

OnlyOne(r) == \A q \in Requests \ {r} : req'[q] = req[q]

LEMMA AtMoves ==
    ASSUME NEW r \in Requests, OnlyOne(r), NEW pc, NEW o, NEW s
    PROVE  /\ RequestsAt(pc, o, s) \in SUBSET Requests
           /\ RequestsAt(pc, o, s)' \in SUBSET Requests
           /\ RequestsAt(pc, o, s) \ {r} = RequestsAt(pc, o, s)' \ {r}
           /\ Cardinality(RequestsAt(pc, o, s)) \in Nat
           /\ Cardinality(RequestsAt(pc, o, s)') \in Nat
           /\ (r \in RequestsAt(pc, o, s) <=> r \in RequestsAt(pc, o, s)')
                => RequestsAt(pc, o, s)' = RequestsAt(pc, o, s)
           /\ r \notin RequestsAt(pc, o, s) /\ r \in RequestsAt(pc, o, s)'
                => Cardinality(RequestsAt(pc, o, s)') = Cardinality(RequestsAt(pc, o, s)) + 1
           /\ r \in RequestsAt(pc, o, s) /\ r \notin RequestsAt(pc, o, s)'
                => Cardinality(RequestsAt(pc, o, s)') = Cardinality(RequestsAt(pc, o, s)) - 1
<1>1. RequestsAt(pc, o, s) \in SUBSET Requests /\ RequestsAt(pc, o, s)' \in SUBSET Requests
  BY DEF RequestsAt
<1>2. RequestsAt(pc, o, s) \ {r} = RequestsAt(pc, o, s)' \ {r}
  BY DEF RequestsAt, OnlyOne
<1>3. PICK A : A = RequestsAt(pc, o, s)
  OBVIOUS
<1>4. PICK B : B = RequestsAt(pc, o, s)'
  OBVIOUS
<1>5. A \in SUBSET Requests /\ B \in SUBSET Requests /\ A \ {r} = B \ {r}
  BY <1>1, <1>2, <1>3, <1>4
<1>6. /\ Cardinality(A) \in Nat /\ Cardinality(B) \in Nat
      /\ (r \in A <=> r \in B) => B = A
      /\ r \notin A /\ r \in B => Cardinality(B) = Cardinality(A) + 1
      /\ r \in A /\ r \notin B => Cardinality(B) = Cardinality(A) - 1
  BY <1>5, OneApart, LedgerAssumption
<1> QED
  BY <1>1, <1>2, <1>3, <1>4, <1>6

LEMMA SessionFrame ==
    ASSUME TypeOK, NEW o \in Orgs, NEW s \in Sessions, SessionInv(o, s),
           NEW r \in Requests, OnlyOne(r),
           blind \subseteq blind', unaudited'[o] = unaudited[o],
           charges'[o][s] = charges[o][s], burnRows'[o][s] = burnRows[o][s],
           r \in RequestsAt("audit", o, s) <=> r \in RequestsAt("audit", o, s)',
           r \in RequestsAt("update", o, s)' => r \in RequestsAt("update", o, s)
    PROVE  SessionInv(o, s)'
<1>1. RequestsAt("audit", o, s)' = RequestsAt("audit", o, s)
  BY AtMoves
<1>2. /\ Cardinality(RequestsAt("update", o, s)) \in Nat
      /\ Cardinality(RequestsAt("update", o, s)') \in Nat
      /\ Cardinality(RequestsAt("update", o, s)') <= Cardinality(RequestsAt("update", o, s))
  BY AtMoves
<1>3. Cardinality(Requests) \in Nat /\ charges[o][s] \in Nat
  BY LedgerAssumption, FS_CardinalityType DEF TypeOK
<1>4. Charged(o, s) => Charged(o, s)'
  BY <1>1, <1>2, <1>3 DEF Charged
<1> QED
  BY <1>4 DEF SessionInv

(* What each action does to the calls of a session.                        *)
LEMMA EnterOne ==
    ASSUME TypeOK, NEW r \in Requests, req[r] = Idle, NEW pc, NEW kind, NEW o,
           NEW a, NEW s, Enter(r, pc, kind, o, a, s)
    PROVE  /\ OnlyOne(r)
           /\ \A st \in {"dedup", "update", "audit"} : \A p, t :
                /\ r \notin RequestsAt(st, p, t)
                /\ r \in RequestsAt(st, p, t)' <=> st = pc /\ p = o /\ t = s
           /\ req'[r] # Idle /\ req'[r].kind = kind /\ req'[r].session = s
           /\ req'[r].org = o /\ req'[r].amt = a /\ req'[r].pc = pc
<1>1. /\ req'[r] = [pc |-> pc, kind |-> kind, org |-> o, amt |-> a, session |-> s,
                    known |-> s \in Sessions /\ burnRows[o][s] > 0]
      /\ OnlyOne(r)
  BY DEF Enter, TypeOK, OnlyOne
<1>2. req[r].pc = "idle"
  BY DEF Idle
<1>3. /\ req'[r].pc = pc /\ req'[r].kind = kind /\ req'[r].session = s
      /\ req'[r].org = o /\ req'[r].amt = a
  BY <1>1
<1>4. req'[r] # Idle
  BY <1>1 DEF Idle
<1> QED
  BY <1>1, <1>2, <1>3, <1>4 DEF RequestsAt

LEMMA ReturnOne ==
    ASSUME TypeOK, NEW r \in Requests, Return(r)
    PROVE  /\ OnlyOne(r)
           /\ \A st \in {"dedup", "update", "audit"} : \A p, t : r \notin RequestsAt(st, p, t)'
           /\ req'[r] = Idle
<1>1. req'[r] = Idle /\ OnlyOne(r)
  BY DEF Return, TypeOK, OnlyOne
<1>2. req'[r].pc = "idle"
  BY <1>1 DEF Idle
<1> QED
  BY <1>1, <1>2 DEF RequestsAt

LEMMA MoveOne ==
    ASSUME TypeOK, NEW r \in Requests, req[r].pc # "idle", NEW pc,
           req' = [req EXCEPT ![r].pc = pc]
    PROVE  /\ OnlyOne(r)
           /\ \A st \in {"dedup", "update", "audit"} : \A p, t :
                r \in RequestsAt(st, p, t)'
                  <=> st = pc /\ p = req[r].org /\ t = req[r].session
           /\ req'[r].pc = pc /\ req'[r].kind = req[r].kind /\ req'[r].session = req[r].session
           /\ req'[r].org = req[r].org /\ req'[r].amt = req[r].amt
<1>1. req[r] \in Working
  BY WorkingRequest
<1>2. /\ req'[r] = [req[r] EXCEPT !.pc = pc]
      /\ OnlyOne(r)
  BY DEF TypeOK, OnlyOne
<1>3. /\ req'[r].pc = pc /\ req'[r].kind = req[r].kind
      /\ req'[r].session = req[r].session /\ req'[r].org = req[r].org
      /\ req'[r].amt = req[r].amt
  BY <1>1, <1>2 DEF Working
<1> QED
  BY <1>2, <1>3 DEF RequestsAt

(* Every step moves at most one request, and blind only grows.             *)
LEMMA StayBurns ==
    ASSUME LedgerInv, NEW r \in Requests, OnlyOne(r), BurnsOnly(r)'
    PROVE  \A q \in Requests : BurnsOnly(q)'
<1> SUFFICES ASSUME NEW q \in Requests, q # r
             PROVE  BurnsOnly(q)'
  OBVIOUS
<1>1. req'[q] = req[q] /\ BurnsOnly(q)
  BY DEF OnlyOne, LedgerInv
<1> QED
  BY <1>1 DEF BurnsOnly, Idle
(* The idempotency check: a call goes on to the UPDATE only while no row   *)
(* is there, so every charge so far belongs to a call still in flight, and *)
(* this one is in flight beside them.                                      *)
LEMMA DedupCharges ==
    ASSUME TypeOK, LedgerInv, NEW r \in Requests, Dedup(r),
           NEW o \in Orgs, NEW s \in Sessions
    PROVE  SessionInv(o, s)'
<1>1. /\ req[r].pc = "dedup" /\ req[r] \in Working /\ req[r].org \in Orgs
      /\ SessionInv(o, s)
  BY WorkingRequest DEF Dedup, LedgerInv
<1>2. /\ charges' = charges /\ burnRows' = burnRows /\ unaudited' = unaudited
      /\ blind \subseteq blind'
  BY DEF Dedup, log
<1>3. r \notin RequestsAt("audit", o, s) /\ r \notin RequestsAt("update", o, s)
  BY <1>1 DEF RequestsAt
<1>4. CASE Return(r)
  BY <1>1, <1>2, <1>3, <1>4, ReturnOne, SessionFrame
<1>5. CASE req' = [req EXCEPT ![r].pc = "update"]
  <2>1. /\ OnlyOne(r)
        /\ r \notin RequestsAt("audit", o, s)'
        /\ r \in RequestsAt("update", o, s)' <=> o = req[r].org /\ s = req[r].session
    <3>1. req[r].pc # "idle"
      BY <1>1
    <3>2. /\ OnlyOne(r)
          /\ \A st \in {"dedup", "update", "audit"} : \A p, t :
               r \in RequestsAt(st, p, t)'
                 <=> st = "update" /\ p = req[r].org /\ t = req[r].session
      BY <1>5, <3>1, MoveOne
    <3>3. r \in RequestsAt("audit", o, s)' => "audit" = "update"
      BY <3>2
    <3>4. QED
      BY <3>2, <3>3
  <2>2. CASE r \notin RequestsAt("update", o, s)'
    BY <1>1, <1>2, <1>3, <2>1, <2>2, SessionFrame
  <2>3. CASE /\ r \in RequestsAt("update", o, s)'
             /\ HasBurnRow(req[r].org, req[r].session)
    <3>1. o \in blind'
      BY <1>5, <2>1, <2>3, ReturnOne DEF Dedup, RequestsAt
    <3>2. QED
      BY <1>1, <1>2, <3>1 DEF SessionInv
  <2>4. CASE /\ r \in RequestsAt("update", o, s)'
             /\ ~HasBurnRow(req[r].org, req[r].session)
    <3>1. burnRows[o][s] = 0
      <4>1. ~(burnRows[o][s] > 0) /\ burnRows[o][s] \in Nat
        BY <2>1, <2>4 DEF HasBurnRow, TypeOK
      <4>2. QED
        BY <4>1
    <3>2. /\ RequestsAt("audit", o, s)' = RequestsAt("audit", o, s)
          /\ Cardinality(RequestsAt("update", o, s)') = Cardinality(RequestsAt("update", o, s)) + 1
          /\ Cardinality(RequestsAt("update", o, s)) \in Nat
          /\ Cardinality(RequestsAt("audit", o, s)) \in Nat
      BY <1>3, <2>1, <2>4, AtMoves
    <3>3. Cardinality(RequestsAt("audit", o, s)) + Cardinality(RequestsAt("update", o, s)) + 1
            <= Cardinality(Requests)
      <4>1. /\ RequestsAt("audit", o, s) \cap RequestsAt("update", o, s) = {}
            /\ RequestsAt("audit", o, s) \in SUBSET Requests
            /\ RequestsAt("update", o, s) \in SUBSET Requests
        BY DEF RequestsAt
      <4>2. QED
        BY <1>3, <4>1, DisjointPair, LedgerAssumption
    <3>4. Charged(o, s) => Charged(o, s)'
      <4>1. Cardinality(Requests) \in Nat
        BY FS_CardinalityType, LedgerAssumption
      <4>2. QED
        BY <1>2, <3>1, <3>2, <3>3, <4>1 DEF Charged
    <3>5. QED
      BY <1>1, <1>2, <3>4 DEF SessionInv
  <2>5. QED
    BY <2>2, <2>3, <2>4
<1>6. QED
  BY <1>4, <1>5 DEF Dedup

(* The UPDATE: a charge more, and a call at the INSERT more.               *)
LEMMA UpdateCharges ==
    ASSUME TypeOK, LedgerInv, NEW r \in Requests, DeductUpdate(r),
           NEW o \in Orgs, NEW s \in Sessions
    PROVE  SessionInv(o, s)'
<1>1. /\ req[r].pc = "update" /\ req[r] \in Working /\ req[r].org \in Orgs
      /\ req[r].session \in Sessions \cup {NoSession}
      /\ SessionInv(o, s)
  BY WorkingRequest DEF DeductUpdate, LedgerInv
<1>2. burnRows' = burnRows /\ unaudited' = unaudited /\ blind' = blind
  BY DEF DeductUpdate, log
<1>3. /\ r \notin RequestsAt("audit", o, s)
      /\ r \in RequestsAt("update", o, s) <=> o = req[r].org /\ s = req[r].session
  BY <1>1 DEF RequestsAt
<1>4. CASE Return(r) /\ charges' = charges
  BY <1>1, <1>2, <1>3, <1>4, ReturnOne, SessionFrame
<1>5. CASE /\ req' = [req EXCEPT ![r].pc = "audit"]
           /\ charges' = IF req[r].session = NoSession THEN charges
                         ELSE [charges EXCEPT ![req[r].org][req[r].session] = @ + 1]
  <2>1. /\ OnlyOne(r)
        /\ r \notin RequestsAt("update", o, s)'
        /\ r \in RequestsAt("audit", o, s)' <=> o = req[r].org /\ s = req[r].session
    <3>1. req[r].pc # "idle"
      BY <1>1
    <3>2. /\ OnlyOne(r)
          /\ \A st \in {"dedup", "update", "audit"} : \A p, t :
               r \in RequestsAt(st, p, t)'
                 <=> st = "audit" /\ p = req[r].org /\ t = req[r].session
      BY <1>5, <3>1, MoveOne
    <3>3. r \in RequestsAt("update", o, s)' => "update" = "audit"
      BY <3>2
    <3>4. QED
      BY <3>2, <3>3
  <2>2. s # NoSession /\ charges \in [Orgs -> [Sessions -> Nat]]
    BY LedgerAssumption DEF TypeOK
  <2>3. CASE ~(o = req[r].org /\ s = req[r].session)
    <3>1. charges'[o][s] = charges[o][s]
      BY <1>1, <1>5, <2>2, <2>3
    <3>2. QED
      BY <1>1, <1>2, <1>3, <2>1, <2>3, <3>1, SessionFrame
  <2>4. CASE o = req[r].org /\ s = req[r].session
    <3>1. charges'[o][s] = charges[o][s] + 1 /\ charges[o][s] \in Nat
      BY <1>1, <1>5, <2>2, <2>4
    <3>2. /\ Cardinality(RequestsAt("audit", o, s)') = Cardinality(RequestsAt("audit", o, s)) + 1
          /\ Cardinality(RequestsAt("update", o, s)') = Cardinality(RequestsAt("update", o, s)) - 1
          /\ Cardinality(RequestsAt("update", o, s)) \in Nat
          /\ Cardinality(RequestsAt("audit", o, s)) \in Nat
      BY <1>3, <2>1, <2>4, AtMoves
    <3>3. Charged(o, s) => Charged(o, s)'
      <4>1. Cardinality(Requests) \in Nat
        BY FS_CardinalityType, LedgerAssumption
      <4>2. QED
        BY <1>2, <3>1, <3>2, <4>1 DEF Charged
    <3>4. QED
      BY <1>1, <1>2, <3>3 DEF SessionInv
  <2>5. QED
    BY <2>3, <2>4
<1>6. QED
  BY <1>4, <1>5 DEF DeductUpdate

(* The INSERT: the session has a row from now on.                          *)
LEMMA InsertCharges ==
    ASSUME TypeOK, LedgerInv, NEW r \in Requests, AuditInsert(r),
           NEW o \in Orgs, NEW s \in Sessions
    PROVE  SessionInv(o, s)'
<1>1. /\ req[r].pc = "audit" /\ req[r] \in Working /\ req[r].org \in Orgs
      /\ req[r].session \in Sessions \cup {NoSession}
      /\ SessionInv(o, s)
  BY WorkingRequest DEF AuditInsert, LedgerInv
<1>2. charges' = charges /\ unaudited' = unaudited /\ blind' = blind /\ Return(r)
  BY DEF AuditInsert, history
<1>3. /\ r \notin RequestsAt("update", o, s)
      /\ r \in RequestsAt("audit", o, s) <=> o = req[r].org /\ s = req[r].session
  BY <1>1 DEF RequestsAt
<1>4. /\ OnlyOne(r)
      /\ r \notin RequestsAt("update", o, s)' /\ r \notin RequestsAt("audit", o, s)'
  BY <1>2, ReturnOne
<1>5. s # NoSession /\ burnRows \in [Orgs -> [Sessions -> Nat]]
  BY LedgerAssumption DEF TypeOK
<1>6. burnRows' = IF req[r].session = NoSession THEN burnRows
                  ELSE [burnRows EXCEPT ![req[r].org][req[r].session] = @ + 1]
  BY DEF AuditInsert
<1>7. CASE ~(o = req[r].org /\ s = req[r].session)
  <2>1. burnRows'[o][s] = burnRows[o][s]
    BY <1>1, <1>5, <1>6, <1>7
  <2>2. QED
    BY <1>1, <1>2, <1>3, <1>4, <1>7, <2>1, SessionFrame
<1>8. CASE o = req[r].org /\ s = req[r].session
  <2>1. burnRows'[o][s] = burnRows[o][s] + 1 /\ burnRows[o][s] \in Nat
    BY <1>1, <1>5, <1>6, <1>8
  <2>2. RequestsAt("update", o, s)' = RequestsAt("update", o, s)
    BY <1>3, <1>4, AtMoves
  <2>3. Charged(o, s) => Charged(o, s)'
    BY <1>2, <2>1, <2>2 DEF Charged
  <2>4. QED
    BY <1>1, <1>2, <2>3 DEF SessionInv
<1>9. QED
  BY <1>7, <1>8

(* A call that dies at its INSERT leaves the org with an unaudited burn.   *)
LEMMA DeathCharges ==
    ASSUME TypeOK, LedgerInv, NEW r \in Requests, Die(r),
           NEW o \in Orgs, NEW s \in Sessions
    PROVE  SessionInv(o, s)'
<1>1. SessionInv(o, s) /\ BurnsOnly(r)
  BY DEF LedgerInv
<1>2. /\ charges' = charges /\ burnRows' = burnRows /\ blind' = blind /\ Return(r)
      /\ req[r] # Idle
  BY DEF Die, log
<1>3. /\ OnlyOne(r)
      /\ r \notin RequestsAt("update", o, s)' /\ r \notin RequestsAt("audit", o, s)'
  BY <1>2, ReturnOne
<1>4. /\ unaudited[o] \in Sums /\ unaudited \in [Orgs -> Sums]
      /\ unaudited[o]["burn"] \in Int /\ "burn" \in Kinds
  BY DEF TypeOK, Sums, Kinds
<1>5. CASE req[r].pc = "audit"
  <2>1. /\ req[r].org \in Orgs /\ req[r].amt \in Nat /\ req[r].amt # 0
        /\ req[r].kind \in Kinds
    BY <1>5, WorkingRequest, LedgerAssumption
  <2>2. unaudited' = [unaudited EXCEPT ![req[r].org][req[r].kind] = @ + req[r].amt]
    BY <1>5 DEF Die
  <2>3. CASE req[r].org = o /\ req[r].kind = "burn"
    <3>1. unaudited'[o]["burn"] = unaudited[o]["burn"] + req[r].amt
      BY <1>4, <2>1, <2>2, <2>3 DEF Sums
    <3>2. unaudited'[o]["burn"] >= 0 /\ unaudited'[o]["burn"] # 0
      BY <1>1, <1>4, <2>1, <3>1 DEF SessionInv
    <3>3. QED
      BY <3>2 DEF SessionInv
  <2>4. CASE ~(req[r].org = o /\ req[r].kind = "burn")
    <3>1. unaudited'[o]["burn"] = unaudited[o]["burn"]
      BY <1>4, <2>1, <2>2, <2>4 DEF Sums
    <3>2. r \notin RequestsAt("audit", o, s) /\ r \notin RequestsAt("update", o, s)
      <4>1. r \notin RequestsAt("update", o, s)
        BY <1>5 DEF RequestsAt
      <4>2. ~(req[r].org = o /\ req[r].session = s)
        BY <1>1, <1>2, <2>4 DEF BurnsOnly
      <4>3. r \notin RequestsAt("audit", o, s)
        BY <4>2 DEF RequestsAt
      <4>4. QED
        BY <4>1, <4>3
    <3>3. /\ RequestsAt("audit", o, s)' = RequestsAt("audit", o, s)
          /\ RequestsAt("update", o, s)' = RequestsAt("update", o, s)
      BY <1>3, <3>2, AtMoves
    <3>4. Charged(o, s) => Charged(o, s)'
      BY <1>2, <3>3 DEF Charged
    <3>5. QED
      BY <1>1, <1>2, <3>1, <3>4 DEF SessionInv
  <2>5. QED
    BY <2>3, <2>4
<1>6. CASE req[r].pc # "audit"
  <2>1. unaudited' = unaudited /\ r \notin RequestsAt("audit", o, s)
    BY <1>6 DEF Die, RequestsAt
  <2>2. QED
    BY <1>1, <1>2, <1>3, <2>1, SessionFrame
<1>7. QED
  BY <1>5, <1>6
(* A call that enters, and a step that moves no call, charges nothing.     *)
LEMMA EntryCharges ==
    ASSUME TypeOK, LedgerInv, NEW r \in Requests, req[r] = Idle,
           NEW pc \in {"dedup", "update", "audit"}, NEW kind, NEW p,
           NEW a, NEW t, Enter(r, pc, kind, p, a, t),
           pc = "dedup" \/ t = NoSession,
           UNCHANGED <<charges, burnRows, unaudited>>, blind \subseteq blind',
           NEW o \in Orgs, NEW s \in Sessions
    PROVE  SessionInv(o, s)'
<1>1. SessionInv(o, s) /\ s # NoSession
  BY LedgerAssumption DEF LedgerInv
<1>2. /\ OnlyOne(r)
      /\ r \notin RequestsAt("audit", o, s) /\ r \notin RequestsAt("update", o, s)
  BY EnterOne
<1>3. r \notin RequestsAt("audit", o, s)' /\ r \notin RequestsAt("update", o, s)'
  <2>1. /\ r \in RequestsAt("audit", o, s)' <=> "audit" = pc /\ o = p /\ s = t
        /\ r \in RequestsAt("update", o, s)' <=> "update" = pc /\ o = p /\ s = t
    BY EnterOne
  <2>2. QED
    BY <1>1, <2>1
<1>4. QED
  BY <1>1, <1>2, <1>3, SessionFrame

LEMMA StillCharges ==
    ASSUME TypeOK, LedgerInv,
           UNCHANGED <<req, charges, burnRows, unaudited>>, blind \subseteq blind',
           NEW o \in Orgs, NEW s \in Sessions
    PROVE  SessionInv(o, s)'
<1>1. SessionInv(o, s)
  BY DEF LedgerInv
<1>2. /\ RequestsAt("audit", o, s)' = RequestsAt("audit", o, s)
      /\ RequestsAt("update", o, s)' = RequestsAt("update", o, s)
  BY DEF RequestsAt
<1>3. QED
  BY <1>1, <1>2 DEF SessionInv, Charged

LEMMA LedgerInit == Init => LedgerInv
<1> SUFFICES ASSUME Init, NEW o \in Orgs, NEW s \in Sessions, NEW r \in Requests
             PROVE  BurnsOnly(r) /\ SessionInv(o, s)
  BY LedgerAssumption DEF LedgerInv, Init, BurnsOnly
<1>1. BurnsOnly(r)
  BY DEF Init, BurnsOnly
<1>2. RequestsAt("audit", o, s) = {} /\ RequestsAt("update", o, s) = {}
  BY DEF Init, Idle, RequestsAt
<1>3. Cardinality({}) = 0 /\ Cardinality(Requests) \in Nat
  BY FS_EmptySet, FS_CardinalityType, LedgerAssumption
<1>4. Charged(o, s)
  <2>1. charges[o][s] = 0
    BY DEF Init
  <2>2. /\ Cardinality(RequestsAt("audit", o, s)) = 0
        /\ Cardinality(RequestsAt("update", o, s)) = 0
    BY <1>2, <1>3
  <2>3. QED
    BY <1>3, <2>1, <2>2 DEF Charged
<1>5. unaudited[o]["burn"] = 0
  BY DEF Init, NoSums, Kinds
<1>6. QED
  BY <1>1, <1>4, <1>5 DEF SessionInv

LEMMA LedgerNext == TypeOK /\ LedgerInv /\ [Next]_vars => LedgerInv'
<1> SUFFICES ASSUME TypeOK, LedgerInv, [Next]_vars
             PROVE  LedgerInv'
  OBVIOUS
<1>1. ASSUME NEW r \in Requests, NEW o \in Orgs, NEW a \in Amounts,
             AddUpsert(r, o, a) \/ RefundUpsert(r, o, a)
      PROVE  LedgerInv'
  <2>1. PICK kind \in Kinds : Enter(r, "audit", kind, o, a, NoSession)
    BY <1>1 DEF AddUpsert, RefundUpsert, Kinds
  <2>2. /\ UNCHANGED <<charges, burnRows, unaudited>> /\ blind \subseteq blind'
        /\ req[r] = Idle
    BY <1>1 DEF AddUpsert, RefundUpsert, log, history, Begin
  <2>3. \A p \in Orgs, s \in Sessions : SessionInv(p, s)'
    BY <2>1, <2>2, EntryCharges
  <2>4. OnlyOne(r) /\ BurnsOnly(r)'
    BY <2>1, <2>2, EnterOne, LedgerAssumption DEF BurnsOnly
  <2>5. QED
    BY <2>3, <2>4, StayBurns DEF LedgerInv
<1>2. ASSUME NEW r \in Requests, NEW o \in Orgs, NEW a \in Amounts,
             NEW t \in Sessions \cup {NoSession}, DailyCap(r, o, a, t)
      PROVE  LedgerInv'
  <2>1. /\ UNCHANGED <<charges, burnRows, unaudited>> /\ blind \subseteq blind'
        /\ req[r] = Idle
    BY <1>2 DEF DailyCap, log, Begin
  <2>2. CASE UNCHANGED req
    <3>1. \A p \in Orgs, s \in Sessions : SessionInv(p, s)'
      BY <2>1, <2>2, StillCharges
    <3>2. QED
      BY <2>2, <3>1 DEF LedgerInv, BurnsOnly, Idle
  <2>3. CASE Enter(r, IF t = NoSession THEN "update" ELSE "dedup", "burn", o, a, t)
    <3>1. PICK pc \in {"update", "dedup"} :
             /\ Enter(r, pc, "burn", o, a, t)
             /\ pc = "dedup" \/ t = NoSession
      BY <2>3
    <3>2. \A p \in Orgs, s \in Sessions : SessionInv(p, s)'
      BY <2>1, <3>1, EntryCharges
    <3>3. OnlyOne(r) /\ req'[r].kind = "burn"
      BY <2>1, <3>1, EnterOne
    <3>4. QED
      BY <3>2, <3>3, StayBurns DEF LedgerInv, BurnsOnly
  <2>4. QED
    BY <1>2, <2>2, <2>3 DEF DailyCap
<1>3. ASSUME NEW r \in Requests, Dedup(r) \/ DeductUpdate(r) \/ AuditInsert(r) \/ Die(r)
      PROVE  LedgerInv'
  <2>1. \A p \in Orgs, s \in Sessions : SessionInv(p, s)'
    BY <1>3, DedupCharges, UpdateCharges, InsertCharges, DeathCharges
  <2>2. BurnsOnly(r)
    BY DEF LedgerInv
  <2>3. CASE Return(r)
    <3>1. OnlyOne(r) /\ req'[r] = Idle
      BY <2>3, ReturnOne
    <3>2. QED
      BY <2>1, <3>1, StayBurns DEF LedgerInv, BurnsOnly, Idle
  <2>4. ASSUME NEW pc \in {"update", "audit"}, req[r].pc # "idle",
               req' = [req EXCEPT ![r].pc = pc]
        PROVE  LedgerInv'
    <3>1. /\ OnlyOne(r) /\ req'[r].kind = req[r].kind
          /\ req'[r].session = req[r].session
      BY <2>4, MoveOne
    <3>2. req[r] # Idle
      BY <2>4 DEF Idle
    <3>3. BurnsOnly(r)'
      BY <2>2, <3>1, <3>2 DEF BurnsOnly
    <3>4. QED
      BY <2>1, <3>1, <3>3, StayBurns DEF LedgerInv
  <2>5. QED
    BY <1>3, <2>3, <2>4 DEF Dedup, DeductUpdate, AuditInsert, Die
<1>4. CASE UNCHANGED <<req, charges, burnRows, unaudited, blind>>
  <2>1. \A p \in Orgs, s \in Sessions : SessionInv(p, s)'
    BY <1>4, StillCharges
  <2>2. QED
    BY <1>4, <2>1 DEF LedgerInv, BurnsOnly, Idle
<1>5. QED
  BY <1>1, <1>2, <1>3, <1>4 DEF Next, WindowSlides, vars, log, history

(* Calls for one session that run beside each other are all charged, but   *)
(* never more of them than there are callers, however many calls retry it  *)
(* and whenever they run, unless a read failed or a call died before it    *)
(* wrote its row.                                                          *)
THEOREM DuplicatesAreBounded == Spec => []DuplicatesBounded
<1>1. TypeOK /\ LedgerInv => DuplicatesBounded
  <2> SUFFICES ASSUME TypeOK, LedgerInv, NEW o \in Orgs \ blind, NEW s \in Sessions,
                      unaudited[o]["burn"] = 0
               PROVE  charges[o][s] <= Cardinality(Requests)
    BY DEF DuplicatesBounded
  <2>1. charges[o][s] + Cardinality(RequestsAt("update", o, s)) <= Cardinality(Requests)
    BY DEF LedgerInv, SessionInv, Charged
  <2>2. charges[o][s] \in Nat /\ Cardinality(Requests) \in Nat
    BY LedgerAssumption, FS_CardinalityType DEF TypeOK
  <2>3. Cardinality(RequestsAt("update", o, s)) \in Nat
    <3>1. RequestsAt("update", o, s) \subseteq Requests
      BY DEF RequestsAt
    <3>2. QED
      BY <3>1, LedgerAssumption, FS_Subset, FS_CardinalityType
  <2>4. QED
    BY <2>1, <2>2, <2>3
<1>2. QED
  BY <1>1, LedgerInit, LedgerNext, TypeCorrect, PTL DEF Spec
-----------------------------------------------------------------------------
(* The inductive form of CapOvershootBounded.  The last call to pass the   *)
(* cap had room for its own amount when it did, whatever the others, at    *)
(* most one per other caller, have still to add: so the spend stays under  *)
(* the bound as long as each call in flight adds the largest amount, or    *)
(* one of them, while it is in flight, adds its own and the others the     *)
(* largest.                                                                *)
MaxAmount == Max(Amounts)
Bound == DailyLimit + (Cardinality(Requests) - 1) * MaxAmount
Load(o) == Cardinality(Spending(o)) * MaxAmount
CapInv(o) ==
    o \notin blind =>
        \/ daySpend[o] + Load(o) <= Bound
        \/ \E r \in Spending(o) :
              daySpend[o] + req[r].amt + Load(o) - MaxAmount <= Bound

LEMMA LargestAmount ==
    MaxAmount \in Nat /\ \A a \in Amounts : a \in Nat /\ a <= MaxAmount
<1>1. Amounts \subseteq Int /\ Amounts \subseteq Nat
  BY LedgerAssumption
<1>2. Max(Amounts) \in Amounts /\ \A a \in Amounts : a <= Max(Amounts)
  BY <1>1, MaxOfFinite, LedgerAssumption
<1>3. QED
  BY <1>1, <1>2 DEF MaxAmount

LEMMA Times ==
    ASSUME NEW m \in Nat
    PROVE  /\ \A n \in Nat : n * m \in Nat
           /\ \A n \in Int : n * m \in Int /\ (n - 1) * m = n * m - m
                                           /\ (n + 1) * m = n * m + m
           /\ \A i, j \in Int : i <= j => i * m <= j * m
  OBVIOUS

LEMMA SpendingMoves ==
    ASSUME NEW r \in Requests, OnlyOne(r), NEW o
    PROVE  /\ Load(o) \in Nat /\ Load(o)' \in Nat
           /\ Spending(o) \in SUBSET Requests /\ Spending(o)' \in SUBSET Requests
           /\ Spending(o) \ {r} = Spending(o)' \ {r}
           /\ (r \in Spending(o) <=> r \in Spending(o)') => UNCHANGED Spending(o)
           /\ r \notin Spending(o) /\ r \in Spending(o)' => Load(o)' = Load(o) + MaxAmount
           /\ r \in Spending(o) /\ r \notin Spending(o)' => Load(o)' = Load(o) - MaxAmount
<1>1. Spending(o) \in SUBSET Requests /\ Spending(o)' \in SUBSET Requests
  BY DEF Spending
<1>2. Spending(o) \ {r} = Spending(o)' \ {r}
  BY DEF Spending, OnlyOne
<1>3. /\ Cardinality(Spending(o)) \in Nat /\ Cardinality(Spending(o)') \in Nat
      /\ (r \in Spending(o) <=> r \in Spending(o)') => Spending(o)' = Spending(o)
      /\ r \notin Spending(o) /\ r \in Spending(o)'
           => Cardinality(Spending(o)') = Cardinality(Spending(o)) + 1
      /\ r \in Spending(o) /\ r \notin Spending(o)'
           => Cardinality(Spending(o)') = Cardinality(Spending(o)) - 1
  BY <1>1, <1>2, OneApart, LedgerAssumption
<1>4. \A n \in Nat : n * MaxAmount \in Nat /\ (n - 1) * MaxAmount = n * MaxAmount - MaxAmount
                     /\ (n + 1) * MaxAmount = n * MaxAmount + MaxAmount
  BY LargestAmount, Times
<1>5. Load(o)' = Cardinality(Spending(o)') * MaxAmount
  BY DEF Load, MaxAmount
<1> QED
  BY <1>1, <1>2, <1>3, <1>4, <1>5 DEF Load
(* A step that brings no call past the cap and adds nothing to the spend.  *)
LEMMA CapFrame ==
    ASSUME TypeOK, TypeOK', NEW o \in Orgs, CapInv(o), NEW r \in Requests, OnlyOne(r),
           r \in Spending(o) <=> r \in Spending(o)',
           r \in Spending(o) => req'[r].amt = req[r].amt,
           daySpend'[o] <= daySpend[o], blind \subseteq blind'
    PROVE  CapInv(o)'
<1>1. Spending(o)' = Spending(o) /\ Load(o) \in Nat
  BY SpendingMoves
<1>2. Load(o)' = Load(o) /\ Bound' = Bound
  BY <1>1 DEF Load, Bound, MaxAmount
<1>3. daySpend[o] \in Nat /\ daySpend'[o] \in Nat /\ MaxAmount \in Nat /\ Bound \in Int
  <2>1. daySpend[o] \in Nat /\ daySpend'[o] \in Nat
    BY DEF TypeOK
  <2>2. Cardinality(Requests) - 1 \in Int
    BY FS_CardinalityType, LedgerAssumption
  <2>3. QED
    BY <2>1, <2>2, LargestAmount, Times, LedgerAssumption DEF Bound
<1>4. CASE o \in blind
  BY <1>4 DEF CapInv
<1>5. CASE daySpend[o] + Load(o) <= Bound
  BY <1>1, <1>2, <1>3, <1>5 DEF CapInv
<1>6. ASSUME NEW q \in Spending(o),
             daySpend[o] + req[q].amt + Load(o) - MaxAmount <= Bound
      PROVE  CapInv(o)'
  <2>1. q \in Requests /\ req[q].amt \in Nat
    BY WorkingRequest DEF Spending, TypeOK, Idle, Working
  <2>2. req'[q].amt = req[q].amt
    BY <2>1, <1>6 DEF OnlyOne
  <2>3. daySpend'[o] + req[q].amt + Load(o) - MaxAmount <= Bound
    BY <1>1, <1>3, <1>6, <2>1
  <2>4. MaxAmount' = MaxAmount
    BY DEF MaxAmount
  <2>5. QED
    BY <1>1, <1>2, <2>2, <2>3, <2>4 DEF CapInv
<1>7. QED
  BY <1>4, <1>5, <1>6 DEF CapInv

(* A call that passed the cap ends, and may have added its amount.         *)
LEMMA CapEnd ==
    ASSUME TypeOK, TypeOK', NEW o \in Orgs, CapInv(o), NEW r \in Requests, OnlyOne(r),
           r \in Spending(o), r \notin Spending(o)',
           daySpend'[o] <= daySpend[o] + req[r].amt, blind \subseteq blind'
    PROVE  CapInv(o)'
<1>1. /\ Load(o) \in Nat /\ Load(o)' \in Nat /\ Load(o)' = Load(o) - MaxAmount
      /\ Spending(o) \ {r} = Spending(o)' \ {r}
  BY SpendingMoves
<1>2. Bound' = Bound /\ MaxAmount' = MaxAmount
  BY DEF Bound, MaxAmount
<1>3. daySpend[o] \in Nat /\ daySpend'[o] \in Nat /\ MaxAmount \in Nat /\ Bound \in Int
  <2>1. daySpend[o] \in Nat /\ daySpend'[o] \in Nat
    BY DEF TypeOK
  <2>2. Cardinality(Requests) - 1 \in Int
    BY FS_CardinalityType, LedgerAssumption
  <2>3. QED
    BY <2>1, <2>2, LargestAmount, Times, LedgerAssumption DEF Bound
<1>4. \A q \in Spending(o) : /\ q \in Requests /\ req[q].amt \in Nat
                             /\ req[q].amt <= MaxAmount
  <2> SUFFICES ASSUME NEW q \in Spending(o)
               PROVE  q \in Requests /\ req[q].amt \in Nat /\ req[q].amt <= MaxAmount
    OBVIOUS
  <2>1. q \in Requests /\ req[q] # Idle
    BY DEF Spending
  <2>2. req[q] \in Working
    BY <2>1 DEF TypeOK
  <2>3. req[q].amt \in Amounts
    BY <2>2 DEF Working
  <2>4. QED
    BY <2>1, <2>3, LargestAmount
<1>5. CASE o \in blind
  BY <1>5 DEF CapInv
<1>6. CASE daySpend[o] + Load(o) <= Bound
  <2>1. daySpend'[o] + Load(o)' <= Bound
    BY <1>1, <1>3, <1>4, <1>6
  <2>2. QED
    BY <1>2, <2>1 DEF CapInv
<1>7. ASSUME NEW q \in Spending(o),
             daySpend[o] + req[q].amt + Load(o) - MaxAmount <= Bound
      PROVE  CapInv(o)'
  <2>1. CASE q = r
    <3>1. daySpend'[o] + Load(o)' <= Bound
      BY <1>1, <1>3, <1>4, <1>7, <2>1
    <3>2. QED
      BY <1>2, <3>1 DEF CapInv
  <2>2. CASE q # r
    <3>1. q \in Spending(o)' /\ req'[q] = req[q]
      BY <1>1, <1>4, <2>2 DEF OnlyOne
    <3>2. /\ req[q].amt \in Nat /\ req[r].amt \in Nat /\ req[r].amt <= MaxAmount
      BY <1>4
    <3>3. daySpend'[o] + req[q].amt + Load(o)' - MaxAmount <= Bound
      BY <1>1, <1>3, <1>7, <3>2
    <3>4. QED
      BY <1>2, <3>1, <3>3 DEF CapInv
  <2>3. QED
    BY <2>1, <2>2
<1>8. QED
  BY <1>5, <1>6, <1>7 DEF CapInv

(* A call passes the cap: it had room, and every other caller may be in    *)
(* flight.                                                                 *)
LEMMA CapPass ==
    ASSUME TypeOK, TypeOK', NEW o \in Orgs, CapInv(o), NEW r \in Requests, OnlyOne(r),
           r \notin Spending(o), r \in Spending(o)',
           ~OverCap(o, req'[r].amt), daySpend' = daySpend
    PROVE  CapInv(o)'
<1>1. /\ Load(o) \in Nat /\ Load(o)' = Load(o) + MaxAmount
      /\ Spending(o) \in SUBSET Requests
  BY SpendingMoves
<1>2. Bound' = Bound /\ MaxAmount' = MaxAmount
  BY DEF Bound, MaxAmount
<1>3. daySpend[o] \in Nat /\ MaxAmount \in Nat /\ DailyLimit \in Nat
  BY LargestAmount, LedgerAssumption DEF TypeOK
<1>4. req'[r].amt \in Nat
  <2>1. req'[r] \in Working
    BY DEF Spending, TypeOK
  <2>2. QED
    BY <2>1, LedgerAssumption DEF Working
<1>5. Load(o) <= (Cardinality(Requests) - 1) * MaxAmount
  <2>1. Cardinality(Spending(o)) + Cardinality({}) + 1 <= Cardinality(Requests)
    BY <1>1, DisjointPair, LedgerAssumption
  <2>2. /\ Cardinality({}) = 0 /\ Cardinality(Requests) \in Nat
        /\ Cardinality(Spending(o)) \in Nat
    BY <1>1, FS_EmptySet, FS_CardinalityType, FS_Subset, LedgerAssumption
  <2>3. /\ Cardinality(Spending(o)) \in Int /\ Cardinality(Requests) - 1 \in Int
        /\ Cardinality(Spending(o)) <= Cardinality(Requests) - 1
    BY <2>1, <2>2
  <2>4. QED
    BY <1>3, <2>3, Times DEF Load
<1>6. (Cardinality(Requests) - 1) * MaxAmount \in Int
  BY <1>3, FS_CardinalityType, LedgerAssumption, Times
<1>7. daySpend[o] + req'[r].amt <= DailyLimit
  BY <1>3, <1>4 DEF OverCap
<1>8. daySpend[o] + req'[r].amt + (Load(o) + MaxAmount) - MaxAmount <= Bound
  BY <1>1, <1>3, <1>4, <1>5, <1>6, <1>7 DEF Bound
<1>9. QED
  BY <1>1, <1>2, <1>8 DEF CapInv
LEMMA CapInit == Init => \A o \in Orgs : CapInv(o)
<1> SUFFICES ASSUME Init, NEW o \in Orgs
             PROVE  CapInv(o)
  OBVIOUS
<1>1. Spending(o) = {} /\ daySpend[o] = 0
  BY DEF Init, Spending
<1>2. Load(o) = 0
  BY <1>1, FS_EmptySet, LargestAmount DEF Load
<1>3. Cardinality(Requests) \in Nat /\ Cardinality(Requests) # 0
  BY FS_CardinalityType, FS_EmptySet, LedgerAssumption
<1>4. Cardinality(Requests) - 1 \in Nat
  BY <1>3
<1>5. (Cardinality(Requests) - 1) * MaxAmount \in Nat
  BY <1>4, LargestAmount, Times
<1>6. 0 <= Bound
  BY <1>5, LedgerAssumption DEF Bound
<1>7. QED
  BY <1>1, <1>2, <1>6 DEF CapInv

LEMMA CapNext ==
    ASSUME TypeOK, TypeOK', [Next]_vars, NEW o \in Orgs, CapInv(o)
    PROVE  CapInv(o)'
<1>1. daySpend[o] \in Nat /\ daySpend \in [Orgs -> Nat]
  BY DEF TypeOK
<1>2. ASSUME NEW r \in Requests, NEW p \in Orgs, NEW a \in Amounts,
             AddUpsert(r, p, a) \/ RefundUpsert(r, p, a)
      PROVE  CapInv(o)'
  <2>1. PICK kind \in {"purchase", "refund"} :
           Enter(r, "audit", kind, p, a, NoSession)
    BY <1>2 DEF AddUpsert, RefundUpsert
  <2>2. daySpend' = daySpend /\ blind \subseteq blind' /\ req[r] = Idle
    BY <1>2 DEF AddUpsert, RefundUpsert, log, history, Begin
  <2>3. OnlyOne(r) /\ req'[r].kind = kind
    BY <2>1, <2>2, EnterOne DEF Kinds
  <2>4. r \notin Spending(o) /\ r \notin Spending(o)'
    BY <2>2, <2>3 DEF Spending
  <2>5. daySpend'[o] <= daySpend[o]
    BY <1>1, <2>2
  <2>6. QED
    BY <2>2, <2>3, <2>4, <2>5, CapFrame
<1>3. ASSUME NEW r \in Requests, NEW p \in Orgs, NEW a \in Amounts,
             NEW t \in Sessions \cup {NoSession}, DailyCap(r, p, a, t)
      PROVE  CapInv(o)'
  <2>1. /\ daySpend' = daySpend /\ blind \subseteq blind' /\ req[r] = Idle
        /\ r \notin Spending(o) /\ daySpend'[o] <= daySpend[o]
    BY <1>1, <1>3 DEF DailyCap, log, Begin, Spending
  <2>2. CASE UNCHANGED req
    <3>1. OnlyOne(r) /\ Spending(o)' = Spending(o)
      BY <2>2 DEF OnlyOne, Spending
    <3>2. QED
      BY <2>1, <3>1, CapFrame
  <2>3. CASE /\ Enter(r, IF t = NoSession THEN "update" ELSE "dedup", "burn", p, a, t)
             /\ ~OverCap(p, a) \/ blind' = blind \cup {p}
    <3>1. PICK pc \in {"update", "dedup"} : Enter(r, pc, "burn", p, a, t)
      BY <2>3
    <3>2. /\ OnlyOne(r) /\ req'[r].kind = "burn" /\ req'[r].amt = a
          /\ req'[r].org = p /\ req'[r] # Idle
      BY <2>1, <3>1, EnterOne
    <3>3. r \in Spending(o)' <=> o = p
      BY <3>2 DEF Spending
    <3>4. CASE o # p
      BY <2>1, <3>2, <3>3, <3>4, CapFrame
    <3>5. CASE o = p /\ ~OverCap(p, a)
      BY <2>1, <3>2, <3>3, <3>5, CapPass
    <3>6. CASE o = p /\ blind' = blind \cup {p}
      BY <3>6 DEF CapInv
    <3>7. QED
      BY <2>3, <3>4, <3>5, <3>6
  <2>4. QED
    BY <1>3, <2>2, <2>3 DEF DailyCap
<1>4. ASSUME NEW r \in Requests, NEW pc \in {"update", "audit"},
             req[r].pc # "idle", req' = [req EXCEPT ![r].pc = pc],
             daySpend' = daySpend, blind \subseteq blind'
      PROVE  CapInv(o)'
  <2>1. /\ OnlyOne(r) /\ req'[r].kind = req[r].kind
        /\ req'[r].org = req[r].org /\ req'[r].amt = req[r].amt
    BY <1>4, MoveOne
  <2>2. req'[r].pc = pc
    BY <1>4, MoveOne
  <2>3. req[r] # Idle /\ req'[r] # Idle
    BY <1>4, <2>2 DEF Idle
  <2>4. r \in Spending(o) <=> r \in Spending(o)'
    BY <2>1, <2>3 DEF Spending
  <2>5. daySpend'[o] <= daySpend[o]
    BY <1>1, <1>4
  <2>6. QED
    BY <1>4, <2>1, <2>4, <2>5, CapFrame
<1>5. ASSUME NEW r \in Requests, Return(r), req[r] # Idle, blind \subseteq blind',
             \/ daySpend' = daySpend
             \/ req[r].kind = "burn"
                /\ daySpend' = [daySpend EXCEPT ![req[r].org] = @ + req[r].amt]
      PROVE  CapInv(o)'
  <2>1. OnlyOne(r) /\ req'[r] = Idle
    BY <1>5, ReturnOne
  <2>2. r \notin Spending(o)'
    BY <2>1 DEF Spending
  <2>3. r \in Spending(o) <=> req[r].org = o /\ req[r].kind = "burn"
    BY <1>5 DEF Spending
  <2>4. req[r].amt \in Nat
    <3>1. req[r] \in Working
      BY <1>5 DEF TypeOK
    <3>2. QED
      BY <3>1, LedgerAssumption DEF Working
  <2>5. CASE r \in Spending(o)
    <3>1. daySpend'[o] <= daySpend[o] + req[r].amt
      BY <1>1, <1>5, <2>3, <2>4, <2>5
    <3>2. QED
      BY <1>5, <2>1, <2>2, <2>5, <3>1, CapEnd
  <2>6. CASE r \notin Spending(o)
    <3>1. daySpend'[o] <= daySpend[o]
      BY <1>1, <1>5, <2>3, <2>6
    <3>2. QED
      BY <1>5, <2>1, <2>2, <2>6, <3>1, CapFrame
  <2>7. QED
    BY <2>5, <2>6
<1>6. ASSUME NEW r \in Requests, Dedup(r) \/ DeductUpdate(r) \/ Die(r)
      PROVE  CapInv(o)'
  <2>1. daySpend' = daySpend /\ blind \subseteq blind' /\ req[r] # Idle
    BY <1>6 DEF Dedup, DeductUpdate, Die, log, Idle
  <2>2. CASE Return(r)
    BY <1>5, <2>1, <2>2
  <2>3. CASE ~Return(r)
    BY <1>4, <1>6, <2>1, <2>3 DEF Dedup, DeductUpdate, Die
  <2>4. QED
    BY <2>2, <2>3
<1>7. ASSUME NEW r \in Requests, AuditInsert(r)
      PROVE  CapInv(o)'
  <2>1. /\ Return(r) /\ req[r] # Idle /\ blind \subseteq blind'
        /\ \/ daySpend' = daySpend
           \/ /\ req[r].kind = "burn"
              /\ daySpend' = [daySpend EXCEPT ![req[r].org] = @ + req[r].amt]
    BY <1>7 DEF AuditInsert, history, Idle, SpendOfRow
  <2>2. QED
    BY <1>5, <2>1
<1>8. ASSUME UNCHANGED <<req, blind>>, daySpend'[o] <= daySpend[o]
      PROVE  CapInv(o)'
  <2>1. PICK r \in Requests : TRUE
    BY LedgerAssumption
  <2>2. OnlyOne(r) /\ Spending(o)' = Spending(o)
    BY <1>8 DEF OnlyOne, Spending
  <2>3. QED
    BY <1>8, <2>2, CapFrame
<1>9. ASSUME NEW p \in Orgs, WindowSlides(p)
      PROVE  CapInv(o)'
  <2>1. PICK d \in 0..(daySpend[p] - 1) : daySpend' = [daySpend EXCEPT ![p] = d]
    BY <1>9 DEF WindowSlides
  <2>2. daySpend'[o] <= daySpend[o]
    BY <1>1, <2>1
  <2>3. UNCHANGED <<req, blind>>
    BY <1>9 DEF WindowSlides, history
  <2>4. QED
    BY <1>8, <2>2, <2>3
<1>10. CASE UNCHANGED vars
  <2>1. UNCHANGED <<req, blind>> /\ daySpend'[o] <= daySpend[o]
    BY <1>1, <1>10 DEF vars, log, history
  <2>2. QED
    BY <1>8, <2>1
<1>11. QED
  BY <1>2, <1>3, <1>6, <1>7, <1>9, <1>10 DEF Next

(* The daily cap is overshot, since it is checked against rows written     *)
(* long after, but never by more than one amount for each other caller,    *)
(* unless a read of the spend failed.                                      *)
THEOREM OvershootIsBounded == Spec => []CapOvershootBounded
<1>1. TypeOK /\ (\A o \in Orgs : CapInv(o)) => CapOvershootBounded
  <2> SUFFICES ASSUME TypeOK, NEW o \in Orgs \ blind, CapInv(o)
               PROVE  daySpend[o] <= Bound
    BY DEF CapOvershootBounded, Bound, MaxAmount
  <2>1. daySpend[o] \in Nat /\ MaxAmount \in Nat
    BY LargestAmount DEF TypeOK
  <2>2. Bound \in Int
    BY <2>1, FS_CardinalityType, LedgerAssumption, Times DEF Bound
  <2>3. PICK r \in Requests : TRUE
    BY LedgerAssumption
  <2>4. Spending(o) \subseteq Requests
    BY DEF Spending
  <2>5. Cardinality(Spending(o)) \in Nat
    BY <2>4, FS_Subset, FS_CardinalityType, LedgerAssumption
  <2>6. Load(o) \in Nat
    BY <2>1, <2>5, Times DEF Load
  <2>7. CASE daySpend[o] + Load(o) <= Bound
    BY <2>1, <2>2, <2>6, <2>7
  <2>8. ASSUME NEW q \in Spending(o),
               daySpend[o] + req[q].amt + Load(o) - MaxAmount <= Bound
        PROVE  daySpend[o] <= Bound
    <3>1. req[q].amt \in Nat
      <4>1. req[q] \in Working
        BY DEF Spending, TypeOK
      <4>2. QED
        BY <4>1, LedgerAssumption DEF Working
    <3>2. Load(o) >= MaxAmount
      <4>1. Cardinality(Spending(o)) # 0
        BY <2>4, FS_Subset, FS_EmptySet, LedgerAssumption
      <4>2. 1 <= Cardinality(Spending(o))
        BY <2>5, <4>1
      <4>3. 1 * MaxAmount <= Cardinality(Spending(o)) * MaxAmount
        BY <2>1, <2>5, <4>2, Times
      <4>4. QED
        BY <2>1, <4>3 DEF Load
    <3>3. QED
      BY <2>1, <2>2, <2>6, <2>8, <3>1, <3>2
  <2>9. QED
    BY <2>7, <2>8 DEF CapInv
<1>2. TypeOK /\ (\A o \in Orgs : CapInv(o)) /\ [Next]_vars => (\A o \in Orgs : CapInv(o))'
  BY NextType, CapNext
<1>3. QED
  BY <1>1, <1>2, CapInit, TypeCorrect, PTL DEF Spec
-----------------------------------------------------------------------------
(* The sum of AmountOf, for any table of requests, is a Total.             *)
AmountSum(m, S) == MapThenSumSet(LAMBDA r : m[r].amt, S)
AmountsOf(m, S) == [r \in S |-> m[r].amt]
IsAmountSum(m, S, f) ==
    f = [T \in SUBSET S |-> IF T = {} THEN 0
                            ELSE m[First(T)].amt + f[T \ {First(T)}]]

LEMMA AmountSumIs ==
    ASSUME NEW m, NEW S, IsFiniteSet(S)
    PROVE  AmountSum(m, S) = Total(AmountsOf(m, S), S)
<1> DEFINE g == AmountsOf(m, S)
           c == CHOOSE f : IsAmountSum(m, S, f)
<1>1. ASSUME NEW f
      PROVE  IsSum(g, S, f) <=> IsAmountSum(m, S, f)
  <2>1. \A T \in SUBSET S : T # {} => First(T) \in S
    BY FirstIn
  <2>2. \A T \in SUBSET S : T # {} => g[First(T)] = m[First(T)].amt
    BY <2>1 DEF AmountsOf
  <2> HIDE DEF g
  <2>3. [T \in SUBSET S |-> IF T = {} THEN 0 ELSE g[First(T)] + f[T \ {First(T)}]]
         = [T \in SUBSET S |-> IF T = {} THEN 0
                               ELSE m[First(T)].amt + f[T \ {First(T)}]]
    BY <2>2
  <2> QED
    BY <2>3 DEF IsSum, IsAmountSum
<1>2. IsSum(g, S, SumOf(g, S))
  BY SumExists
<1>3. IsSum(g, S, c)
  BY <1>1, <1>2
<1>4. c[S] = SumOf(g, S)[S]
  <2> HIDE DEF g, c
  <2>1. PICK f : f = c
    OBVIOUS
  <2>2. PICK h : h = SumOf(g, S)
    OBVIOUS
  <2>3. IsSum(g, S, f) /\ IsSum(g, S, h) /\ S \in SUBSET S
    BY <1>2, <1>3, <2>1, <2>2
  <2>4. \A U \in SUBSET S : f[U] = h[U]
    BY <2>3, SumUnique
  <2> QED
    BY <2>1, <2>2, <2>4
<1>5. AmountSum(m, S) = c[S]
  BY DEF AmountSum, MapThenSumSet, MapThenFoldSet, IsAmountSum, First
<1> QED
  BY <1>4, <1>5, TotalIs

(* The sum is a number; an element more adds its amount; and only the      *)
(* elements matter.                                                        *)
LEMMA AmountSumType ==
    ASSUME NEW S, IsFiniteSet(S), NEW m, \A r \in S : m[r].amt \in Int
    PROVE  AmountSum(m, S) \in Int
<1> DEFINE g == AmountsOf(m, S)
<1>1. \A r \in S : g[r] \in Int
  BY DEF AmountsOf
<1> HIDE DEF g
<1>2. Total(g, S) \in Int
  BY <1>1, TotalType
<1> QED
  BY <1>2, AmountSumIs DEF g

LEMMA AmountSumSame ==
    ASSUME NEW S, IsFiniteSet(S), NEW m, NEW n, \A r \in S : m[r].amt = n[r].amt
    PROVE  AmountSum(m, S) = AmountSum(n, S)
<1>1. AmountsOf(m, S) = AmountsOf(n, S)
  BY DEF AmountsOf
<1> QED
  BY <1>1, AmountSumIs

LEMMA AmountSumWith ==
    ASSUME NEW S, IsFiniteSet(S), NEW m, NEW e, e \notin S,
           \A r \in S \cup {e} : m[r].amt \in Int
    PROVE  AmountSum(m, S \cup {e}) = m[e].amt + AmountSum(m, S)
<1> DEFINE T == S \cup {e}
           g == AmountsOf(m, T)
<1>1. IsFiniteSet(T)
  BY FS_AddElement
<1>2. /\ \A r \in T : g[r] \in Int
      /\ g[e] = m[e].amt
      /\ \A r \in S : g[r] = AmountsOf(m, S)[r]
  BY DEF AmountsOf
<1>3. Total(g, S \cup {e}) = g[e] + Total(g, S)
  <2> HIDE DEF g
  <2> QED
    BY <1>2, TotalWith
<1>4. Total(g, S) = Total(AmountsOf(m, S), S)
  <2> HIDE DEF g
  <2> QED
    BY <1>2, TotalSame
<1>5. AmountSum(m, T) = Total(g, T) /\ AmountSum(m, S) = Total(AmountsOf(m, S), S)
  BY <1>1, AmountSumIs
<1> QED
  BY <1>2, <1>3, <1>4, <1>5

(* What a step of one request does to what its org has still to log.       *)
LEMMA UnwrittenMoves ==
    ASSUME TypeOK, TypeOK', NEW r \in Requests, OnlyOne(r), NEW o, NEW k
    PROVE  /\ AmountOf(Unwritten(o, k)) \in Int
           /\ r \notin Unwritten(o, k) /\ r \notin Unwritten(o, k)'
                => UNCHANGED AmountOf(Unwritten(o, k))
           /\ r \notin Unwritten(o, k) /\ r \in Unwritten(o, k)'
                => AmountOf(Unwritten(o, k))' = AmountOf(Unwritten(o, k)) + req'[r].amt
           /\ r \in Unwritten(o, k) /\ r \notin Unwritten(o, k)'
                => AmountOf(Unwritten(o, k))' = AmountOf(Unwritten(o, k)) - req[r].amt
<1> DEFINE S == Unwritten(o, k)
           T == Unwritten(o, k)'
           R == S \ {r}
<1>1. S \in SUBSET Requests /\ T \in SUBSET Requests /\ R = T \ {r}
  BY DEF Unwritten, OnlyOne
<1>2. IsFiniteSet(S) /\ IsFiniteSet(T) /\ IsFiniteSet(R)
  BY <1>1, LedgerAssumption, FS_Subset
<1>3. \A q \in S : req[q].amt \in Int
  <2> SUFFICES ASSUME NEW q \in S
               PROVE  req[q].amt \in Int
    OBVIOUS
  <2>1. q \in Requests /\ req[q].pc = "audit"
    BY DEF Unwritten
  <2> QED
    BY <2>1, WorkingRequest
<1>4. \A q \in T : req'[q].amt \in Int
  <2> SUFFICES ASSUME NEW q \in T
               PROVE  req'[q].amt \in Int
    OBVIOUS
  <2>1. q \in Requests /\ req'[q].pc = "audit"
    BY DEF Unwritten
  <2>2. req'[q] \in Working
    BY <2>1 DEF TypeOK, Idle
  <2>3. req'[q].amt \in Amounts
    BY <2>2 DEF Working
  <2>4. \A a \in Amounts : a \in Int
    BY LargestAmount
  <2> QED
    BY <2>3, <2>4
<1>5. AmountOf(S) = AmountSum(req, S) /\ AmountOf(Unwritten(o, k))' = AmountSum(req', T)
  BY DEF AmountOf, AmountSum, MapThenSumSet, MapThenFoldSet
<1>6. \A q \in R : req'[q].amt = req[q].amt
  BY <1>1 DEF OnlyOne
<1>7. R = S \ {r}
  OBVIOUS
<1> HIDE DEF S, T, R
<1>8. AmountSum(req', R) = AmountSum(req, R)
  <2>1. PICK m : m = req
    OBVIOUS
  <2>2. PICK n : n = req'
    OBVIOUS
  <2>3. \A q \in R : n[q].amt = m[q].amt
    BY <1>6, <2>1, <2>2
  <2> QED
    BY <1>2, <2>1, <2>2, <2>3, AmountSumSame
<1>9. AmountSum(req, R) \in Int /\ AmountSum(req, S) \in Int
  <2>1. \A q \in R : req[q].amt \in Int
    BY <1>3, <1>7
  <2> QED
    BY <1>2, <1>3, <2>1, AmountSumType
<1>10. CASE r \notin S /\ r \notin T
  <2>1. R = S /\ T = S
    BY <1>1, <1>7, <1>10
  <2> QED
    BY <1>5, <1>8, <1>9, <1>10, <2>1 DEF S, T
<1>11. CASE r \notin S /\ r \in T
  <2>1. R = S /\ T = S \cup {r}
    BY <1>1, <1>7, <1>11
  <2>2. AmountSum(req', S \cup {r}) = req'[r].amt + AmountSum(req', S)
    BY <1>2, <1>4, <1>11, <2>1, AmountSumWith
  <2>3. req'[r].amt \in Int
    BY <1>4, <1>11
  <2>4. AmountSum(req', T) = AmountSum(req, S) + req'[r].amt
    BY <1>8, <1>9, <2>1, <2>2, <2>3
  <2> QED
    BY <1>5, <1>9, <1>11, <2>4 DEF S, T
<1>12. CASE r \in S /\ r \notin T
  <2>1. R = T /\ S = R \cup {r} /\ r \notin R
    BY <1>1, <1>7, <1>12
  <2>2. AmountSum(req, R \cup {r}) = req[r].amt + AmountSum(req, R)
    BY <1>2, <1>3, <2>1, AmountSumWith
  <2>3. req[r].amt \in Int
    BY <1>3, <1>12
  <2>4. AmountSum(req', T) = AmountSum(req, S) - req[r].amt
    BY <1>8, <1>9, <2>1, <2>2, <2>3
  <2> QED
    BY <1>5, <1>9, <1>12, <2>4 DEF S, T
<1> QED
  BY <1>5, <1>9, <1>10, <1>11, <1>12 DEF S, T
(* The books of the account that the ledger implements.                    *)
Books == [o \in Orgs |-> [k \in Kinds |-> Booked(o, k)]]

(* What the ledger adds to the books, and when it leaves them alone.       *)
Adds(p, j, a) ==
    \A o \in Orgs, k \in Kinds :
        Booked(o, k)' = IF o = p /\ k = j THEN Booked(o, k) + a ELSE Booked(o, k)
AddsNothing ==
    \A o \in Orgs, k \in Kinds : Booked(o, k)' = Booked(o, k)

LEMMA BooksAdd ==
    ASSUME NEW p \in Orgs, NEW j \in Kinds, NEW a, Adds(p, j, a)
    PROVE  ImplementedAccount!Book(p, j, a)
<1>1. Books' = [o \in Orgs |-> [k \in Kinds |-> Booked(o, k)']]
  BY DEF Books
<1>2. \A o \in Orgs : Books'[o] = [k \in Kinds |-> Booked(o, k)']
  BY <1>1
<1>3. Books' = [Books EXCEPT ![p][j] = @ + a]
  BY <1>1 DEF Books, Adds
<1> QED
  BY <1>3 DEF ImplementedAccount!Book, Books

LEMMA BooksStay ==
    ASSUME AddsNothing
    PROVE  Books' = Books
  BY DEF Books, AddsNothing

(* A call that has yet to pass an UPDATE is a deduction.                   *)
BurnFirst == \A r \in Requests : req[r].pc \in {"dedup", "update"} => req[r].kind = "burn"
LEMMA BurnFirstNext == TypeOK /\ BurnFirst /\ [Next]_vars => BurnFirst'
<1> SUFFICES ASSUME TypeOK, BurnFirst, [Next]_vars, NEW q \in Requests
             PROVE  req'[q].pc \in {"dedup", "update"} => req'[q].kind = "burn"
  BY DEF BurnFirst
<1>0. req[q].pc \in {"dedup", "update"} => req[q].kind = "burn"
  BY DEF BurnFirst
<1>1. CASE req'[q] = req[q]
  BY <1>0, <1>1
<1>2. ASSUME NEW r \in Requests, OnlyOne(r), r # q
      PROVE  req'[q] = req[q]
  BY <1>2 DEF OnlyOne
<1>3. ASSUME NEW r \in Requests, Return(r)
      PROVE  req'[q] = req[q] \/ req'[q].pc = "idle"
  BY <1>2, <1>3, ReturnOne DEF Idle
<1>4. ASSUME NEW r \in Requests, req[r] = Idle, NEW pc, NEW kind, NEW o, NEW a, NEW s,
             Enter(r, pc, kind, o, a, s), pc = "audit" \/ kind = "burn"
      PROVE  \/ req'[q] = req[q] \/ req'[q].pc = "audit" \/ req'[q].kind = "burn"
  <2>1. CASE q # r
    BY <1>2, <1>4, <2>1, EnterOne
  <2>2. CASE q = r
    <3>1. req'[r] = [pc |-> pc, kind |-> kind, org |-> o, amt |-> a, session |-> s,
                     known |-> s \in Sessions /\ burnRows[o][s] > 0]
      BY <1>4 DEF Enter, TypeOK
    <3>2. req'[r].pc = pc /\ req'[r].kind = kind
      BY <3>1
    <3> QED
      BY <1>4, <2>2, <3>2
  <2> QED
    BY <2>1, <2>2
<1>5. ASSUME NEW r \in Requests, req[r].pc \in {"dedup", "update"},
             NEW pc \in {"update", "audit"}, req' = [req EXCEPT ![r].pc = pc]
      PROVE  req'[q] = req[q] \/ req'[q].kind = "burn"
  <2>1. OnlyOne(r) /\ req'[r].kind = req[r].kind /\ req[r].kind = "burn"
    BY <1>5, MoveOne DEF BurnFirst
  <2> QED
    BY <1>2, <2>1
<1>6. ASSUME NEW r \in Requests, NEW o \in Orgs, NEW a \in Amounts,
             AddUpsert(r, o, a) \/ RefundUpsert(r, o, a)
      PROVE  req'[q].pc \in {"dedup", "update"} => req'[q].kind = "burn"
  <2>1. PICK kind \in Kinds : Enter(r, "audit", kind, o, a, NoSession)
    BY <1>6 DEF AddUpsert, RefundUpsert, Kinds
  <2>2. req[r] = Idle
    BY <1>6 DEF AddUpsert, RefundUpsert, Begin
  <2> QED
    BY <1>1, <1>4, <2>1, <2>2
<1>7. ASSUME NEW r \in Requests, NEW o \in Orgs, NEW a \in Amounts,
             NEW s \in Sessions \cup {NoSession}, DailyCap(r, o, a, s)
      PROVE  req'[q].pc \in {"dedup", "update"} => req'[q].kind = "burn"
  <2>1. CASE UNCHANGED req
    BY <1>1, <2>1
  <2>2. CASE \E pc \in {"update", "dedup"} : Enter(r, pc, "burn", o, a, s)
    <3>1. req[r] = Idle
      BY <1>7 DEF DailyCap, Begin
    <3> QED
      BY <1>1, <1>4, <2>2, <3>1
  <2> QED
    BY <1>7, <2>1, <2>2 DEF DailyCap
<1>8. ASSUME NEW r \in Requests, Dedup(r) \/ DeductUpdate(r) \/ AuditInsert(r) \/ Die(r)
      PROVE  req'[q].pc \in {"dedup", "update"} => req'[q].kind = "burn"
  <2>1. CASE Return(r)
    BY <1>1, <1>3, <2>1
  <2>2. CASE ~Return(r)
    <3>1. PICK pc \in {"update", "audit"} :
             /\ req[r].pc \in {"dedup", "update"}
             /\ req' = [req EXCEPT ![r].pc = pc]
      BY <1>8, <2>2 DEF Dedup, DeductUpdate, AuditInsert, Die
    <3> QED
      BY <1>1, <1>5, <3>1
  <2> QED
    BY <2>1, <2>2
<1>9. CASE UNCHANGED req
  BY <1>1, <1>9
<1> QED
  BY <1>6, <1>7, <1>8, <1>9 DEF Next, WindowSlides, vars

LEMMA BookedMoves ==
    ASSUME TypeOK, TypeOK', NEW r \in Requests, OnlyOne(r), NEW o \in Orgs, NEW k \in Kinds
    PROVE  /\ audit[o][k] \in Int /\ audit'[o][k] \in Int
           /\ unaudited[o][k] \in Int /\ unaudited'[o][k] \in Int
           /\ AmountOf(Unwritten(o, k)) \in Int
           /\ Booked(o, k) = audit[o][k] + AmountOf(Unwritten(o, k)) + unaudited[o][k]
           /\ Booked(o, k)' = audit'[o][k] + AmountOf(Unwritten(o, k))' + unaudited'[o][k]
<1>1. /\ audit[o][k] \in Int /\ audit'[o][k] \in Int
      /\ unaudited[o][k] \in Int /\ unaudited'[o][k] \in Int
  BY DEF TypeOK, Sums
<1>2. AmountOf(Unwritten(o, k)) \in Int
  BY UnwrittenMoves
<1> QED
  BY <1>1, <1>2 DEF Booked

(* A call that changes the balance and owes its row books it.              *)
LEMMA OweBooks ==
    ASSUME TypeOK, TypeOK', NEW r \in Requests, OnlyOne(r), req[r].pc # "audit",
           req'[r].pc = "audit", req'[r].org \in Orgs, req'[r].kind \in Kinds,
           req'[r].amt \in Nat, UNCHANGED <<audit, unaudited>>,
           NEW p \in Orgs, NEW j \in Kinds, NEW a,
           req'[r].org = p, req'[r].kind = j, req'[r].amt = a
    PROVE  Adds(p, j, a)
<1> SUFFICES ASSUME NEW o \in Orgs, NEW k \in Kinds
             PROVE  Booked(o, k)' = IF o = p /\ k = j THEN Booked(o, k) + a
                                    ELSE Booked(o, k)
  BY DEF Adds
<1>1. r \notin Unwritten(o, k) /\ (r \in Unwritten(o, k)' <=> o = p /\ k = j)
  BY DEF Unwritten
<1>2. /\ Booked(o, k) = audit[o][k] + AmountOf(Unwritten(o, k)) + unaudited[o][k]
      /\ Booked(o, k)' = audit'[o][k] + AmountOf(Unwritten(o, k))' + unaudited'[o][k]
      /\ audit[o][k] \in Int /\ unaudited[o][k] \in Int
      /\ AmountOf(Unwritten(o, k)) \in Int
  BY BookedMoves
<1>3. CASE o = p /\ k = j
  <2>1. AmountOf(Unwritten(o, k))' = AmountOf(Unwritten(o, k)) + a
    BY <1>1, <1>3, UnwrittenMoves
  <2> QED
    BY <1>2, <1>3, <2>1
<1>4. CASE ~(o = p /\ k = j)
  <2>1. AmountOf(Unwritten(o, k))' = AmountOf(Unwritten(o, k))
    BY <1>1, <1>4, UnwrittenMoves
  <2> QED
    BY <1>2, <1>4, <2>1
<1> QED
  BY <1>3, <1>4

(* A step of a call that owes no row, before or after, books nothing.      *)
LEMMA CleanBooks ==
    ASSUME TypeOK, TypeOK', NEW r \in Requests, OnlyOne(r), req[r].pc # "audit",
           req'[r].pc # "audit", UNCHANGED <<audit, unaudited>>
    PROVE  AddsNothing
<1> SUFFICES ASSUME NEW o \in Orgs, NEW k \in Kinds
             PROVE  Booked(o, k)' = Booked(o, k)
  BY DEF AddsNothing
<1>1. r \notin Unwritten(o, k) /\ r \notin Unwritten(o, k)'
  BY DEF Unwritten
<1>2. AmountOf(Unwritten(o, k))' = AmountOf(Unwritten(o, k))
  BY <1>1, UnwrittenMoves
<1> QED
  BY <1>2, BookedMoves

(* A call that pays what it owes, to the log or, dying, to the debts,      *)
(* books nothing either.                                                   *)
LEMMA SettleBooks ==
    ASSUME TypeOK, TypeOK', NEW r \in Requests, OnlyOne(r), req[r].pc = "audit",
           req'[r].pc # "audit",
           \/ /\ unaudited' = unaudited
              /\ audit' = [audit EXCEPT ![req[r].org][req[r].kind] = @ + req[r].amt]
           \/ /\ audit' = audit
              /\ unaudited' = [unaudited EXCEPT ![req[r].org][req[r].kind] = @ + req[r].amt]
    PROVE  AddsNothing
<1> SUFFICES ASSUME NEW o \in Orgs, NEW k \in Kinds
             PROVE  Booked(o, k)' = Booked(o, k)
  BY DEF AddsNothing
<1>1. /\ r \in Unwritten(o, k) <=> o = req[r].org /\ k = req[r].kind
      /\ r \notin Unwritten(o, k)'
  BY DEF Unwritten
<1>2. /\ Booked(o, k) = audit[o][k] + AmountOf(Unwritten(o, k)) + unaudited[o][k]
      /\ Booked(o, k)' = audit'[o][k] + AmountOf(Unwritten(o, k))' + unaudited'[o][k]
      /\ audit[o][k] \in Int /\ unaudited[o][k] \in Int
      /\ AmountOf(Unwritten(o, k)) \in Int
  BY BookedMoves
<1>3. /\ req[r].org \in Orgs /\ req[r].kind \in Kinds /\ req[r].amt \in Nat
  BY WorkingRequest
<1>4. audit \in [Orgs -> [Kinds -> Int]] /\ unaudited \in [Orgs -> [Kinds -> Int]]
  BY DEF TypeOK, Sums
<1>5. CASE o = req[r].org /\ k = req[r].kind
  <2>1. AmountOf(Unwritten(o, k))' = AmountOf(Unwritten(o, k)) - req[r].amt
    BY <1>1, <1>5, UnwrittenMoves
  <2>2. \/ audit'[o][k] = audit[o][k] + req[r].amt /\ unaudited'[o][k] = unaudited[o][k]
        \/ unaudited'[o][k] = unaudited[o][k] + req[r].amt /\ audit'[o][k] = audit[o][k]
    BY <1>3, <1>4, <1>5
  <2> QED
    BY <1>2, <1>3, <2>1, <2>2
<1>6. CASE ~(o = req[r].org /\ k = req[r].kind)
  <2>1. AmountOf(Unwritten(o, k))' = AmountOf(Unwritten(o, k))
    BY <1>1, <1>6, UnwrittenMoves
  <2>2. audit'[o][k] = audit[o][k] /\ unaudited'[o][k] = unaudited[o][k]
    BY <1>3, <1>4, <1>6
  <2> QED
    BY <1>2, <2>1, <2>2
<1> QED
  BY <1>5, <1>6
(* The steps of the ledger, as steps of the account.                       *)
LEMMA AtomicInit == Init => ImplementedAccount!Init
<1> SUFFICES ASSUME Init
             PROVE  ImplementedAccount!Init
  OBVIOUS
<1>1. ASSUME NEW o \in Orgs, NEW k \in Kinds
      PROVE  Booked(o, k) = IF k = "purchase" THEN InitialCredit ELSE 0
  <2>1. Unwritten(o, k) = {}
    BY DEF Init, Idle, Unwritten
  <2>2. AmountOf(Unwritten(o, k)) = 0
    <3>1. AmountSum(req, {}) = 0
      BY AmountSumIs, TotalEmpty, FS_EmptySet
    <3> QED
      BY <2>1, <3>1 DEF AmountOf, AmountSum, MapThenSumSet, MapThenFoldSet
  <2>3. unaudited[o][k] = 0 /\ audit[o][k] = IF k = "purchase" THEN InitialCredit ELSE 0
    BY DEF Init, NoSums, Kinds
  <2> QED
    BY <2>2, <2>3, LedgerAssumption DEF Booked
<1>2. Books = [o \in Orgs |-> [k \in Kinds |-> IF k = "purchase" THEN InitialCredit ELSE 0]]
  BY <1>1 DEF Books
<1> QED
  BY <1>2 DEF Init, ImplementedAccount!Init, ImplementedAccount!Kinds, Books, Kinds

LEMMA AtomicNext ==
    ASSUME TypeOK, TypeOK', BurnFirst, [Next]_vars
    PROVE  [ImplementedAccount!Next]_(ImplementedAccount!vars)
<1>1. ASSUME NEW o \in Orgs, NEW a \in Amounts,
             \/ ImplementedAccount!Purchase(o, a)
             \/ ImplementedAccount!Refund(o, a)
             \/ ImplementedAccount!Burn(o, a)
      PROVE  ImplementedAccount!Next
  BY <1>1 DEF ImplementedAccount!Next
<1>2. ASSUME AddsNothing, UNCHANGED table
      PROVE  UNCHANGED ImplementedAccount!vars
  BY <1>2, BooksStay DEF ImplementedAccount!vars, Books, table
<1>3. ASSUME NEW r \in Requests, NEW o \in Orgs, NEW a \in Amounts, AddUpsert(r, o, a)
      PROVE  ImplementedAccount!Purchase(o, a)
  <2>1. /\ req[r] = Idle /\ Enter(r, "audit", "purchase", o, a, NoSession)
        /\ UNCHANGED <<audit, unaudited>>
    BY <1>3 DEF AddUpsert, Begin, log, history
  <2>2. /\ OnlyOne(r) /\ req[r].pc # "audit" /\ req'[r].pc = "audit"
        /\ req'[r].org = o /\ req'[r].kind = "purchase" /\ req'[r].amt = a
    BY <2>1, EnterOne DEF Idle
  <2>3. a \in Nat /\ "purchase" \in Kinds
    BY LargestAmount DEF Kinds
  <2>4. ImplementedAccount!Book(o, "purchase", a)
    BY <2>1, <2>2, <2>3, OweBooks, BooksAdd
  <2> QED
    BY <1>3, <2>4 DEF AddUpsert, ImplementedAccount!Purchase
<1>4. ASSUME NEW r \in Requests, NEW o \in Orgs, NEW a \in Amounts, RefundUpsert(r, o, a)
      PROVE  ImplementedAccount!Refund(o, a)
  <2>1. /\ req[r] = Idle /\ Enter(r, "audit", "refund", o, a, NoSession)
        /\ UNCHANGED <<audit, unaudited>>
    BY <1>4 DEF RefundUpsert, Begin, log, history
  <2>2. /\ OnlyOne(r) /\ req[r].pc # "audit" /\ req'[r].pc = "audit"
        /\ req'[r].org = o /\ req'[r].kind = "refund" /\ req'[r].amt = a
    BY <2>1, EnterOne DEF Idle
  <2>3. a \in Nat /\ "refund" \in Kinds
    BY LargestAmount DEF Kinds
  <2>4. ImplementedAccount!Book(o, "refund", a)
    BY <2>1, <2>2, <2>3, OweBooks, BooksAdd
  <2> QED
    BY <1>4, <2>4 DEF RefundUpsert, ImplementedAccount!Refund
<1>5. ASSUME NEW r \in Requests, NEW o \in Orgs, NEW a \in Amounts,
             NEW s \in Sessions \cup {NoSession}, DailyCap(r, o, a, s)
      PROVE  UNCHANGED ImplementedAccount!vars
  <2>1. req[r] = Idle /\ UNCHANGED <<audit, unaudited>> /\ UNCHANGED table
    BY <1>5 DEF DailyCap, Begin, log
  <2>2. req[r].pc # "audit"
    BY <2>1 DEF Idle
  <2>3. CASE UNCHANGED req
    BY <1>2, <2>1, <2>2, <2>3, CleanBooks DEF OnlyOne
  <2>4. CASE \E pc \in {"update", "dedup"} : Enter(r, pc, "burn", o, a, s)
    <3>1. PICK pc \in {"update", "dedup"} : Enter(r, pc, "burn", o, a, s)
      BY <2>4
    <3>2. OnlyOne(r) /\ req'[r].pc = pc
      BY <2>1, <3>1, EnterOne
    <3> QED
      BY <1>2, <2>1, <2>2, <3>2, CleanBooks
  <2> QED
    BY <1>5, <2>3, <2>4 DEF DailyCap
<1>6. ASSUME NEW r \in Requests, Dedup(r)
      PROVE  UNCHANGED ImplementedAccount!vars
  <2>1. req[r].pc = "dedup" /\ UNCHANGED <<audit, unaudited>> /\ UNCHANGED table
    BY <1>6 DEF Dedup, log
  <2>2. OnlyOne(r) /\ req'[r].pc # "audit"
    <3>1. CASE Return(r)
      BY <3>1, ReturnOne DEF Idle
    <3>2. CASE req' = [req EXCEPT ![r].pc = "update"]
      BY <2>1, <3>2, MoveOne
    <3> QED
      BY <1>6, <3>1, <3>2 DEF Dedup
  <2> QED
    BY <1>2, <2>1, <2>2, CleanBooks
<1>7. ASSUME NEW r \in Requests, DeductUpdate(r)
      PROVE  \/ UNCHANGED ImplementedAccount!vars
             \/ \E o \in Orgs, a \in Amounts : ImplementedAccount!Burn(o, a)
  <2>1. /\ req[r].pc = "update" /\ UNCHANGED <<audit, unaudited, purchased>>
        /\ req[r].org \in Orgs /\ req[r].amt \in Amounts /\ req[r].kind = "burn"
    BY <1>7, WorkingRequest DEF DeductUpdate, log, BurnFirst
  <2>2. CASE Return(r) /\ UNCHANGED <<balance, consumed>>
    <3>1. OnlyOne(r) /\ req'[r].pc # "audit"
      BY <2>2, ReturnOne DEF Idle
    <3> QED
      BY <1>2, <2>1, <2>2, <3>1, CleanBooks DEF table
  <2>3. CASE /\ Covers(req[r].org, req[r].amt)
             /\ balance' = [balance EXCEPT ![req[r].org] = @ - req[r].amt]
             /\ consumed' = [consumed EXCEPT ![req[r].org] = @ + req[r].amt]
             /\ req' = [req EXCEPT ![r].pc = "audit"]
    <3>1. /\ OnlyOne(r) /\ req'[r].pc = "audit" /\ req'[r].org = req[r].org
          /\ req'[r].kind = "burn" /\ req'[r].amt = req[r].amt
      <4>1. req[r].pc # "idle"
        BY <2>1
      <4> QED
        BY <2>1, <2>3, <4>1, MoveOne
    <3>2. PICK o \in Orgs, a \in Amounts : o = req[r].org /\ a = req[r].amt
      BY <2>1
    <3>3. a \in Nat /\ "burn" \in Kinds /\ req[r].pc # "audit"
      BY <2>1, LargestAmount DEF Kinds
    <3>4. Adds(o, "burn", a)
      BY <2>1, <3>1, <3>2, <3>3, OweBooks
    <3>5. ImplementedAccount!Book(o, "burn", a)
      BY <3>3, <3>4, BooksAdd
    <3>6. ImplementedAccount!Burn(o, a)
      BY <2>1, <2>3, <3>2, <3>5 DEF Covers, ImplementedAccount!Burn
    <3> QED
      BY <3>6
  <2> QED
    BY <1>7, <2>2, <2>3 DEF DeductUpdate
<1>8. ASSUME NEW r \in Requests, AuditInsert(r)
      PROVE  UNCHANGED ImplementedAccount!vars
  <2>1. /\ req[r].pc = "audit" /\ Return(r) /\ UNCHANGED table
        /\ unaudited' = unaudited
        /\ audit' = [audit EXCEPT ![req[r].org][req[r].kind] = @ + req[r].amt]
    BY <1>8 DEF AuditInsert, history
  <2>2. OnlyOne(r) /\ req'[r].pc # "audit"
    BY <2>1, ReturnOne DEF Idle
  <2> QED
    BY <1>2, <2>1, <2>2, SettleBooks
<1>9. ASSUME NEW r \in Requests, Die(r)
      PROVE  UNCHANGED ImplementedAccount!vars
  <2>1. /\ Return(r) /\ UNCHANGED table /\ audit' = audit
    BY <1>9 DEF Die, log
  <2>2. OnlyOne(r) /\ req'[r].pc # "audit"
    BY <2>1, ReturnOne DEF Idle
  <2>3. CASE req[r].pc = "audit"
    <3>1. unaudited' = [unaudited EXCEPT ![req[r].org][req[r].kind] = @ + req[r].amt]
      BY <1>9, <2>3 DEF Die
    <3> QED
      BY <1>2, <2>1, <2>2, <2>3, <3>1, SettleBooks
  <2>4. CASE req[r].pc # "audit"
    <3>1. unaudited' = unaudited
      BY <1>9, <2>4 DEF Die
    <3> QED
      BY <1>2, <2>1, <2>2, <2>4, <3>1, CleanBooks
  <2> QED
    BY <2>3, <2>4
<1>10. ASSUME UNCHANGED <<req, audit, unaudited>>, UNCHANGED table
       PROVE  UNCHANGED ImplementedAccount!vars
  <2>1. AddsNothing
    BY <1>10 DEF AddsNothing, Booked, AmountOf, Unwritten, MapThenSumSet, MapThenFoldSet
  <2> QED
    BY <1>2, <1>10, <2>1
<1>11. ASSUME NEW o \in Orgs, WindowSlides(o)
       PROVE  UNCHANGED ImplementedAccount!vars
  BY <1>10, <1>11 DEF WindowSlides, history
<1>12. CASE UNCHANGED vars
  BY <1>10, <1>12 DEF vars, log, history
<1> QED
  BY <1>1, <1>3, <1>4, <1>5, <1>6, <1>7, <1>8, <1>9, <1>11, <1>12 DEF Next

(* The ledger, whose calls are several statements each and may die between *)
(* two of them, implements the account, whose calls are atomic.            *)
THEOREM LedgerIsAtomic == Spec => AtomicLedger
<1>1. Init => BurnFirst
  BY DEF Init, BurnFirst, Idle
<1>2. QED
  BY <1>1, BurnFirstNext, AtomicInit, AtomicNext, NextType, TypeCorrect, PTL
     DEF Spec, AtomicLedger, ImplementedAccount!Spec
(* The promise of the account, as one of the ledger.                       *)
LEMMA AccountIsReconciled ==
    /\ Init => ImplementedAccount!TypeOK /\ ImplementedAccount!Reconciled
    /\ ImplementedAccount!TypeOK /\ ImplementedAccount!Reconciled
         /\ [ImplementedAccount!Next]_(ImplementedAccount!vars)
         => (ImplementedAccount!TypeOK /\ ImplementedAccount!Reconciled)'
<1> DEFINE Agree(b, p, c, B) ==
             /\ b \in [Orgs -> Nat] /\ p \in [Orgs -> Nat] /\ c \in [Orgs -> Nat]
             /\ B \in [Orgs -> [Kinds -> Nat]]
             /\ \A o \in Orgs :
                   /\ p[o] = B[o]["purchase"]
                   /\ c[o] = B[o]["burn"]
                   /\ b[o] = B[o]["purchase"] + B[o]["refund"] - B[o]["burn"]
<1>1. /\ ImplementedAccount!TypeOK /\ ImplementedAccount!Reconciled
           <=> Agree(balance, purchased, consumed, Books)
      /\ (ImplementedAccount!TypeOK /\ ImplementedAccount!Reconciled)'
           <=> Agree(balance', purchased', consumed', Books')
  BY DEF ImplementedAccount!TypeOK, ImplementedAccount!Reconciled,
         ImplementedAccount!Kinds, Kinds, Books
<1>2. Init => Agree(balance, purchased, consumed, Books)
  <2> SUFFICES ASSUME Init
               PROVE  Agree(balance, purchased, consumed, Books)
    OBVIOUS
  <2>1. /\ balance = [o \in Orgs |-> InitialCredit]
        /\ purchased = [o \in Orgs |-> InitialCredit]
        /\ consumed = [o \in Orgs |-> 0]
        /\ Books = [o \in Orgs |-> [k \in Kinds |->
                                      IF k = "purchase" THEN InitialCredit ELSE 0]]
    BY AtomicInit DEF ImplementedAccount!Init, ImplementedAccount!Kinds, Books, Kinds
  <2> QED
    BY <2>1, LedgerAssumption DEF Kinds
<1>3. ASSUME NEW o \in Orgs, NEW k \in Kinds, NEW a, ImplementedAccount!Book(o, k, a)
      PROVE  Books' = [Books EXCEPT ![o][k] = @ + a]
  BY <1>3 DEF ImplementedAccount!Book, Books
<1>4. ASSUME [ImplementedAccount!Next]_(ImplementedAccount!vars),
             Agree(balance, purchased, consumed, Books)
      PROVE  Agree(balance', purchased', consumed', Books')
  <2>1. \A a \in Amounts : a \in Nat
    BY LargestAmount
  <2>2. ASSUME NEW o \in Orgs, NEW a \in Amounts, ImplementedAccount!Purchase(o, a)
        PROVE  Agree(balance', purchased', consumed', Books')
    <3>1. /\ Books' = [Books EXCEPT ![o]["purchase"] = @ + a]
          /\ balance' = [balance EXCEPT ![o] = @ + a]
          /\ purchased' = [purchased EXCEPT ![o] = @ + a]
          /\ consumed' = consumed
      BY <1>3, <2>2 DEF ImplementedAccount!Purchase, Kinds
    <3> HIDE DEF Books
    <3> QED
      BY <1>4, <2>1, <3>1 DEF Kinds
  <2>3. ASSUME NEW o \in Orgs, NEW a \in Amounts, ImplementedAccount!Refund(o, a)
        PROVE  Agree(balance', purchased', consumed', Books')
    <3>1. /\ Books' = [Books EXCEPT ![o]["refund"] = @ + a]
          /\ balance' = [balance EXCEPT ![o] = @ + a]
          /\ purchased' = purchased /\ consumed' = consumed
      BY <1>3, <2>3 DEF ImplementedAccount!Refund, Kinds
    <3> QED
      BY <1>4, <2>1, <3>1 DEF Kinds
  <2>4. ASSUME NEW o \in Orgs, NEW a \in Amounts, ImplementedAccount!Burn(o, a)
        PROVE  Agree(balance', purchased', consumed', Books')
    <3>1. /\ Books' = [Books EXCEPT ![o]["burn"] = @ + a]
          /\ balance[o] >= a
          /\ balance' = [balance EXCEPT ![o] = @ - a]
          /\ consumed' = [consumed EXCEPT ![o] = @ + a]
          /\ purchased' = purchased
      BY <1>3, <2>4 DEF ImplementedAccount!Burn, Kinds
    <3> QED
      BY <1>4, <2>1, <3>1 DEF Kinds
  <2>5. CASE UNCHANGED ImplementedAccount!vars
    BY <1>4, <2>5 DEF ImplementedAccount!vars, Books
  <2> QED
    BY <1>4, <2>2, <2>3, <2>4, <2>5 DEF ImplementedAccount!Next
<1> QED
  BY <1>1, <1>2, <1>4

(* Whatever calls run and die, the books explain every org: what it bought *)
(* and consumed, and the balance, never a debt, that remains; where the    *)
(* books are the rows of the log with those that calls in flight still owe *)
(* it or died owing it.                                                    *)
THEOREM AlwaysReconciled ==
    Spec => [](ImplementedAccount!TypeOK /\ ImplementedAccount!Reconciled)
<1>1. Init => ImplementedAccount!TypeOK /\ ImplementedAccount!Reconciled
  BY AccountIsReconciled
<1>2. ImplementedAccount!TypeOK /\ ImplementedAccount!Reconciled
        /\ [ImplementedAccount!Next]_(ImplementedAccount!vars)
        => (ImplementedAccount!TypeOK /\ ImplementedAccount!Reconciled)'
  BY AccountIsReconciled
<1>3. Spec => Init /\ [][ImplementedAccount!Next]_(ImplementedAccount!vars)
  BY LedgerIsAtomic, PTL DEF Spec, AtomicLedger, ImplementedAccount!Spec
<1>4. QED
  BY <1>1, <1>2, <1>3, PTL

(***************************************************************************)
(* Webhooks                                                                *)
(***************************************************************************)
Stages == {"check", "record", "credit", "adding", "mark", "deduct", "deducting"}
Hooks == {NoHook} \cup [pc: Stages, ev: Events]

HookType ==
    /\ hook \in [Requests -> Hooks]
    /\ processed \subseteq PaidEvents
    /\ recorded \in [Invoices \cup VoiceCalls -> Nat]
    /\ credited \in [PaidEvents -> Nat]
    /\ slips \in [PaidEvents -> Nat]

(* Which events get to which statement, and what the ledger is doing for   *)
(* them meanwhile.                                                         *)
HookFor(r) ==
    /\ At(r, "record") => Event(r) \in Invoices \cup VoiceCalls
    /\ hook[r].pc \in {"credit", "adding", "mark"} => Event(r) \in PaidEvents
    /\ hook[r].pc \in {"deduct", "deducting"} => Event(r) \in VoiceCalls
    /\ req[r] # Idle => hook[r].pc \in {"adding", "deducting"}
    /\ At(r, "adding") => req[r].pc = "audit"
    /\ At(r, "deducting") => /\ req[r] # Idle
                             /\ req[r].org = Payer[Event(r)]
                             /\ req[r].session = Event(r)

HookInv == \A r \in Requests : HookFor(r)

WebhookInv == TypeOK /\ HookType /\ HookInv

-----------------------------------------------------------------------------
LEMMA HookFacts ==
    ASSUME HookType, NEW r \in Requests, hook[r] # NoHook
    PROVE  /\ hook[r] \in [pc: Stages, ev: Events]
           /\ hook[r].pc \in Stages /\ Event(r) \in Events /\ hook[r].pc # "idle"
<1>1. hook[r] \in [pc: Stages, ev: Events]
  BY DEF HookType, Hooks
<1> QED
  BY <1>1 DEF Stages, Event

LEMMA HookAt ==
    ASSUME HookType, NEW r \in Requests, NEW pc \in Stages, At(r, pc)
    PROVE  hook[r] # NoHook /\ Event(r) \in Events
<1>1. hook[r] # NoHook
  BY DEF At, NoHook, Stages
<1> QED
  BY <1>1, HookFacts

LEMMA GoFacts ==
    ASSUME HookType, NEW r \in Requests, NEW pc \in Stages, hook[r] # NoHook, Go(r, pc)
    PROVE  /\ hook' \in [Requests -> Hooks]
           /\ hook'[r] # NoHook /\ hook'[r].pc = pc /\ hook'[r].ev = Event(r)
           /\ \A q \in Requests : q # r => hook'[q] = hook[q]
<1> DEFINE x == [hook[r] EXCEPT !.pc = pc]
<1>1. hook[r] \in [pc: Stages, ev: Events]
  BY HookFacts
<1>2. x \in [pc: Stages, ev: Events] /\ x.pc = pc /\ x.ev = Event(r)
  BY <1>1 DEF Event
<1>3. hook' = [hook EXCEPT ![r] = x]
  BY DEF Go, HookType
<1>4. x # NoHook
  BY <1>2 DEF NoHook, Stages
<1> HIDE DEF x
<1> QED
  BY <1>2, <1>3, <1>4 DEF HookType, Hooks

LEMMA DoneFacts ==
    ASSUME HookType, NEW r \in Requests, Done(r)
    PROVE  /\ hook' \in [Requests -> Hooks]
           /\ hook'[r] = NoHook
           /\ \A q \in Requests : q # r => hook'[q] = hook[q]
  BY DEF Done, HookType, Hooks

(* A step of a handler is a step of the ledger, or none.                   *)
LEMMA LedgerDiesIs ==
    ASSUME TypeOK, NEW r \in Requests, LedgerDies(r)
    PROVE  /\ (UNCHANGED vars /\ req[r] = Idle) \/ Die(r)
           /\ UNCHANGED charges
           /\ req' = [req EXCEPT ![r] = Idle]
<1>1. CASE req[r] = Idle
  BY <1>1 DEF LedgerDies, vars, history, TypeOK
<1>2. CASE req[r] # Idle
  BY <1>2 DEF LedgerDies, Die, Return
<1> QED
  BY <1>1, <1>2

LEMMA PaidWorth ==
    ASSUME NEW e \in Events
    PROVE  Payer[e] \in Orgs /\ Worth[e] \in Amounts
  BY WebhookAssumption

LEMMA HandlerSteps ==
    ASSUME WebhookInv, [WebhookNext]_allVars
    PROVE  [Next]_vars
<1>1. CASE UNCHANGED allVars
  BY <1>1 DEF allVars
<1>2. ASSUME NEW r \in Requests, NEW e \in Events, Deliver(r, e)
      PROVE  UNCHANGED vars
  BY <1>2 DEF Deliver
<1>3. ASSUME NEW r \in Requests, Handle(r)
      PROVE  [Next]_vars
  <2>1. CASE Check(r) \/ Record(r) \/ Mark(r)
    BY <2>1 DEF Check, Record, Mark
  <2>2. CASE Credit(r)
    <3>1. Event(r) \in Events
      BY <2>2, HookAt DEF Credit, WebhookInv, Stages
    <3> QED
      BY <2>2, <3>1, PaidWorth DEF Credit, Next
  <2>3. CASE Added(r)
    BY <2>3 DEF Added, Next
  <2>4. CASE Deduct(r)
    <3>1. CASE At(r, "deduct") /\ DailyCap(r, Payer[Event(r)], Worth[Event(r)], Event(r))
      <4>1. Event(r) \in Events
        BY <3>1, HookAt DEF WebhookInv, Stages
      <4>2. Event(r) \in Sessions
        BY <3>1 DEF WebhookInv, HookInv, HookFor, At, VoiceCalls
      <4> QED
        BY <3>1, <4>1, <4>2, PaidWorth DEF Next
    <3>2. CASE Dedup(r) \/ DeductUpdate(r) \/ AuditInsert(r)
      BY <3>2 DEF Next
    <3> QED
      BY <2>4, <3>1, <3>2 DEF Deduct
  <2> QED
    BY <1>3, <2>1, <2>2, <2>3, <2>4 DEF Handle
<1>4. ASSUME NEW r \in Requests, CheckBlind(r) \/ MarkFails(r)
      PROVE  UNCHANGED vars
  BY <1>4 DEF CheckBlind, MarkFails
<1>5. ASSUME NEW r \in Requests, Throws(r) \/ Evicted(r)
      PROVE  [Next]_vars
  <2>1. UNCHANGED vars \/ Die(r)
    BY <1>5, LedgerDiesIs DEF Throws, Evicted, WebhookInv
  <2> QED
    BY <2>1 DEF Next
<1> QED
  BY <1>1, <1>2, <1>3, <1>4, <1>5 DEF WebhookNext

-----------------------------------------------------------------------------
(* A step moves one handler, with its request, from one statement to the   *)
(* next or to the end.                                                     *)
Rest == {"idle"} \cup Stages

OneMoves(r) == \A q \in Requests \ {r} : hook'[q] = hook[q] /\ req'[q] = req[q]

Moves(r, e, from, to) ==
    /\ from \in Rest /\ to \in Rest /\ e \in Events
    /\ hook[r].pc = from /\ (from # "idle" => hook[r].ev = e)
    /\ hook'[r].pc = to /\ (to # "idle" => hook'[r].ev = e)
    /\ OneMoves(r)

LEMMA HookKept ==
    ASSUME HookInv, NEW r \in Requests, OneMoves(r), HookFor(r)'
    PROVE  HookInv'
<1> SUFFICES ASSUME NEW q \in Requests, q # r PROVE HookFor(q)'
  BY DEF HookInv
<1>1. hook'[q] = hook[q] /\ req'[q] = req[q] /\ HookFor(q)
  BY DEF OneMoves, HookInv
<1> QED
  BY <1>1 DEF HookFor, At, Event

LEMMA GoMoves ==
    ASSUME HookType, NEW r \in Requests, NEW from \in Stages, NEW to \in Stages,
           At(r, from), Go(r, to), OnlyOne(r)
    PROVE  /\ hook' \in [Requests -> Hooks]
           /\ Event(r) \in Events /\ hook'[r].pc = to /\ hook'[r].ev = Event(r)
           /\ Moves(r, Event(r), from, to)
<1>1. hook[r] # NoHook /\ Event(r) \in Events
  BY HookAt
<1>2. /\ hook' \in [Requests -> Hooks]
      /\ hook'[r].pc = to /\ hook'[r].ev = Event(r)
      /\ \A q \in Requests : q # r => hook'[q] = hook[q]
  BY <1>1, GoFacts
<1> QED
  BY <1>1, <1>2 DEF Moves, OneMoves, OnlyOne, At, Event, Rest

LEMMA DoneMoves ==
    ASSUME HookType, NEW r \in Requests, hook[r] # NoHook, Done(r), OnlyOne(r)
    PROVE  /\ hook' \in [Requests -> Hooks]
           /\ hook'[r].pc = "idle"
           /\ Moves(r, Event(r), hook[r].pc, "idle")
<1>1. hook[r].pc \in Stages /\ Event(r) \in Events
  BY HookFacts
<1>2. /\ hook' \in [Requests -> Hooks]
      /\ hook'[r] = NoHook
      /\ \A q \in Requests : q # r => hook'[q] = hook[q]
  BY DoneFacts
<1>3. hook'[r].pc = "idle"
  BY <1>2 DEF NoHook
<1> QED
  BY <1>1, <1>2, <1>3 DEF Moves, OneMoves, OnlyOne, Event, Rest

LEMMA StillOne ==
    ASSUME NEW r \in Requests, UNCHANGED vars
    PROVE  OnlyOne(r) /\ req' = req /\ charges' = charges
  BY DEF vars, history, OnlyOne

(* What each step of a handler does to its statement, and that it keeps    *)
(* HookInv.                                                                *)
Kept(r) == HookType' /\ HookFor(r)'

LEMMA DeliverMoves ==
    ASSUME WebhookInv, NEW r \in Requests, NEW e \in Events, Deliver(r, e)
    PROVE  Kept(r) /\ Moves(r, e, "idle", "check")
<1>1. OnlyOne(r) /\ req' = req
  BY StillOne DEF Deliver
<1>2. hook[r].pc = "idle" /\ req[r] = Idle
  BY DEF Deliver, NoHook, WebhookInv, HookInv, HookFor
<1>3. /\ hook' \in [Requests -> Hooks]
      /\ hook'[r].pc = "check" /\ hook'[r].ev = e
      /\ \A q \in Requests : q # r => hook'[q] = hook[q]
  <2> DEFINE x == [pc |-> "check", ev |-> e]
  <2>1. x \in Hooks /\ x.pc = "check" /\ x.ev = e
    BY DEF Hooks, Stages
  <2>2. hook' = [hook EXCEPT ![r] = x]
    BY DEF Deliver
  <2> HIDE DEF x
  <2> QED
    BY <2>1, <2>2 DEF WebhookInv, HookType
<1>4. HookFor(r)'
  BY <1>1, <1>2, <1>3 DEF HookFor, At
<1>5. HookType'
  BY <1>3 DEF Deliver, WebhookInv, HookType
<1> QED
  BY <1>1, <1>2, <1>3, <1>4, <1>5 DEF Kept, Moves, OneMoves, OnlyOne, Rest, Stages

LEMMA CheckMoves ==
    ASSUME WebhookInv, NEW r \in Requests, Check(r) \/ CheckBlind(r)
    PROVE  /\ Kept(r)
           /\ \/ Check(r) /\ Moves(r, Event(r), "check", "idle")
              \/ /\ \E to \in {AfterCheck(Event(r)), "mark"} :
                       Moves(r, Event(r), "check", to)
                 /\ Check(r) => ~Known(Event(r))
<1> USE DEF Stages
<1>1. OnlyOne(r) /\ req' = req
  BY StillOne DEF Check, CheckBlind
<1>2. At(r, "check") /\ req[r] = Idle /\ hook[r] # NoHook
  BY DEF Check, CheckBlind, WebhookInv, HookInv, HookFor, At, NoHook
<1>3. CASE Done(r) /\ Check(r)
  <2>1. /\ hook' \in [Requests -> Hooks] /\ hook'[r].pc = "idle"
        /\ Moves(r, Event(r), "check", "idle")
    BY <1>1, <1>2, <1>3, DoneMoves DEF WebhookInv, At
  <2>2. HookFor(r)'
    BY <1>1, <1>2, <2>1 DEF HookFor, At
  <2> QED
    BY <1>3, <2>1, <2>2 DEF Kept, Check, WebhookInv, HookType
<1>4. CASE Go(r, AfterCheck(Event(r))) /\ (Check(r) => ~Known(Event(r)))
  <2>1. AfterCheck(Event(r)) \in {"credit", "record"}
    BY DEF AfterCheck
  <2>2. /\ hook' \in [Requests -> Hooks]
        /\ Event(r) \in Events /\ hook'[r].pc = AfterCheck(Event(r))
        /\ hook'[r].ev = Event(r)
        /\ Moves(r, Event(r), "check", AfterCheck(Event(r)))
    BY <1>1, <1>2, <1>4, <2>1, GoMoves DEF WebhookInv
  <2>3. HookFor(r)'
    BY <1>1, <1>2, <2>2 DEF HookFor, At, Event, AfterCheck, Events, PaidEvents, VoiceCalls
  <2>4. HookType'
    <3>1. slips' \in [PaidEvents -> Nat]
      BY <2>2 DEF Check, CheckBlind, Slip, WebhookInv, HookType
    <3> QED
      BY <2>2, <3>1 DEF Check, CheckBlind, WebhookInv, HookType
  <2> QED
    BY <1>4, <2>2, <2>3, <2>4 DEF Kept
<1>5. CASE Unmatched(r) /\ (Check(r) => ~Known(Event(r)))
  <2>1. Event(r) \in PaidEvents /\ Go(r, "mark")
    BY <1>5 DEF Unmatched
  <2>2. /\ hook' \in [Requests -> Hooks]
        /\ Event(r) \in Events /\ hook'[r].pc = "mark"
        /\ hook'[r].ev = Event(r)
        /\ Moves(r, Event(r), "check", "mark")
    BY <1>1, <1>2, <2>1, GoMoves DEF WebhookInv
  <2>3. HookFor(r)'
    BY <1>1, <1>2, <2>1, <2>2 DEF HookFor, At, Event
  <2>4. HookType'
    <3>1. slips' \in [PaidEvents -> Nat]
      BY <2>2 DEF Check, CheckBlind, Slip, WebhookInv, HookType
    <3> QED
      BY <2>2, <3>1 DEF Check, CheckBlind, WebhookInv, HookType
  <2> QED
    BY <1>5, <2>2, <2>3, <2>4 DEF Kept
<1> QED
  BY <1>3, <1>4, <1>5 DEF Check, CheckBlind, GoOn

LEMMA RecordMoves ==
    ASSUME WebhookInv, NEW r \in Requests, Record(r)
    PROVE  /\ Kept(r)
           /\ Event(r) \in Invoices \cup VoiceCalls
           /\ Moves(r, Event(r), "record", AfterRecord(Event(r)))
<1> USE DEF Stages
<1>1. OnlyOne(r) /\ req' = req
  BY StillOne DEF Record
<1>2. At(r, "record") /\ req[r] = Idle /\ Event(r) \in Invoices \cup VoiceCalls
  BY DEF Record, WebhookInv, HookInv, HookFor, At
<1>3. AfterRecord(Event(r)) \in {"credit", "deduct"}
  BY DEF AfterRecord
<1>4. /\ hook' \in [Requests -> Hooks]
      /\ hook'[r].pc = AfterRecord(Event(r)) /\ hook'[r].ev = Event(r)
      /\ Moves(r, Event(r), "record", AfterRecord(Event(r)))
  BY <1>1, <1>2, <1>3, GoMoves DEF Record, WebhookInv
<1>5. HookFor(r)'
  BY <1>1, <1>2, <1>4 DEF HookFor, At, Event, AfterRecord, PaidEvents, VoiceCalls
<1>6. recorded' \in [Invoices \cup VoiceCalls -> Nat]
  BY <1>2 DEF Record, WebhookInv, HookType
<1>7. HookType'
  BY <1>4, <1>6 DEF Record, WebhookInv, HookType
<1> QED
  BY <1>2, <1>4, <1>5, <1>7 DEF Kept

LEMMA CreditMoves ==
    ASSUME WebhookInv, NEW r \in Requests, Credit(r)
    PROVE  Kept(r) /\ Event(r) \in PaidEvents /\ Moves(r, Event(r), "credit", "adding")
<1> USE DEF Stages
<1>1. At(r, "credit") /\ Event(r) \in PaidEvents
  BY DEF Credit, WebhookInv, HookInv, HookFor, At
<1>2. OnlyOne(r) /\ req'[r].pc = "audit"
  BY <1>1, EnterOne DEF Credit, AddUpsert, Begin, WebhookInv
<1>3. /\ hook' \in [Requests -> Hooks]
      /\ hook'[r].pc = "adding" /\ hook'[r].ev = Event(r)
      /\ Moves(r, Event(r), "credit", "adding")
  BY <1>1, <1>2, GoMoves DEF Credit, WebhookInv
<1>4. HookFor(r)'
  BY <1>1, <1>2, <1>3 DEF HookFor, At, Event
<1>5. credited' \in [PaidEvents -> Nat]
  BY <1>1 DEF Credit, WebhookInv, HookType
<1>6. HookType'
  BY <1>3, <1>5 DEF Credit, WebhookInv, HookType
<1> QED
  BY <1>1, <1>3, <1>4, <1>6 DEF Kept

LEMMA AddedMoves ==
    ASSUME WebhookInv, NEW r \in Requests, Added(r)
    PROVE  Kept(r) /\ Event(r) \in PaidEvents /\ Moves(r, Event(r), "adding", "mark")
<1> USE DEF Stages
<1>1. At(r, "adding") /\ Event(r) \in PaidEvents
  BY DEF Added, WebhookInv, HookInv, HookFor, At
<1>2. OnlyOne(r) /\ req'[r] = Idle
  BY ReturnOne DEF Added, AuditInsert, WebhookInv
<1>3. /\ hook' \in [Requests -> Hooks]
      /\ hook'[r].pc = "mark" /\ hook'[r].ev = Event(r)
      /\ Moves(r, Event(r), "adding", "mark")
  BY <1>1, <1>2, GoMoves DEF Added, WebhookInv
<1>4. HookFor(r)'
  BY <1>1, <1>2, <1>3 DEF HookFor, At, Event
<1>5. HookType'
  BY <1>3 DEF Added, WebhookInv, HookType
<1> QED
  BY <1>1, <1>3, <1>4, <1>5 DEF Kept

LEMMA MarkMoves ==
    ASSUME WebhookInv, NEW r \in Requests, Mark(r) \/ MarkFails(r)
    PROVE  Kept(r) /\ Event(r) \in PaidEvents /\ Moves(r, Event(r), "mark", "idle")
<1>1. /\ At(r, "mark") /\ Event(r) \in PaidEvents
      /\ req[r] = Idle /\ hook[r] # NoHook
  BY DEF Mark, MarkFails, WebhookInv, HookInv, HookFor, At, NoHook
<1>2. OnlyOne(r) /\ req' = req
  BY StillOne DEF Mark, MarkFails
<1>3. /\ hook' \in [Requests -> Hooks] /\ hook'[r].pc = "idle"
      /\ Moves(r, Event(r), "mark", "idle")
  BY <1>1, <1>2, DoneMoves DEF Mark, MarkFails, WebhookInv, At
<1>4. HookFor(r)'
  BY <1>1, <1>2, <1>3 DEF HookFor, At
<1>5. slips' \in [PaidEvents -> Nat]
  BY <1>1 DEF Mark, MarkFails, Slip, WebhookInv, HookType
<1>6. processed' \subseteq PaidEvents
  BY <1>1 DEF Mark, MarkFails, WebhookInv, HookType
<1>7. HookType'
  BY <1>3, <1>5, <1>6 DEF Mark, MarkFails, WebhookInv, HookType
<1> QED
  BY <1>1, <1>3, <1>4, <1>7 DEF Kept

LEMMA EndMoves ==
    ASSUME WebhookInv, NEW r \in Requests, Throws(r) \/ Evicted(r)
    PROVE  Kept(r) /\ hook[r].pc \in Stages /\ Moves(r, Event(r), hook[r].pc, "idle")
<1>1. hook[r] # NoHook
  BY DEF Throws, Evicted
<1>2. OnlyOne(r) /\ req'[r] = Idle
  <2>1. req' = [req EXCEPT ![r] = Idle]
    BY LedgerDiesIs DEF Throws, Evicted, WebhookInv
  <2> QED
    BY <2>1 DEF OnlyOne, WebhookInv, TypeOK
<1>3. /\ hook' \in [Requests -> Hooks] /\ hook'[r].pc = "idle"
      /\ Moves(r, Event(r), hook[r].pc, "idle")
  BY <1>1, <1>2, DoneMoves DEF Throws, Evicted, WebhookInv
<1>4. HookFor(r)'
  BY <1>2, <1>3 DEF HookFor, At
<1>5. slips' \in [PaidEvents -> Nat]
  BY DEF Throws, Evicted, Slip, WebhookInv, HookType
<1>6. recorded' \in [Invoices \cup VoiceCalls -> Nat]
  <2>1. CASE At(r, "record") /\ recorded' = [recorded EXCEPT ![Event(r)] = @ + 1]
    <3>1. Event(r) \in Invoices \cup VoiceCalls
      BY <2>1 DEF WebhookInv, HookInv, HookFor
    <3> QED
      BY <2>1, <3>1 DEF WebhookInv, HookType
  <2>2. CASE UNCHANGED recorded
    BY <2>2 DEF WebhookInv, HookType
  <2> QED
    BY <2>1, <2>2 DEF Throws, Evicted
<1>7. HookType'
  BY <1>3, <1>5, <1>6 DEF Throws, Evicted, WebhookInv, HookType
<1>8. hook[r].pc \in Stages
  BY <1>1, HookFacts DEF WebhookInv
<1> QED
  BY <1>3, <1>4, <1>7, <1>8 DEF Kept

LEMMA DeductMoves ==
    ASSUME WebhookInv, NEW r \in Requests, Deduct(r)
    PROVE  /\ Kept(r)
           /\ Event(r) \in VoiceCalls
           /\ hook[r].pc \in {"deduct", "deducting"}
           /\ \/ Moves(r, Event(r), hook[r].pc, "idle")
              \/ Moves(r, Event(r), hook[r].pc, "deducting")
<1> USE DEF Stages
<1>1. /\ hook[r].pc \in {"deduct", "deducting"} /\ Event(r) \in VoiceCalls
      /\ At(r, hook[r].pc)
  BY DEF Deduct, WebhookInv, HookInv, HookFor, At
<1>2. hook[r] # NoHook /\ Event(r) \in Events /\ Event(r) \in Sessions
  BY <1>1, HookAt DEF WebhookInv, VoiceCalls
<1>3. /\ OnlyOne(r)
      /\ req'[r] # Idle => req'[r].org = Payer[Event(r)] /\ req'[r].session = Event(r)
  <2>1. CASE At(r, "deduct") /\ DailyCap(r, Payer[Event(r)], Worth[Event(r)], Event(r))
    <3>1. req[r] = Idle
      BY <2>1 DEF DailyCap, Begin
    <3>2. CASE UNCHANGED req
      BY <3>1, <3>2 DEF OnlyOne
    <3>3. CASE ~UNCHANGED req
      <4>1. PICK pc : Enter(r, pc, "burn", Payer[Event(r)], Worth[Event(r)], Event(r))
        BY <2>1, <3>3 DEF DailyCap
      <4> QED
        BY <3>1, <4>1, EnterOne DEF WebhookInv
    <3> QED
      BY <3>2, <3>3
  <2>2. CASE At(r, "deducting") /\ (Dedup(r) \/ DeductUpdate(r) \/ AuditInsert(r))
    <3>1. req[r].org = Payer[Event(r)] /\ req[r].session = Event(r) /\ req[r].pc # "idle"
      BY <2>2 DEF WebhookInv, HookInv, HookFor, Dedup, DeductUpdate, AuditInsert
    <3>2. CASE Return(r)
      BY <3>2, ReturnOne DEF WebhookInv
    <3>3. CASE ~Return(r)
      <4>1. PICK pc : req' = [req EXCEPT ![r].pc = pc]
        BY <2>2, <3>3 DEF Dedup, DeductUpdate, AuditInsert
      <4> QED
        BY <3>1, <4>1, MoveOne DEF WebhookInv
    <3> QED
      BY <3>2, <3>3
  <2> QED
    BY <2>1, <2>2 DEF Deduct
<1>4. CASE req'[r] = Idle /\ Done(r)
  <2>1. /\ hook' \in [Requests -> Hooks] /\ hook'[r].pc = "idle"
        /\ Moves(r, Event(r), hook[r].pc, "idle")
    BY <1>2, <1>3, <1>4, DoneMoves DEF WebhookInv
  <2>2. HookFor(r)'
    BY <1>4, <2>1 DEF HookFor, At
  <2> QED
    BY <1>1, <2>1, <2>2 DEF Kept, Deduct, WebhookInv, HookType
<1>5. CASE req'[r] # Idle /\ Go(r, "deducting")
  <2>1. /\ hook' \in [Requests -> Hooks]
        /\ hook'[r].pc = "deducting" /\ hook'[r].ev = Event(r)
        /\ Moves(r, Event(r), hook[r].pc, "deducting")
    BY <1>1, <1>2, <1>3, <1>5, GoMoves DEF WebhookInv
  <2>2. HookFor(r)'
    BY <1>1, <1>3, <1>5, <2>1 DEF HookFor, At, Event
  <2> QED
    BY <1>1, <2>1, <2>2 DEF Kept, Deduct, WebhookInv, HookType
<1> QED
  BY <1>4, <1>5 DEF Deduct

LEMMA WebhookInvInit == WebhookInit => WebhookInv
<1> SUFFICES ASSUME WebhookInit PROVE WebhookInv
  OBVIOUS
<1>1. TypeOK
  BY InitType DEF WebhookInit
<1>2. HookType
  BY DEF WebhookInit, HookType, Hooks
<1>3. ASSUME NEW r \in Requests PROVE HookFor(r)
  BY DEF WebhookInit, Init, HookFor, At, NoHook
<1> QED
  BY <1>1, <1>2, <1>3 DEF WebhookInv, HookInv

LEMMA KeptIs ==
    ASSUME WebhookInv, [WebhookNext]_allVars, NEW r \in Requests, NEW e, NEW from, NEW to,
           Kept(r), Moves(r, e, from, to)
    PROVE  WebhookInv'
<1>1. TypeOK'
  BY HandlerSteps, NextType DEF WebhookInv
<1>2. HookInv'
  BY HookKept DEF WebhookInv, Kept, Moves
<1> QED
  BY <1>1, <1>2 DEF WebhookInv, Kept

LEMMA WebhookInvNext == WebhookInv /\ [WebhookNext]_allVars => WebhookInv'
<1> SUFFICES ASSUME WebhookInv, [WebhookNext]_allVars PROVE WebhookInv'
  OBVIOUS
<1>1. CASE UNCHANGED allVars
  <2>1. TypeOK'
    BY HandlerSteps, NextType DEF WebhookInv
  <2>2. HookType'
    BY <1>1 DEF allVars, hookVars, WebhookInv, HookType
  <2>3. hook' = hook /\ req' = req
    BY <1>1 DEF allVars, hookVars, vars
  <2>4. HookInv'
    BY <2>3 DEF WebhookInv, HookInv, HookFor, At, Event
  <2> QED
    BY <2>1, <2>2, <2>4 DEF WebhookInv
<1>2. ASSUME NEW r \in Requests, NEW e \in Events, Deliver(r, e)
      PROVE  WebhookInv'
  BY <1>2, DeliverMoves, KeptIs
<1>3. ASSUME NEW r \in Requests, Check(r) \/ CheckBlind(r)
      PROVE  WebhookInv'
  BY <1>3, CheckMoves, KeptIs
<1>4. ASSUME NEW r \in Requests, Record(r)
      PROVE  WebhookInv'
  BY <1>4, RecordMoves, KeptIs
<1>5. ASSUME NEW r \in Requests, Credit(r)
      PROVE  WebhookInv'
  BY <1>5, CreditMoves, KeptIs
<1>6. ASSUME NEW r \in Requests, Added(r)
      PROVE  WebhookInv'
  BY <1>6, AddedMoves, KeptIs
<1>7. ASSUME NEW r \in Requests, Mark(r) \/ MarkFails(r)
      PROVE  WebhookInv'
  BY <1>7, MarkMoves, KeptIs
<1>8. ASSUME NEW r \in Requests, Deduct(r)
      PROVE  WebhookInv'
  BY <1>8, DeductMoves, KeptIs
<1>9. ASSUME NEW r \in Requests, Throws(r) \/ Evicted(r)
      PROVE  WebhookInv'
  BY <1>9, EndMoves, KeptIs
<1> QED
  BY <1>1, <1>2, <1>3, <1>4, <1>5, <1>6, <1>7, <1>8, <1>9 DEF WebhookNext, Handle

-----------------------------------------------------------------------------
(* The handlers of an event that are at one of some statements, and the    *)
(* share one handler has in their number.                                  *)
HandlersAt(e, P) == {r \in Requests : hook[r].pc \in P /\ hook[r].ev = e}
Share(r, e, P) == IF r \in HandlersAt(e, P) THEN 1 ELSE 0

(* The handlers of a call that have yet to charge it.                      *)
ToCharge(c) ==
    {r \in HandlersAt(c, {"deduct", "deducting"}) :
        hook[r].pc = "deduct" \/ req[r].pc \in {"dedup", "update"}}

(* n effects of event e, for which the handlers at B are about to have one *)
(* more and those at A have not marked theirs.  Before e is marked, the    *)
(* handlers at A explain the effects; afterwards no handler enters B.      *)
Within(n, e, B, A) ==
    IF e \in processed
    THEN n + Cardinality(HandlersAt(e, B)) <= slips[e] + Cardinality(Requests)
    ELSE n <= slips[e] + Cardinality(HandlersAt(e, A))

EffectInv ==
    /\ \A e \in PaidEvents : Within(credited[e], e, {"record", "credit"}, {"adding", "mark"})
    /\ \A i \in Invoices : Within(recorded[i], i, {"record"}, {"credit", "adding", "mark"})
    /\ \A c \in VoiceCalls :
          /\ recorded[c] + Cardinality(HandlersAt(c, {"record"})) <= Cardinality(Requests)
          /\ charges[Payer[c]][c] + Cardinality(ToCharge(c)) <= recorded[c]

LEMMA ShareMoves ==
    ASSUME NEW r \in Requests, OneMoves(r), NEW e, NEW P
    PROVE  /\ Cardinality(HandlersAt(e, P)) \in Nat
           /\ Cardinality(HandlersAt(e, P)') \in Nat
           /\ Share(r, e, P) \in {0, 1} /\ Share(r, e, P)' \in {0, 1}
           /\ Cardinality(HandlersAt(e, P)')
                = Cardinality(HandlersAt(e, P)) - Share(r, e, P) + Share(r, e, P)'
<1>1. PICK S : S = HandlersAt(e, P)
  OBVIOUS
<1>2. PICK T : T = HandlersAt(e, P)'
  OBVIOUS
<1>3. S \in SUBSET Requests /\ T \in SUBSET Requests /\ S \ {r} = T \ {r}
  BY <1>1, <1>2 DEF HandlersAt, OneMoves
<1>4. /\ Cardinality(S) \in Nat /\ Cardinality(T) \in Nat
      /\ (r \in S <=> r \in T) => T = S
      /\ r \notin S /\ r \in T => Cardinality(T) = Cardinality(S) + 1
      /\ r \in S /\ r \notin T => Cardinality(T) = Cardinality(S) - 1
  BY <1>3, OneApart, LedgerAssumption
<1>5. /\ Share(r, e, P) = IF r \in S THEN 1 ELSE 0
      /\ Share(r, e, P)' = IF r \in T THEN 1 ELSE 0
  BY <1>1, <1>2 DEF Share
<1>6. Cardinality(T) = Cardinality(S) - (IF r \in S THEN 1 ELSE 0) + (IF r \in T THEN 1 ELSE 0)
  BY <1>4
<1> QED
  BY <1>1, <1>2, <1>4, <1>5, <1>6

LEMMA ShareIs ==
    ASSUME NEW r \in Requests, NEW e, NEW from, NEW to, Moves(r, e, from, to),
           NEW f, NEW P \in SUBSET Stages
    PROVE  /\ Share(r, f, P) = IF f = e /\ from \in P THEN 1 ELSE 0
           /\ Share(r, f, P)' = IF f = e /\ to \in P THEN 1 ELSE 0
<1>1. "idle" \notin P
  BY DEF Stages
<1>2. r \in HandlersAt(f, P) <=> f = e /\ from \in P
  BY <1>1 DEF Moves, HandlersAt
<1>3. r \in HandlersAt(f, P)' <=> f = e /\ to \in P
  BY <1>1 DEF Moves, HandlersAt
<1> QED
  BY <1>2, <1>3 DEF Share

LEMMA NumbersKept ==
    \A n, m, k, l, c, c1, x \in Nat, s, s1 \in {0, 1} :
        c1 = c - s + s1 =>
            /\ n + c <= k + x /\ m - n <= l - k + s - s1 => m + c1 <= l + x
            /\ n <= k + c /\ m - n <= l - k + s1 - s => m <= l + c1
  OBVIOUS

(* A step that explains each new effect keeps Within.                      *)
LEMMA WithinKept ==
    ASSUME NEW r \in Requests, OneMoves(r), NEW e, NEW B, NEW A,
           NEW n \in Nat, NEW m \in Nat, slips[e] \in Nat, slips'[e] \in Nat,
           Within(n, e, B, A), e \in processed' <=> e \in processed,
           e \notin processed => m - n <= slips'[e] - slips[e] + Share(r, e, A)' - Share(r, e, A),
           e \in processed => m - n <= slips'[e] - slips[e] + Share(r, e, B) - Share(r, e, B)'
    PROVE  IF e \in processed'
           THEN m + Cardinality(HandlersAt(e, B)') <= slips'[e] + Cardinality(Requests)
           ELSE m <= slips'[e] + Cardinality(HandlersAt(e, A)')
<1>1. PICK a, b, a1, b1, ca, cb, ca1, cb1, k, l :
        /\ a = Share(r, e, A) /\ a1 = Share(r, e, A)'
        /\ b = Share(r, e, B) /\ b1 = Share(r, e, B)'
        /\ ca = Cardinality(HandlersAt(e, A)) /\ ca1 = Cardinality(HandlersAt(e, A)')
        /\ cb = Cardinality(HandlersAt(e, B)) /\ cb1 = Cardinality(HandlersAt(e, B)')
        /\ k = slips[e] /\ l = slips'[e]
  OBVIOUS
<1>2. /\ k \in Nat /\ l \in Nat
      /\ a \in {0, 1} /\ a1 \in {0, 1} /\ ca \in Nat /\ ca1 \in Nat /\ ca1 = ca - a + a1
      /\ b \in {0, 1} /\ b1 \in {0, 1} /\ cb \in Nat /\ cb1 \in Nat /\ cb1 = cb - b + b1
  BY <1>1, ShareMoves
<1>3. Cardinality(Requests) \in Nat
  BY LedgerAssumption, FS_CardinalityType
<1>4. CASE e \in processed
  <2>1. n + cb <= k + Cardinality(Requests) /\ m - n <= l - k + b - b1
    BY <1>1, <1>4 DEF Within
  <2>2. m + cb1 <= l + Cardinality(Requests)
    BY <1>2, <1>3, <2>1, NumbersKept
  <2> QED
    BY <1>1, <1>4, <2>2
<1>5. CASE e \notin processed
  <2>1. n <= k + ca /\ m - n <= l - k + a1 - a
    BY <1>1, <1>5 DEF Within
  <2>2. m <= l + ca1
    BY <1>2, <2>1, NumbersKept
  <2> QED
    BY <1>1, <1>5, <2>2
<1> QED
  BY <1>4, <1>5

LEMMA PaidKept ==
    ASSUME WebhookInv, WebhookInv', EffectInv, NEW r \in Requests,
           NEW e, NEW from, NEW to, Moves(r, e, from, to),
           NEW f \in PaidEvents, f \in processed' <=> f \in processed,
           f \notin processed =>
             credited'[f] - credited[f]
               <= slips'[f] - slips[f]
                  + (IF f = e /\ to \in {"adding", "mark"} THEN 1 ELSE 0)
                  - (IF f = e /\ from \in {"adding", "mark"} THEN 1 ELSE 0),
           f \in processed =>
             credited'[f] - credited[f]
               <= slips'[f] - slips[f]
                  + (IF f = e /\ from \in {"record", "credit"} THEN 1 ELSE 0)
                  - (IF f = e /\ to \in {"record", "credit"} THEN 1 ELSE 0)
    PROVE  Within(credited[f], f, {"record", "credit"}, {"adding", "mark"})'
<1> DEFINE B == {"record", "credit"}
           A == {"adding", "mark"}
<1>1. /\ credited[f] \in Nat /\ credited'[f] \in Nat /\ slips[f] \in Nat /\ slips'[f] \in Nat
      /\ Within(credited[f], f, B, A)
  BY DEF WebhookInv, HookType, EffectInv
<1>2. A \in SUBSET Stages /\ B \in SUBSET Stages
  BY DEF Stages
<1>3. /\ Share(r, f, A) = IF f = e /\ from \in A THEN 1 ELSE 0
      /\ Share(r, f, A)' = IF f = e /\ to \in A THEN 1 ELSE 0
      /\ Share(r, f, B) = IF f = e /\ from \in B THEN 1 ELSE 0
      /\ Share(r, f, B)' = IF f = e /\ to \in B THEN 1 ELSE 0
  BY <1>2, ShareIs
<1>4. OneMoves(r)
  BY DEF Moves
<1>5. /\ f \notin processed => credited'[f] - credited[f]
                                 <= slips'[f] - slips[f] + Share(r, f, A)' - Share(r, f, A)
      /\ f \in processed => credited'[f] - credited[f]
                              <= slips'[f] - slips[f] + Share(r, f, B) - Share(r, f, B)'
  BY <1>3
<1> HIDE DEF A, B
<1>6. IF f \in processed'
      THEN credited'[f] + Cardinality(HandlersAt(f, B)') <= slips'[f] + Cardinality(Requests)
      ELSE credited'[f] <= slips'[f] + Cardinality(HandlersAt(f, A)')
  BY <1>1, <1>4, <1>5, WithinKept
<1> QED
  BY <1>6 DEF Within, A, B

LEMMA InvoiceKept ==
    ASSUME WebhookInv, WebhookInv', EffectInv, NEW r \in Requests,
           NEW e, NEW from, NEW to, Moves(r, e, from, to),
           NEW f \in Invoices, f \in processed' <=> f \in processed,
           f \notin processed =>
             recorded'[f] - recorded[f]
               <= slips'[f] - slips[f]
                  + (IF f = e /\ to \in {"credit", "adding", "mark"} THEN 1 ELSE 0)
                  - (IF f = e /\ from \in {"credit", "adding", "mark"} THEN 1 ELSE 0),
           f \in processed =>
             recorded'[f] - recorded[f]
               <= slips'[f] - slips[f]
                  + (IF f = e /\ from \in {"record"} THEN 1 ELSE 0)
                  - (IF f = e /\ to \in {"record"} THEN 1 ELSE 0)
    PROVE  Within(recorded[f], f, {"record"}, {"credit", "adding", "mark"})'
<1> DEFINE B == {"record"}
           A == {"credit", "adding", "mark"}
<1>1. /\ recorded[f] \in Nat /\ recorded'[f] \in Nat /\ slips[f] \in Nat /\ slips'[f] \in Nat
      /\ Within(recorded[f], f, B, A)
  BY DEF WebhookInv, HookType, EffectInv, PaidEvents
<1>2. A \in SUBSET Stages /\ B \in SUBSET Stages
  BY DEF Stages
<1>3. /\ Share(r, f, A) = IF f = e /\ from \in A THEN 1 ELSE 0
      /\ Share(r, f, A)' = IF f = e /\ to \in A THEN 1 ELSE 0
      /\ Share(r, f, B) = IF f = e /\ from \in B THEN 1 ELSE 0
      /\ Share(r, f, B)' = IF f = e /\ to \in B THEN 1 ELSE 0
  BY <1>2, ShareIs
<1>4. OneMoves(r)
  BY DEF Moves
<1>5. /\ f \notin processed => recorded'[f] - recorded[f]
                                 <= slips'[f] - slips[f] + Share(r, f, A)' - Share(r, f, A)
      /\ f \in processed => recorded'[f] - recorded[f]
                              <= slips'[f] - slips[f] + Share(r, f, B) - Share(r, f, B)'
  BY <1>3
<1> HIDE DEF A, B
<1>6. IF f \in processed'
      THEN recorded'[f] + Cardinality(HandlersAt(f, B)') <= slips'[f] + Cardinality(Requests)
      ELSE recorded'[f] <= slips'[f] + Cardinality(HandlersAt(f, A)')
  BY <1>1, <1>4, <1>5, WithinKept
<1> QED
  BY <1>6 DEF Within, A, B

Due(r, c) == IF r \in ToCharge(c) THEN 1 ELSE 0

LEMMA DueMoves ==
    ASSUME NEW r \in Requests, OneMoves(r), NEW c
    PROVE  /\ Cardinality(ToCharge(c)) \in Nat /\ Cardinality(ToCharge(c)') \in Nat
           /\ Due(r, c) \in {0, 1} /\ Due(r, c)' \in {0, 1}
           /\ Cardinality(ToCharge(c)') = Cardinality(ToCharge(c)) - Due(r, c) + Due(r, c)'
<1>1. PICK S : S = ToCharge(c)
  OBVIOUS
<1>2. PICK T : T = ToCharge(c)'
  OBVIOUS
<1>3. S \in SUBSET Requests /\ T \in SUBSET Requests /\ S \ {r} = T \ {r}
  BY <1>1, <1>2 DEF ToCharge, HandlersAt, OneMoves
<1>4. /\ Cardinality(S) \in Nat /\ Cardinality(T) \in Nat
      /\ (r \in S <=> r \in T) => T = S
      /\ r \notin S /\ r \in T => Cardinality(T) = Cardinality(S) + 1
      /\ r \in S /\ r \notin T => Cardinality(T) = Cardinality(S) - 1
  BY <1>3, OneApart, LedgerAssumption
<1>5. /\ Due(r, c) = IF r \in S THEN 1 ELSE 0
      /\ Due(r, c)' = IF r \in T THEN 1 ELSE 0
  BY <1>1, <1>2 DEF Due
<1>6. Cardinality(T) = Cardinality(S) - (IF r \in S THEN 1 ELSE 0) + (IF r \in T THEN 1 ELSE 0)
  BY <1>4
<1> QED
  BY <1>1, <1>2, <1>4, <1>5, <1>6

LEMMA DueIs ==
    ASSUME NEW r \in Requests, NEW e, NEW from, NEW to, Moves(r, e, from, to), NEW c
    PROVE  /\ from # "deducting" => Due(r, c) = IF c = e /\ from = "deduct" THEN 1 ELSE 0
           /\ to # "deducting" => Due(r, c)' = IF c = e /\ to = "deduct" THEN 1 ELSE 0
<1>1. from # "deducting" => (r \in ToCharge(c) <=> c = e /\ from = "deduct")
  BY DEF Moves, ToCharge, HandlersAt
<1>2. to # "deducting" => (r \in ToCharge(c)' <=> c = e /\ to = "deduct")
  BY DEF Moves, ToCharge, HandlersAt
<1> QED
  BY <1>1, <1>2 DEF Due

ChargesOf(c) == charges[Payer[c]][c]

(* The two bounds on a call.                                               *)
CallBound(c) ==
    /\ recorded[c] + Cardinality(HandlersAt(c, {"record"})) <= Cardinality(Requests)
    /\ ChargesOf(c) + Cardinality(ToCharge(c)) <= recorded[c]

LEMMA CallKept ==
    ASSUME WebhookInv, WebhookInv', EffectInv, NEW r \in Requests,
           NEW e, NEW from, NEW to, Moves(r, e, from, to), NEW c \in VoiceCalls,
           \/ recorded'[c] = 0
           \/ recorded'[c] - recorded[c]
                <= (IF c = e /\ from = "record" THEN 1 ELSE 0)
                   - (IF c = e /\ to = "record" THEN 1 ELSE 0),
           ChargesOf(c)' - ChargesOf(c) <= recorded'[c] - recorded[c] + Due(r, c) - Due(r, c)'
    PROVE  CallBound(c)'
<1> DEFINE P == {"record"}
<1>1. recorded[c] \in Nat /\ recorded'[c] \in Nat
  BY DEF WebhookInv, HookType
<1>2. ChargesOf(c) \in Nat /\ ChargesOf(c)' \in Nat
  BY WebhookAssumption DEF WebhookInv, TypeOK, ChargesOf, VoiceCalls, Events
<1>3. CallBound(c)
  BY DEF EffectInv, CallBound, ChargesOf
<1>4. OneMoves(r)
  BY DEF Moves
<1>5. /\ Share(r, c, P) = IF c = e /\ from = "record" THEN 1 ELSE 0
      /\ Share(r, c, P)' = IF c = e /\ to = "record" THEN 1 ELSE 0
  <2>1. P \in SUBSET Stages
    BY DEF Stages
  <2> QED
    BY <2>1, ShareIs
<1> HIDE DEF P
<1>6. PICK s, s1, n, n1, d, d1, m, m1, k, k1, h, h1 :
        /\ s = Share(r, c, P) /\ s1 = Share(r, c, P)'
        /\ n = Cardinality(HandlersAt(c, P)) /\ n1 = Cardinality(HandlersAt(c, P)')
        /\ d = Due(r, c) /\ d1 = Due(r, c)'
        /\ m = Cardinality(ToCharge(c)) /\ m1 = Cardinality(ToCharge(c)')
        /\ k = recorded[c] /\ k1 = recorded'[c]
        /\ h = ChargesOf(c) /\ h1 = ChargesOf(c)'
  OBVIOUS
<1>7. /\ s \in {0, 1} /\ s1 \in {0, 1} /\ n \in Nat /\ n1 \in Nat /\ n1 = n - s + s1
      /\ d \in {0, 1} /\ d1 \in {0, 1} /\ m \in Nat /\ m1 \in Nat /\ m1 = m - d + d1
      /\ k \in Nat /\ k1 \in Nat /\ h \in Nat /\ h1 \in Nat
  BY <1>1, <1>2, <1>4, <1>6, ShareMoves, DueMoves
<1>8. n1 <= Cardinality(Requests) /\ Cardinality(Requests) \in Nat
  <2>1. HandlersAt(c, P)' \subseteq Requests
    BY DEF HandlersAt
  <2> QED
    BY <1>6, <2>1, LedgerAssumption, FS_Subset, FS_CardinalityType
<1>9. n + k <= Cardinality(Requests) /\ h + m <= k
  BY <1>3, <1>6, <1>7, <1>8 DEF CallBound, P
<1>10. /\ k1 = 0 \/ k1 - k <= s - s1
       /\ h1 - h <= k1 - k + d - d1
  BY <1>5, <1>6
<1>11. k1 + n1 <= Cardinality(Requests) /\ h1 + m1 <= k1
  BY <1>7, <1>8, <1>9, <1>10
<1> QED
  BY <1>6, <1>11 DEF CallBound, P

(* What an event's handler may do between two statements without changing  *)
(* a count or leaving one unexplained.                                     *)
LEMMA QuietMove ==
    ASSUME WebhookInv, WebhookInv', EffectInv, NEW r \in Requests,
           NEW e, NEW from, NEW to, Moves(r, e, from, to),
           UNCHANGED <<processed, recorded, credited>>, charges' = charges,
           \A f \in PaidEvents : slips'[f] >= slips[f],
           e \in PaidEvents /\ from \in {"credit", "adding", "mark"}
             => \/ to \in {"adding", "mark"} /\ from # "credit"
                \/ slips'[e] > slips[e],
           e \in PaidEvents /\ to \in {"record", "credit"}
             => \/ e \notin processed /\ from \notin {"credit", "adding", "mark"}
                \/ slips'[e] > slips[e],
           e \in VoiceCalls /\ to = "record" => recorded[e] = 0,
           \A c \in VoiceCalls : Due(r, c)' <= Due(r, c)
    PROVE  EffectInv'
<1>1. ASSUME NEW f \in PaidEvents
      PROVE  /\ credited[f] \in Nat /\ slips[f] \in Nat /\ slips'[f] \in Nat
             /\ f \in Invoices => recorded[f] \in Nat
  BY DEF WebhookInv, HookType
<1>2. ASSUME NEW f \in PaidEvents
      PROVE  Within(credited[f], f, {"record", "credit"}, {"adding", "mark"})'
  <2>1. /\ credited'[f] = credited[f]
        /\ f \in processed' <=> f \in processed
        /\ slips'[f] >= slips[f]
    OBVIOUS
  <2>2. credited'[f] - credited[f]
             <= slips'[f] - slips[f]
                + (IF f = e /\ to \in {"adding", "mark"} THEN 1 ELSE 0)
                - (IF f = e /\ from \in {"adding", "mark"} THEN 1 ELSE 0)
    BY <1>1, <2>1
  <2>3. f \in processed =>
             credited'[f] - credited[f]
               <= slips'[f] - slips[f]
                  + (IF f = e /\ from \in {"record", "credit"} THEN 1 ELSE 0)
                  - (IF f = e /\ to \in {"record", "credit"} THEN 1 ELSE 0)
    BY <1>1, <2>1
  <2> QED
    BY <2>1, <2>2, <2>3, PaidKept
<1>3. ASSUME NEW f \in Invoices
      PROVE  Within(recorded[f], f, {"record"}, {"credit", "adding", "mark"})'
  <2>1. /\ recorded'[f] = recorded[f]
        /\ f \in PaidEvents
        /\ f \in processed' <=> f \in processed
        /\ slips'[f] >= slips[f]
    BY DEF PaidEvents
  <2>2. recorded'[f] - recorded[f]
             <= slips'[f] - slips[f]
                + (IF f = e /\ to \in {"credit", "adding", "mark"} THEN 1 ELSE 0)
                - (IF f = e /\ from \in {"credit", "adding", "mark"} THEN 1 ELSE 0)
    BY <1>1, <2>1
  <2>3. f \in processed =>
             recorded'[f] - recorded[f]
               <= slips'[f] - slips[f]
                  + (IF f = e /\ from \in {"record"} THEN 1 ELSE 0)
                  - (IF f = e /\ to \in {"record"} THEN 1 ELSE 0)
    BY <1>1, <2>1
  <2> QED
    BY <2>1, <2>2, <2>3, InvoiceKept
<1>4. ASSUME NEW c \in VoiceCalls
      PROVE  CallBound(c)'
  <2>1. /\ recorded'[c] = recorded[c] /\ recorded[c] \in Nat
        /\ ChargesOf(c)' = ChargesOf(c) /\ ChargesOf(c) \in Nat
    BY WebhookAssumption DEF WebhookInv, HookType, TypeOK, ChargesOf, VoiceCalls, Events
  <2>2. \/ recorded'[c] = 0
        \/ recorded'[c] - recorded[c]
                <= (IF c = e /\ from = "record" THEN 1 ELSE 0)
                   - (IF c = e /\ to = "record" THEN 1 ELSE 0)
    BY <2>1
  <2>3. Due(r, c) \in {0, 1} /\ Due(r, c)' \in {0, 1}
    BY DueMoves DEF Moves
  <2>4. ChargesOf(c)' - ChargesOf(c) <= recorded'[c] - recorded[c] + Due(r, c) - Due(r, c)'
    BY <2>1, <2>3
  <2> QED
    BY <2>2, <2>4, CallKept
<1> QED
  BY <1>2, <1>3, <1>4 DEF EffectInv, CallBound, ChargesOf

(* A billing record is written, by a handler that goes on or by one that   *)
(* fails all the same.                                                     *)
LEMMA RecordedMove ==
    ASSUME WebhookInv, WebhookInv', EffectInv, NEW r \in Requests,
           NEW e \in Invoices \cup VoiceCalls, NEW to, Moves(r, e, "record", to),
           recorded' = [recorded EXCEPT ![e] = @ + 1],
           processed' = processed, credited' = credited, charges' = charges,
           \A f \in PaidEvents : slips'[f] >= slips[f],
           to \in {"credit", "deduct", "idle"},
           e \in Invoices => to = "credit" \/ slips'[e] > slips[e],
           to = "credit" => e \in Invoices
    PROVE  EffectInv'
<1>1. ASSUME NEW f \in PaidEvents
      PROVE  credited[f] \in Nat /\ slips[f] \in Nat /\ slips'[f] \in Nat
  BY DEF WebhookInv, HookType
<1>2. ASSUME NEW f \in Invoices \cup VoiceCalls
      PROVE  recorded[f] \in Nat /\ recorded'[f] = recorded[f] + (IF f = e THEN 1 ELSE 0)
  BY DEF WebhookInv, HookType
<1>3. ASSUME NEW f \in PaidEvents
      PROVE  Within(credited[f], f, {"record", "credit"}, {"adding", "mark"})'
  <2>1. /\ credited'[f] = credited[f]
        /\ f \in processed' <=> f \in processed
        /\ slips'[f] >= slips[f]
    OBVIOUS
  <2>2. credited'[f] - credited[f]
             <= slips'[f] - slips[f]
                + (IF f = e /\ to \in {"adding", "mark"} THEN 1 ELSE 0)
                - (IF f = e /\ "record" \in {"adding", "mark"} THEN 1 ELSE 0)
    BY <1>1, <2>1
  <2>3. f \in processed =>
             credited'[f] - credited[f]
               <= slips'[f] - slips[f]
                  + (IF f = e /\ "record" \in {"record", "credit"} THEN 1 ELSE 0)
                  - (IF f = e /\ to \in {"record", "credit"} THEN 1 ELSE 0)
    BY <1>1, <2>1
  <2> QED
    BY <2>1, <2>2, <2>3, PaidKept
<1>4. ASSUME NEW f \in Invoices
      PROVE  Within(recorded[f], f, {"record"}, {"credit", "adding", "mark"})'
  <2>1. /\ f \in PaidEvents
        /\ recorded[f] \in Nat /\ recorded'[f] = recorded[f] + (IF f = e THEN 1 ELSE 0)
        /\ f \in processed' <=> f \in processed
        /\ slips'[f] >= slips[f]
    BY <1>2 DEF PaidEvents
  <2>2. recorded'[f] - recorded[f]
             <= slips'[f] - slips[f]
                + (IF f = e /\ to \in {"credit", "adding", "mark"} THEN 1 ELSE 0)
                - (IF f = e /\ "record" \in {"credit", "adding", "mark"} THEN 1 ELSE 0)
    BY <1>1, <2>1
  <2>3. f \in processed =>
             recorded'[f] - recorded[f]
               <= slips'[f] - slips[f]
                  + (IF f = e /\ "record" \in {"record"} THEN 1 ELSE 0)
                  - (IF f = e /\ to \in {"record"} THEN 1 ELSE 0)
    BY <1>1, <2>1
  <2> QED
    BY <2>1, <2>2, <2>3, InvoiceKept
<1>5. ASSUME NEW c \in VoiceCalls
      PROVE  CallBound(c)'
  <2>1. /\ recorded[c] \in Nat /\ recorded'[c] = recorded[c] + (IF c = e THEN 1 ELSE 0)
        /\ ChargesOf(c)' = ChargesOf(c) /\ ChargesOf(c) \in Nat
    BY <1>2, WebhookAssumption DEF WebhookInv, TypeOK, ChargesOf, VoiceCalls, Events
  <2>2. recorded'[c] - recorded[c]
                <= (IF c = e /\ "record" = "record" THEN 1 ELSE 0)
                   - (IF c = e /\ to = "record" THEN 1 ELSE 0)
    BY <2>1
  <2>3. Due(r, c) = 0 /\ Due(r, c)' = IF c = e /\ to = "deduct" THEN 1 ELSE 0
    BY DueIs
  <2>4. ChargesOf(c)' - ChargesOf(c) <= recorded'[c] - recorded[c] + Due(r, c) - Due(r, c)'
    BY <2>1, <2>3
  <2> QED
    BY <2>2, <2>4, CallKept
<1> QED
  BY <1>3, <1>4, <1>5 DEF EffectInv, CallBound, ChargesOf

LEMMA CreditedMove ==
    ASSUME WebhookInv, WebhookInv', EffectInv, NEW r \in Requests,
           NEW e \in PaidEvents, Moves(r, e, "credit", "adding"),
           credited' = [credited EXCEPT ![e] = @ + 1],
           UNCHANGED <<processed, recorded, slips>>, charges' = charges
    PROVE  EffectInv'
<1>1. ASSUME NEW f \in PaidEvents
      PROVE  Within(credited[f], f, {"record", "credit"}, {"adding", "mark"})'
  <2>1. /\ credited[f] \in Nat /\ slips[f] \in Nat /\ slips'[f] = slips[f]
        /\ credited'[f] = credited[f] + (IF f = e THEN 1 ELSE 0)
        /\ f \in processed' <=> f \in processed
    BY DEF WebhookInv, HookType
  <2>2. credited'[f] - credited[f]
             <= slips'[f] - slips[f]
                + (IF f = e /\ "adding" \in {"adding", "mark"} THEN 1 ELSE 0)
                - (IF f = e /\ "credit" \in {"adding", "mark"} THEN 1 ELSE 0)
    BY <2>1
  <2>3. f \in processed =>
             credited'[f] - credited[f]
               <= slips'[f] - slips[f]
                  + (IF f = e /\ "credit" \in {"record", "credit"} THEN 1 ELSE 0)
                  - (IF f = e /\ "adding" \in {"record", "credit"} THEN 1 ELSE 0)
    BY <2>1
  <2> QED
    BY <2>1, <2>2, <2>3, PaidKept
<1>2. ASSUME NEW f \in Invoices
      PROVE  Within(recorded[f], f, {"record"}, {"credit", "adding", "mark"})'
  <2>1. /\ recorded[f] \in Nat /\ recorded'[f] = recorded[f]
        /\ slips[f] \in Nat /\ slips'[f] = slips[f]
        /\ f \in processed' <=> f \in processed
    BY DEF WebhookInv, HookType, PaidEvents
  <2>2. recorded'[f] - recorded[f]
             <= slips'[f] - slips[f]
                + (IF f = e /\ "adding" \in {"credit", "adding", "mark"} THEN 1 ELSE 0)
                - (IF f = e /\ "credit" \in {"credit", "adding", "mark"} THEN 1 ELSE 0)
    BY <2>1
  <2>3. f \in processed =>
             recorded'[f] - recorded[f]
               <= slips'[f] - slips[f]
                  + (IF f = e /\ "credit" \in {"record"} THEN 1 ELSE 0)
                  - (IF f = e /\ "adding" \in {"record"} THEN 1 ELSE 0)
    BY <2>1
  <2> QED
    BY <2>1, <2>2, <2>3, InvoiceKept
<1>3. ASSUME NEW c \in VoiceCalls
      PROVE  CallBound(c)'
  <2>1. /\ recorded[c] \in Nat /\ recorded'[c] = recorded[c]
        /\ ChargesOf(c)' = ChargesOf(c) /\ ChargesOf(c) \in Nat
    BY WebhookAssumption DEF WebhookInv, HookType, TypeOK, ChargesOf, VoiceCalls, Events
  <2>2. recorded'[c] - recorded[c]
                <= (IF c = e /\ "credit" = "record" THEN 1 ELSE 0)
                   - (IF c = e /\ "adding" = "record" THEN 1 ELSE 0)
    BY <2>1
  <2>3. Due(r, c) = 0 /\ Due(r, c)' = 0
    BY DueIs
  <2>4. ChargesOf(c)' - ChargesOf(c) <= recorded'[c] - recorded[c] + Due(r, c) - Due(r, c)'
    BY <2>1, <2>3
  <2> QED
    BY <2>2, <2>4, CallKept
<1> QED
  BY <1>1, <1>2, <1>3 DEF EffectInv, CallBound, ChargesOf

(* Two disjoint groups of handlers are no more than the handlers.          *)
LEMMA TwoGroups ==
    ASSUME NEW e, NEW A, NEW B, A \cap B = {}
    PROVE  Cardinality(HandlersAt(e, A)) + Cardinality(HandlersAt(e, B)) <= Cardinality(Requests)
<1>1. PICK S : S = HandlersAt(e, A)
  OBVIOUS
<1>2. PICK T : T = HandlersAt(e, B)
  OBVIOUS
<1>3. S \subseteq Requests /\ T \subseteq Requests /\ S \cap T = {}
  BY <1>1, <1>2 DEF HandlersAt
<1>4. IsFiniteSet(S) /\ IsFiniteSet(T)
  BY <1>3, FS_Subset, LedgerAssumption
<1>5. /\ Cardinality(S) \in Nat /\ Cardinality(T) \in Nat
      /\ Cardinality(S \cup T) = Cardinality(S) + Cardinality(T)
  <2>1. Cardinality(S \cup T) = Cardinality(S) + Cardinality(T) - Cardinality(S \cap T)
    BY <1>4, FS_Union
  <2>2. Cardinality(S \cap T) = 0
    BY <1>3, FS_EmptySet
  <2>3. Cardinality(S) \in Nat /\ Cardinality(T) \in Nat
    BY <1>4, FS_CardinalityType
  <2> QED
    BY <2>1, <2>2, <2>3
<1>6. Cardinality(S \cup T) <= Cardinality(Requests)
  BY <1>3, FS_Subset, LedgerAssumption
<1> QED
  BY <1>1, <1>2, <1>5, <1>6

LEMMA MarkedWithin ==
    ASSUME NEW r \in Requests, NEW e \in PaidEvents, Moves(r, e, "mark", "idle"),
           NEW A \in SUBSET Stages, NEW B \in SUBSET Stages, A \cap B = {}, "mark" \in A,
           NEW n \in Nat, slips[e] \in Nat, Within(n, e, B, A), e \notin processed
    PROVE  n + Cardinality(HandlersAt(e, B)') <= slips[e] + Cardinality(Requests)
<1>1. Share(r, e, B) = 0 /\ Share(r, e, B)' = 0
  <2>1. "mark" \notin B /\ "idle" \notin B
    BY DEF Stages
  <2> QED
    BY <2>1, ShareIs
<1>2. /\ Cardinality(HandlersAt(e, B)) \in Nat
      /\ Cardinality(HandlersAt(e, B)') = Cardinality(HandlersAt(e, B))
      /\ Cardinality(HandlersAt(e, A)) \in Nat
  <2>1. OneMoves(r)
    BY DEF Moves
  <2>2. /\ Cardinality(HandlersAt(e, B)) \in Nat
        /\ Cardinality(HandlersAt(e, B)')
             = Cardinality(HandlersAt(e, B)) - Share(r, e, B) + Share(r, e, B)'
        /\ Cardinality(HandlersAt(e, A)) \in Nat
    BY <2>1, ShareMoves
  <2> QED
    BY <1>1, <2>2
<1>3. Cardinality(HandlersAt(e, A)) + Cardinality(HandlersAt(e, B)) <= Cardinality(Requests)
  BY TwoGroups
<1>4. Cardinality(Requests) \in Nat
  BY LedgerAssumption, FS_CardinalityType
<1>5. n <= slips[e] + Cardinality(HandlersAt(e, A))
  BY DEF Within
<1> QED
  BY <1>2, <1>3, <1>4, <1>5

LEMMA MarkedMove ==
    ASSUME WebhookInv, WebhookInv', EffectInv, NEW r \in Requests,
           NEW e \in PaidEvents, Moves(r, e, "mark", "idle"),
           processed' = processed \cup {e},
           UNCHANGED <<recorded, credited, slips>>, charges' = charges
    PROVE  EffectInv'
<1>1. ASSUME NEW f \in PaidEvents
      PROVE  Within(credited[f], f, {"record", "credit"}, {"adding", "mark"})'
  <2>1. /\ credited[f] \in Nat /\ slips[f] \in Nat /\ slips'[f] = slips[f]
        /\ credited'[f] = credited[f]
        /\ Within(credited[f], f, {"record", "credit"}, {"adding", "mark"})
    BY DEF WebhookInv, HookType, EffectInv
  <2>2. CASE f = e /\ e \notin processed
    <3>1. credited[e] + Cardinality(HandlersAt(e, {"record", "credit"})')
            <= slips[e] + Cardinality(Requests)
      <4> DEFINE A == {"adding", "mark"}
                 B == {"record", "credit"}
      <4>1. A \in SUBSET Stages /\ B \in SUBSET Stages /\ A \cap B = {} /\ "mark" \in A
        BY DEF Stages
      <4>2. Within(credited[e], e, B, A) /\ credited[e] \in Nat /\ slips[e] \in Nat
        BY <2>1, <2>2
      <4> HIDE DEF A, B
      <4>3. credited[e] + Cardinality(HandlersAt(e, B)') <= slips[e] + Cardinality(Requests)
        BY <2>2, <4>1, <4>2, MarkedWithin
      <4> QED
        BY <4>3 DEF B
    <3> QED
      BY <2>1, <2>2, <3>1 DEF Within
  <2>3. CASE f # e \/ e \in processed
    <3>1. f \in processed' <=> f \in processed
      BY <2>3
    <3>2. f \notin processed =>
            credited'[f] - credited[f]
              <= slips'[f] - slips[f]
                 + (IF f = e /\ "idle" \in {"adding", "mark"} THEN 1 ELSE 0)
                 - (IF f = e /\ "mark" \in {"adding", "mark"} THEN 1 ELSE 0)
      BY <2>1, <2>3
    <3>3. f \in processed =>
            credited'[f] - credited[f]
              <= slips'[f] - slips[f]
                 + (IF f = e /\ "mark" \in {"record", "credit"} THEN 1 ELSE 0)
                 - (IF f = e /\ "idle" \in {"record", "credit"} THEN 1 ELSE 0)
      BY <2>1
    <3> QED
      BY <3>1, <3>2, <3>3, PaidKept
  <2> QED
    BY <2>2, <2>3
<1>2. ASSUME NEW f \in Invoices
      PROVE  Within(recorded[f], f, {"record"}, {"credit", "adding", "mark"})'
  <2>1. /\ recorded[f] \in Nat /\ slips[f] \in Nat /\ slips'[f] = slips[f]
        /\ recorded'[f] = recorded[f]
        /\ Within(recorded[f], f, {"record"}, {"credit", "adding", "mark"})
    BY DEF WebhookInv, HookType, EffectInv, PaidEvents
  <2>2. CASE f = e /\ e \notin processed
    <3>1. recorded[e] + Cardinality(HandlersAt(e, {"record"})')
            <= slips[e] + Cardinality(Requests)
      <4> DEFINE A == {"credit", "adding", "mark"}
                 B == {"record"}
      <4>1. A \in SUBSET Stages /\ B \in SUBSET Stages /\ A \cap B = {} /\ "mark" \in A
        BY DEF Stages
      <4>2. Within(recorded[e], e, B, A) /\ recorded[e] \in Nat /\ slips[e] \in Nat
        BY <2>1, <2>2
      <4> HIDE DEF A, B
      <4>3. recorded[e] + Cardinality(HandlersAt(e, B)') <= slips[e] + Cardinality(Requests)
        BY <2>2, <4>1, <4>2, MarkedWithin
      <4> QED
        BY <4>3 DEF B
    <3> QED
      BY <2>1, <2>2, <3>1 DEF Within
  <2>3. CASE f # e \/ e \in processed
    <3>1. f \in processed' <=> f \in processed
      BY <2>3
    <3>2. f \notin processed =>
            recorded'[f] - recorded[f]
              <= slips'[f] - slips[f]
                 + (IF f = e /\ "idle" \in {"credit", "adding", "mark"} THEN 1 ELSE 0)
                 - (IF f = e /\ "mark" \in {"credit", "adding", "mark"} THEN 1 ELSE 0)
      BY <2>1, <2>3
    <3>3. f \in processed =>
            recorded'[f] - recorded[f]
              <= slips'[f] - slips[f]
                 + (IF f = e /\ "mark" \in {"record"} THEN 1 ELSE 0)
                 - (IF f = e /\ "idle" \in {"record"} THEN 1 ELSE 0)
      BY <2>1
    <3> QED
      BY <3>1, <3>2, <3>3, InvoiceKept
  <2> QED
    BY <2>2, <2>3
<1>3. ASSUME NEW c \in VoiceCalls
      PROVE  CallBound(c)'
  <2>1. /\ recorded[c] \in Nat /\ recorded'[c] = recorded[c]
        /\ ChargesOf(c)' = ChargesOf(c) /\ ChargesOf(c) \in Nat
    BY WebhookAssumption DEF WebhookInv, HookType, TypeOK, ChargesOf, VoiceCalls, Events
  <2>2. recorded'[c] - recorded[c]
                <= (IF c = e /\ "mark" = "record" THEN 1 ELSE 0)
                   - (IF c = e /\ "idle" = "record" THEN 1 ELSE 0)
    BY <2>1
  <2>3. Due(r, c) = 0 /\ Due(r, c)' = 0
    BY DueIs
  <2>4. ChargesOf(c)' - ChargesOf(c) <= recorded'[c] - recorded[c] + Due(r, c) - Due(r, c)'
    BY <2>1, <2>3
  <2> QED
    BY <2>2, <2>4, CallKept
<1> QED
  BY <1>1, <1>2, <1>3 DEF EffectInv, CallBound, ChargesOf

(* A deduction takes its handler out of those that have yet to charge.     *)
LEMMA DeductDue ==
    ASSUME WebhookInv, NEW r \in Requests, Deduct(r), NEW c \in VoiceCalls
    PROVE  ChargesOf(c)' - ChargesOf(c) <= Due(r, c) - Due(r, c)'
<1>1. PICK e : e = Event(r)
  OBVIOUS
<1>2. PICK from, to : /\ Moves(r, e, from, to)
                      /\ from \in {"deduct", "deducting"} /\ to \in {"idle", "deducting"}
                      /\ e \in VoiceCalls
  BY <1>1, DeductMoves
<1>3. /\ ChargesOf(c) \in Nat /\ Payer[c] \in Orgs /\ c \in Sessions
      /\ e \in Sessions /\ e # NoSession /\ Payer[e] \in Orgs
  BY <1>2, WebhookAssumption, LedgerAssumption
     DEF WebhookInv, TypeOK, ChargesOf, VoiceCalls, Events
<1>4. /\ Due(r, c) \in {0, 1} /\ Due(r, c)' \in {0, 1}
      /\ c # e => Due(r, c) = 0 /\ Due(r, c)' = 0
  <2>1. Due(r, c) \in {0, 1} /\ Due(r, c)' \in {0, 1}
    BY DEF Due
  <2>2. ASSUME c # e PROVE r \notin ToCharge(c) /\ r \notin ToCharge(c)'
    BY <1>2, <2>2 DEF Moves, ToCharge, HandlersAt
  <2> QED
    BY <2>1, <2>2 DEF Due
<1>5. CASE At(r, "deduct") /\ DailyCap(r, Payer[e], Worth[e], e)
  <2>1. ChargesOf(c)' = ChargesOf(c)
    BY <1>5 DEF DailyCap, ChargesOf
  <2>2. from = "deduct"
    BY <1>2, <1>5 DEF Moves, At
  <2>3. c = e => Due(r, c) = 1
    BY <1>2, <2>2, DueIs
  <2> QED
    BY <1>3, <1>4, <2>1, <2>3
<1>6. CASE At(r, "deducting") /\ (Dedup(r) \/ DeductUpdate(r) \/ AuditInsert(r))
  <2>1. /\ req[r].org = Payer[e] /\ req[r].session = e /\ req[r].pc # "idle"
        /\ from = "deducting"
    BY <1>1, <1>2, <1>6
       DEF WebhookInv, HookInv, HookFor, Dedup, DeductUpdate, AuditInsert, Moves, At
  <2>2. req[r].pc \in {"dedup", "update"} => (c = e => Due(r, c) = 1)
    BY <1>2, <2>1 DEF Moves, ToCharge, HandlersAt, Due
  <2>3. CASE Dedup(r) \/ (DeductUpdate(r) /\ charges' = charges)
    <3>1. ChargesOf(c)' = ChargesOf(c) /\ req[r].pc \in {"dedup", "update"}
      BY <2>3 DEF Dedup, DeductUpdate, ChargesOf
    <3> QED
      BY <1>3, <1>4, <2>2, <3>1
  <2>4. CASE DeductUpdate(r) /\ charges' # charges
    <3>1. /\ req' = [req EXCEPT ![r].pc = "audit"]
          /\ charges' = [charges EXCEPT ![Payer[e]][e] = @ + 1]
          /\ req[r].pc = "update"
      BY <1>3, <2>1, <2>4 DEF DeductUpdate
    <3>2. req'[r].pc = "audit"
      <4>1. req[r] \in Working /\ req \in [Requests -> {Idle} \cup Working]
        BY <2>1, WorkingRequest DEF WebhookInv, TypeOK
      <4>2. req'[r] = [req[r] EXCEPT !.pc = "audit"]
        BY <3>1, <4>1
      <4> QED
        BY <4>1, <4>2 DEF Working
    <3>3. hook'[r].pc \in {"idle", "deducting"}
      BY <1>2 DEF Moves
    <3>4. Due(r, c)' = 0
      <4>1. r \notin ToCharge(c)'
        BY <3>2, <3>3 DEF ToCharge, HandlersAt
      <4> QED
        BY <4>1 DEF Due
    <3>5. charges \in [Orgs -> [Sessions -> Nat]]
      BY DEF WebhookInv, TypeOK
    <3>6. ChargesOf(c)' = ChargesOf(c) + (IF c = e THEN 1 ELSE 0)
      BY <1>3, <3>1, <3>5 DEF ChargesOf
    <3> QED
      BY <1>3, <1>4, <2>2, <3>1, <3>4, <3>6
  <2>5. CASE AuditInsert(r)
    <3>1. ChargesOf(c)' = ChargesOf(c) /\ req'[r] = Idle
      BY <2>5, ReturnOne DEF AuditInsert, history, ChargesOf, WebhookInv
    <3>2. hook'[r].pc = "idle"
      BY <3>1, DoneFacts DEF Deduct, WebhookInv, NoHook
    <3>3. Due(r, c)' = 0
      BY <3>2 DEF Due, ToCharge, HandlersAt
    <3> QED
      BY <1>3, <1>4, <3>1, <3>3
  <2> QED
    BY <1>6, <2>3, <2>4, <2>5
<1> QED
  BY <1>1, <1>5, <1>6 DEF Deduct

LEMMA DeductedMove ==
    ASSUME WebhookInv, WebhookInv', EffectInv, NEW r \in Requests, Deduct(r)
    PROVE  EffectInv'
<1>1. PICK e, from, to :
        /\ Moves(r, e, from, to) /\ e \in VoiceCalls
        /\ from \in {"deduct", "deducting"} /\ to \in {"idle", "deducting"}
  BY DeductMoves
<1>2. UNCHANGED <<processed, recorded, credited, slips>>
  BY DEF Deduct
<1>3. ASSUME NEW f \in PaidEvents
      PROVE  Within(credited[f], f, {"record", "credit"}, {"adding", "mark"})'
  <2>1. /\ credited[f] \in Nat /\ slips[f] \in Nat /\ slips'[f] = slips[f]
        /\ credited'[f] = credited[f] /\ f # e
        /\ f \in processed' <=> f \in processed
    BY <1>1, <1>2, WebhookAssumption DEF WebhookInv, HookType
  <2>2. credited'[f] - credited[f]
             <= slips'[f] - slips[f]
                + (IF f = e /\ to \in {"adding", "mark"} THEN 1 ELSE 0)
                - (IF f = e /\ from \in {"adding", "mark"} THEN 1 ELSE 0)
    BY <2>1
  <2>3. credited'[f] - credited[f]
             <= slips'[f] - slips[f]
                + (IF f = e /\ from \in {"record", "credit"} THEN 1 ELSE 0)
                - (IF f = e /\ to \in {"record", "credit"} THEN 1 ELSE 0)
    BY <2>1
  <2> QED
    BY <1>1, <2>1, <2>2, <2>3, PaidKept
<1>4. ASSUME NEW f \in Invoices
      PROVE  Within(recorded[f], f, {"record"}, {"credit", "adding", "mark"})'
  <2>1. /\ recorded[f] \in Nat /\ slips[f] \in Nat /\ slips'[f] = slips[f]
        /\ recorded'[f] = recorded[f] /\ f # e
        /\ f \in processed' <=> f \in processed
    BY <1>1, <1>2, WebhookAssumption DEF WebhookInv, HookType, PaidEvents
  <2>2. recorded'[f] - recorded[f]
             <= slips'[f] - slips[f]
                + (IF f = e /\ to \in {"credit", "adding", "mark"} THEN 1 ELSE 0)
                - (IF f = e /\ from \in {"credit", "adding", "mark"} THEN 1 ELSE 0)
    BY <2>1
  <2>3. recorded'[f] - recorded[f]
             <= slips'[f] - slips[f]
                + (IF f = e /\ from \in {"record"} THEN 1 ELSE 0)
                - (IF f = e /\ to \in {"record"} THEN 1 ELSE 0)
    BY <2>1
  <2> QED
    BY <1>1, <2>1, <2>2, <2>3, InvoiceKept
<1>5. ASSUME NEW c \in VoiceCalls
      PROVE  CallBound(c)'
  <2>1. recorded[c] \in Nat /\ recorded'[c] = recorded[c]
    BY <1>2 DEF WebhookInv, HookType
  <2>2. recorded'[c] - recorded[c]
                <= (IF c = e /\ from = "record" THEN 1 ELSE 0)
                   - (IF c = e /\ to = "record" THEN 1 ELSE 0)
    BY <1>1, <2>1
  <2>3. /\ Due(r, c) \in {0, 1} /\ Due(r, c)' \in {0, 1}
        /\ ChargesOf(c)' - ChargesOf(c) <= Due(r, c) - Due(r, c)'
    BY DeductDue DEF Due
  <2>4. ChargesOf(c)' - ChargesOf(c) <= recorded'[c] - recorded[c] + Due(r, c) - Due(r, c)'
    BY <2>1, <2>3
  <2> QED
    BY <1>1, <2>2, <2>4, CallKept
<1> QED
  BY <1>3, <1>4, <1>5 DEF EffectInv, CallBound, ChargesOf

LEMMA SlipCounts ==
    ASSUME WebhookInv, NEW r \in Requests, NEW e, Slip(e)
    PROVE  /\ \A f \in PaidEvents : slips'[f] >= slips[f]
           /\ e \in PaidEvents => slips'[e] > slips[e]
  BY DEF Slip, WebhookInv, HookType

LEMMA EffectInvInit == WebhookInit => EffectInv
<1> SUFFICES ASSUME WebhookInit PROVE EffectInv
  OBVIOUS
<1>1. ASSUME NEW e, NEW P \in SUBSET Stages
      PROVE  Cardinality(HandlersAt(e, P)) = 0
  <2>1. HandlersAt(e, P) = {}
    BY DEF HandlersAt, WebhookInit, NoHook, Stages
  <2> QED
    BY <2>1, FS_EmptySet
<1>2. Cardinality(Requests) \in Nat
  BY LedgerAssumption, FS_CardinalityType
<1>3. ASSUME NEW e \in PaidEvents
      PROVE  Within(credited[e], e, {"record", "credit"}, {"adding", "mark"})
  <2>1. Cardinality(HandlersAt(e, {"adding", "mark"})) = 0
    BY <1>1 DEF Stages
  <2> QED
    BY <2>1 DEF Within, WebhookInit
<1>4. ASSUME NEW e \in Invoices
      PROVE  Within(recorded[e], e, {"record"}, {"credit", "adding", "mark"})
  <2>1. Cardinality(HandlersAt(e, {"credit", "adding", "mark"})) = 0
    BY <1>1 DEF Stages
  <2> QED
    BY <2>1 DEF Within, WebhookInit, PaidEvents
<1>5. ASSUME NEW c \in VoiceCalls
      PROVE  CallBound(c)
  <2>1. Cardinality(HandlersAt(c, {"record"})) = 0
    BY <1>1 DEF Stages
  <2>2. ToCharge(c) = {}
    BY DEF ToCharge, HandlersAt, WebhookInit, NoHook
  <2>3. Cardinality(ToCharge(c)) = 0
    BY <2>2, FS_EmptySet
  <2>4. recorded[c] = 0 /\ ChargesOf(c) = 0
    BY WebhookAssumption DEF WebhookInit, Init, ChargesOf, VoiceCalls, Events
  <2> QED
    BY <1>2, <2>1, <2>3, <2>4 DEF CallBound
<1> QED
  BY <1>3, <1>4, <1>5 DEF EffectInv, CallBound, ChargesOf

LEMMA EffectInvNext == WebhookInv /\ EffectInv /\ [WebhookNext]_allVars => EffectInv'
<1> SUFFICES ASSUME WebhookInv, EffectInv, [WebhookNext]_allVars PROVE EffectInv'
  OBVIOUS
<1>1. WebhookInv'
  BY WebhookInvNext
<1>2. CASE UNCHANGED allVars
  <2>1. /\ hook' = hook /\ req' = req /\ charges' = charges
        /\ UNCHANGED <<processed, recorded, credited, slips>>
    BY <1>2 DEF allVars, hookVars, vars, history
  <2>2. /\ \A e, P : HandlersAt(e, P)' = HandlersAt(e, P)
        /\ \A c : ToCharge(c)' = ToCharge(c)
    BY <2>1 DEF HandlersAt, ToCharge
  <2> QED
    BY <2>1, <2>2 DEF EffectInv, Within
<1>3. ASSUME NEW r \in Requests, NEW e \in Events, Deliver(r, e)
      PROVE  EffectInv'
  <2>1. Moves(r, e, "idle", "check")
    BY <1>3, DeliverMoves
  <2>2. /\ charges' = charges /\ UNCHANGED <<processed, recorded, credited, slips>>
    BY <1>3, StillOne DEF Deliver
  <2>3. \A c : Due(r, c) = 0 /\ Due(r, c)' = 0
    BY <2>1, DueIs
  <2>4. \A f \in PaidEvents : slips'[f] >= slips[f]
    BY <2>2 DEF WebhookInv, HookType
  <2> QED
    BY <1>1, <2>1, <2>2, <2>3, <2>4, QuietMove
<1>4. ASSUME NEW r \in Requests, Check(r) \/ CheckBlind(r)
      PROVE  EffectInv'
  <2>1. PICK to : /\ Moves(r, Event(r), "check", to)
                  /\ \/ Check(r) /\ to = "idle"
                     \/ /\ to \in {AfterCheck(Event(r)), "mark"}
                        /\ Check(r) => ~Known(Event(r))
    BY <1>4, CheckMoves
  <2>2. /\ charges' = charges /\ UNCHANGED <<processed, recorded, credited>>
        /\ slips' = slips \/ Slip(Event(r))
        /\ ~Check(r) => Slip(Event(r)) /\ Event(r) \in PaidEvents
    BY <1>4, StillOne DEF Check, CheckBlind
  <2>3. to \in {"idle", "credit", "record", "mark"}
    BY <2>1 DEF AfterCheck
  <2>4. \A c : Due(r, c) = 0 /\ Due(r, c)' = 0
    BY <2>1, <2>3, DueIs
  <2>5. \A f \in PaidEvents : slips'[f] >= slips[f]
    BY <2>2, SlipCounts DEF WebhookInv, HookType
  <2>6. Event(r) \in PaidEvents /\ to # "idle"
          => Event(r) \notin processed \/ slips'[Event(r)] > slips[Event(r)]
    BY <2>1, <2>2, SlipCounts DEF Known
  <2>7. Event(r) \in VoiceCalls /\ to # "idle" => recorded[Event(r)] = 0
    <3>1. Event(r) \in VoiceCalls => recorded[Event(r)] \in Nat /\ Event(r) \notin PaidEvents
      BY WebhookAssumption DEF WebhookInv, HookType
    <3> QED
      BY <2>1, <2>2, <3>1 DEF Known
  <2> QED
    BY <1>1, <2>1, <2>2, <2>3, <2>4, <2>5, <2>6, <2>7, QuietMove
<1>5. ASSUME NEW r \in Requests, Record(r)
      PROVE  EffectInv'
  <2>1. /\ Event(r) \in Invoices \cup VoiceCalls
        /\ Moves(r, Event(r), "record", AfterRecord(Event(r)))
    BY <1>5, RecordMoves
  <2>2. /\ charges' = charges /\ UNCHANGED <<processed, credited, slips>>
        /\ recorded' = [recorded EXCEPT ![Event(r)] = @ + 1]
    BY <1>5, StillOne DEF Record
  <2>3. \A f \in PaidEvents : slips'[f] >= slips[f]
    BY <2>2 DEF WebhookInv, HookType
  <2>4. /\ AfterRecord(Event(r)) \in {"credit", "deduct", "idle"}
        /\ Event(r) \in Invoices <=> AfterRecord(Event(r)) = "credit"
    BY DEF AfterRecord
  <2> QED
    BY <1>1, <2>1, <2>2, <2>3, <2>4, RecordedMove
<1>6. ASSUME NEW r \in Requests, Credit(r)
      PROVE  EffectInv'
  <2>1. Event(r) \in PaidEvents /\ Moves(r, Event(r), "credit", "adding")
    BY <1>6, CreditMoves
  <2>2. /\ charges' = charges /\ UNCHANGED <<processed, recorded, slips>>
        /\ credited' = [credited EXCEPT ![Event(r)] = @ + 1]
    BY <1>6 DEF Credit, AddUpsert, history
  <2> QED
    BY <1>1, <2>1, <2>2, CreditedMove
<1>7. ASSUME NEW r \in Requests, Added(r)
      PROVE  EffectInv'
  <2>1. Event(r) \in PaidEvents /\ Moves(r, Event(r), "adding", "mark")
    BY <1>7, AddedMoves
  <2>2. /\ charges' = charges /\ UNCHANGED <<processed, recorded, credited, slips>>
    BY <1>7 DEF Added, AuditInsert, history
  <2>3. \A c : Due(r, c) = 0 /\ Due(r, c)' = 0
    BY <2>1, DueIs
  <2>4. \A f \in PaidEvents : slips'[f] >= slips[f]
    BY <2>2 DEF WebhookInv, HookType
  <2> QED
    BY <1>1, <2>1, <2>2, <2>3, <2>4, QuietMove
<1>8. ASSUME NEW r \in Requests, Mark(r)
      PROVE  EffectInv'
  <2>1. Event(r) \in PaidEvents /\ Moves(r, Event(r), "mark", "idle")
    BY <1>8, MarkMoves
  <2>2. /\ charges' = charges /\ UNCHANGED <<recorded, credited, slips>>
        /\ processed' = processed \cup {Event(r)}
    BY <1>8, StillOne DEF Mark
  <2> QED
    BY <1>1, <2>1, <2>2, MarkedMove
<1>9. ASSUME NEW r \in Requests, MarkFails(r)
      PROVE  EffectInv'
  <2>1. Event(r) \in PaidEvents /\ Moves(r, Event(r), "mark", "idle")
    BY <1>9, MarkMoves
  <2>2. /\ charges' = charges /\ UNCHANGED <<processed, recorded, credited>>
        /\ Slip(Event(r))
    BY <1>9, StillOne DEF MarkFails
  <2>3. \A c : Due(r, c) = 0 /\ Due(r, c)' = 0
    BY <2>1, DueIs
  <2>4. /\ \A f \in PaidEvents : slips'[f] >= slips[f]
        /\ slips'[Event(r)] > slips[Event(r)]
    BY <2>1, <2>2, SlipCounts
  <2> QED
    BY <1>1, <2>1, <2>2, <2>3, <2>4, QuietMove
<1>10. ASSUME NEW r \in Requests, Throws(r) \/ Evicted(r)
       PROVE  EffectInv'
  <2>1. PICK from : from = hook[r].pc /\ Moves(r, Event(r), from, "idle")
    BY <1>10, EndMoves
  <2>2. charges' = charges
    BY <1>10, LedgerDiesIs DEF Throws, Evicted, WebhookInv
  <2>3. UNCHANGED <<processed, credited>> /\ Slip(Event(r))
    BY <1>10 DEF Throws, Evicted
  <2>4. /\ \A f \in PaidEvents : slips'[f] >= slips[f]
        /\ Event(r) \in PaidEvents => slips'[Event(r)] > slips[Event(r)]
    BY <2>3, SlipCounts
  <2>5. CASE UNCHANGED recorded
    <3>1. \A c : Due(r, c)' <= Due(r, c)
      <4>1. \A c : Due(r, c)' = 0
        BY <2>1, DueIs
      <4> QED
        BY <4>1 DEF Due
    <3> QED
      BY <1>1, <2>1, <2>2, <2>3, <2>4, <2>5, <3>1, QuietMove
  <2>6. CASE At(r, "record") /\ recorded' = [recorded EXCEPT ![Event(r)] = @ + 1]
    <3>1. Event(r) \in Invoices \cup VoiceCalls /\ from = "record"
      BY <2>1, <2>6 DEF WebhookInv, HookInv, HookFor, At
    <3>2. Event(r) \in Invoices => slips'[Event(r)] > slips[Event(r)]
      BY <2>4 DEF PaidEvents
    <3> QED
      BY <1>1, <2>1, <2>2, <2>3, <2>4, <2>6, <3>1, <3>2, RecordedMove
  <2> QED
    BY <1>10, <2>5, <2>6 DEF Throws, Evicted
<1>11. ASSUME NEW r \in Requests, Deduct(r)
       PROVE  EffectInv'
  BY <1>1, <1>11, DeductedMove
<1> QED
  BY <1>2, <1>3, <1>4, <1>5, <1>6, <1>7, <1>8, <1>9, <1>10, <1>11 DEF WebhookNext, Handle

LEMMA EffectsFollow == WebhookInv /\ EffectInv => EffectsBounded
<1> SUFFICES ASSUME WebhookInv, EffectInv PROVE EffectsBounded
  OBVIOUS
<1>1. /\ Cardinality(Requests) \in Nat
      /\ \A e, P : /\ Cardinality(HandlersAt(e, P)) \in Nat
                   /\ Cardinality(HandlersAt(e, P)) <= Cardinality(Requests)
  <2>1. \A e, P : HandlersAt(e, P) \subseteq Requests
    BY DEF HandlersAt
  <2> QED
    BY <2>1, LedgerAssumption, FS_Subset, FS_CardinalityType
<1>2. ASSUME NEW n \in Nat, NEW e \in PaidEvents, NEW A, NEW B, Within(n, e, B, A)
      PROVE  n <= Cardinality(Requests) + slips[e]
  <2>1. /\ slips[e] \in Nat
        /\ Cardinality(HandlersAt(e, A)) \in Nat /\ Cardinality(HandlersAt(e, B)) \in Nat
        /\ Cardinality(HandlersAt(e, A)) <= Cardinality(Requests)
    BY <1>1 DEF WebhookInv, HookType
  <2> QED
    BY <1>1, <1>2, <2>1 DEF Within
<1>3. \A e \in PaidEvents : credited[e] <= Cardinality(Requests) + slips[e]
  BY <1>2 DEF EffectInv, WebhookInv, HookType
<1>4. \A i \in Invoices : recorded[i] <= Cardinality(Requests) + slips[i]
  BY <1>2 DEF EffectInv, WebhookInv, HookType, PaidEvents
<1>5. ASSUME NEW c \in VoiceCalls
      PROVE  charges[Payer[c]][c] <= recorded[c] /\ recorded[c] <= Cardinality(Requests)
  <2>1. CallBound(c) /\ recorded[c] \in Nat
    BY DEF EffectInv, CallBound, ChargesOf, WebhookInv, HookType
  <2>2. ChargesOf(c) \in Nat
    BY WebhookAssumption DEF WebhookInv, TypeOK, ChargesOf, VoiceCalls, Events
  <2>3. Cardinality(HandlersAt(c, {"record"})) \in Nat /\ Cardinality(ToCharge(c)) \in Nat
    <3>1. ToCharge(c) \subseteq Requests
      BY DEF ToCharge, HandlersAt
    <3> QED
      BY <1>1, <3>1, LedgerAssumption, FS_Subset, FS_CardinalityType
  <2> QED
    BY <1>1, <2>1, <2>2, <2>3 DEF CallBound, ChargesOf
<1> QED
  BY <1>3, <1>4, <1>5 DEF EffectsBounded

(* Whatever overlaps, fails or is delivered again, no event of Stripe is   *)
(* booked more often than handlers run at once, plus one for each that     *)
(* failed half way, and no call is charged without a billing record.       *)
THEOREM EffectsAreBounded == WebhookSpec => []EffectsBounded
<1>1. WebhookInit => WebhookInv /\ EffectInv
  BY WebhookInvInit, EffectInvInit
<1>2. WebhookInv /\ EffectInv /\ [WebhookNext]_allVars => (WebhookInv /\ EffectInv)'
  BY WebhookInvNext, EffectInvNext
<1>3. WebhookInv /\ EffectInv => EffectsBounded
  BY EffectsFollow
<1> QED
  BY <1>1, <1>2, <1>3, PTL DEF WebhookSpec

(* The webhooks use the ledger as its other callers do: their behaviours   *)
(* are behaviours of the ledger, whose theorems hold of them.              *)
THEOREM WebhooksUseTheLedger == WebhookSpec => Spec
<1>1. WebhookInit => WebhookInv /\ Init
  BY WebhookInvInit DEF WebhookInit
<1>2. WebhookInv /\ [WebhookNext]_allVars => WebhookInv'
  BY WebhookInvNext
<1>3. WebhookInv /\ [WebhookNext]_allVars => [Next]_vars
  BY HandlerSteps
<1> QED
  BY <1>1, <1>2, <1>3, PTL DEF WebhookSpec, Spec
=============================================================================
