------------------------------ MODULE Webhooks ------------------------------
(***************************************************************************)
(* The webhooks that move credit: POST /stripe/webhook of routes/stripe.ts *)
(* for paid checkouts and invoices, and recordTelephonyBilling of          *)
(* logic/voice-webhook.ts for calls that have ended.                       *)
(*                                                                         *)
(* A request of CreditLedger is here a handler of one delivery; its calls  *)
(* of addCredits and deductCredits are the steps of the ledger.  Providers *)
(* deliver an event until it is answered, and now and then once more.  The *)
(* trace id of a call is its session in the ledger.  The ledger's 24 hours *)
(* do not pass in a behaviour (no WindowSlides).                           *)
(***************************************************************************)
EXTENDS CreditLedger

CONSTANTS
    Checkouts,  \* Stripe: credit purchases
    Invoices,   \* Stripe: invoices whose metadata has a positive credits_cents
    Payer,      \* the org of each event
    Worth,      \* the credit of each event, the cost of each call
    MaxFaults   \* bound on failures and on deliveries after an answer

PaidEvents == Checkouts \cup Invoices
VoiceCalls == Sessions
Events == PaidEvents \cup VoiceCalls

ASSUME WebhookAssumption ==
    /\ Payer \in [Events -> Orgs]
    /\ Worth \in [Events -> Amounts]
    /\ PaidEvents \cap VoiceCalls = {}
    /\ MaxFaults \in Nat

VARIABLES
    hook,       \* local state of each handler
    processed,  \* stripe_events_processed
    recorded,   \* number of billing_records rows of each invoice and call
    due,        \* events whose provider still waits for an answer
    faults,     \* the bound's counter
    credited,   \* history: credits added for each paid event
    unmatched,  \* history: paid events whose package or customer was not found
    slips       \* history: handlers of each event that failed half way

hookVars == <<hook, processed, recorded, due, faults, credited, unmatched, slips>>
allVars == <<vars, hookVars>>

NoHook == [pc |-> "idle"]

WebhookInit ==
    /\ Init
    /\ hook = [r \in Requests |-> NoHook]
    /\ processed = {}
    /\ recorded = [e \in Invoices \cup VoiceCalls |-> 0]
    /\ due = Events
    /\ faults = 0
    /\ credited = [e \in PaidEvents |-> 0]
    /\ unmatched = {}
    /\ slips = [e \in PaidEvents |-> 0]

-----------------------------------------------------------------------------
At(r, pc) == hook[r].pc = pc
Event(r) == hook[r].ev
Go(r, pc) == hook' = [hook EXCEPT ![r].pc = pc]
Done(r) == hook' = [hook EXCEPT ![r] = NoHook]
Fault == faults < MaxFaults /\ faults' = faults + 1
Slip(e) == slips' = IF e \in PaidEvents THEN [slips EXCEPT ![e] = @ + 1] ELSE slips

(* A response with status 200, after which the provider is content.  A     *)
(* Stripe handler that throws answers 500; recordTelephonyBilling catches  *)
(* what its statements throw, and the provider gets its 200.               *)
Answered(e) == due' = due \ {e}
AnsweredFailing(e) == Answered(e)
AnsweredIfVoice(e) == IF e \in VoiceCalls THEN Answered(e) ELSE UNCHANGED due

(* What the handlers look for first, preceded by the form that a plausible *)
(* mistake would give it.                                                  *)
KnownNever(e) == FALSE
Known(e) == IF e \in PaidEvents THEN e \in processed ELSE recorded[e] > 0

AfterCheck(e) == IF e \in Checkouts THEN "credit" ELSE "record"
AfterRecord(e) == IF e \in Invoices THEN "credit" ELSE "deduct"

(* A checkout whose package is no longer there, an invoice of a customer   *)
(* that no org has: nothing to record or credit, and on to the mark.       *)
Unmatched(r) ==
    /\ Event(r) \in PaidEvents
    /\ Go(r, "mark")
    /\ unmatched' = unmatched \cup {Event(r)}

GoOn(r) ==
    \/ Go(r, AfterCheck(Event(r))) /\ UNCHANGED unmatched
    \/ Unmatched(r)

-----------------------------------------------------------------------------
Deliver(r, e) ==
    /\ hook[r] = NoHook
    /\ \/ e \in due /\ UNCHANGED faults
       \/ e \notin due /\ Fault
    /\ hook' = [hook EXCEPT ![r] = [pc |-> "check", ev |-> e]]
    /\ UNCHANGED <<vars, processed, recorded, due, credited, unmatched, slips>>

Check(r) ==
    /\ At(r, "check")
    /\ IF Known(Event(r)) THEN Done(r) /\ Answered(Event(r)) /\ UNCHANGED unmatched
       ELSE GoOn(r) /\ UNCHANGED due
    /\ UNCHANGED <<vars, processed, recorded, faults, credited, slips>>

(* A read of stripe_events_processed that fails counts as no row.          *)
CheckBlind(r) ==
    /\ At(r, "check") /\ Event(r) \in PaidEvents /\ Fault
    /\ GoOn(r)
    /\ Slip(Event(r))
    /\ UNCHANGED <<vars, processed, recorded, due, credited>>

Record(r) ==
    /\ At(r, "record")
    /\ recorded' = [recorded EXCEPT ![Event(r)] = @ + 1]
    /\ Go(r, AfterRecord(Event(r)))
    /\ UNCHANGED <<vars, processed, due, faults, credited, unmatched, slips>>

(* addCredits: its upsert.                                                 *)
Credit(r) ==
    /\ At(r, "credit")
    /\ AddUpsert(r, Payer[Event(r)], Worth[Event(r)])
    /\ credited' = [credited EXCEPT ![Event(r)] = @ + 1]
    /\ Go(r, "adding")
    /\ UNCHANGED <<processed, recorded, due, faults, unmatched, slips>>

(* addCredits: its audit row, the last statement before the handler marks  *)
(* the event.                                                              *)
Added(r) ==
    /\ At(r, "adding")
    /\ AuditInsert(r)
    /\ Go(r, "mark")
    /\ UNCHANGED <<processed, recorded, due, faults, credited, unmatched, slips>>

Mark(r) ==
    /\ At(r, "mark")
    /\ processed' = processed \cup {Event(r)}
    /\ Answered(Event(r))
    /\ Done(r)
    /\ UNCHANGED <<vars, recorded, faults, credited, unmatched, slips>>

(* An error of the mark is swallowed: the event is answered all the same.  *)
MarkFails(r) ==
    /\ At(r, "mark") /\ Fault
    /\ Answered(Event(r))
    /\ Slip(Event(r))
    /\ Done(r)
    /\ UNCHANGED <<vars, processed, recorded, credited, unmatched>>

(* deductCredits, whose result recordTelephonyBilling only logs: over the  *)
(* cap, already charged, not covered and charged all end in the answer.    *)
Deduct(r) ==
    /\ \/ /\ At(r, "deduct")
          /\ DailyCap(r, Payer[Event(r)], Worth[Event(r)], Event(r))
       \/ /\ At(r, "deducting")
          /\ Dedup(r) \/ DeductUpdate(r) \/ AuditInsert(r)
    /\ IF req'[r] = Idle THEN Done(r) /\ Answered(Event(r))
       ELSE Go(r, "deducting") /\ UNCHANGED due
    /\ UNCHANGED <<processed, recorded, faults, credited, unmatched, slips>>

(* The ledger's part of a handler that fails or is evicted.                *)
LedgerDies(r) == IF req[r] = Idle THEN UNCHANGED vars ELSE Die(r)

(* A statement throws.  An INSERT may have been committed.                 *)
Throws(r) ==
    /\ hook[r] # NoHook /\ Fault
    /\ LedgerDies(r)
    /\ \/ UNCHANGED recorded
       \/ At(r, "record") /\ recorded' = [recorded EXCEPT ![Event(r)] = @ + 1]
    /\ AnsweredIfVoice(Event(r))
    /\ Slip(Event(r))
    /\ Done(r)
    /\ UNCHANGED <<processed, credited, unmatched>>

Evicted(r) ==
    /\ hook[r] # NoHook /\ Fault
    /\ LedgerDies(r)
    /\ Slip(Event(r))
    /\ Done(r)
    /\ UNCHANGED <<processed, recorded, due, credited, unmatched>>

Handle(r) == Check(r) \/ Record(r) \/ Credit(r) \/ Added(r) \/ Mark(r) \/ Deduct(r)

WebhookNext ==
    \/ \E r \in Requests, e \in Events : Deliver(r, e)
    \/ \E r \in Requests :
          Handle(r) \/ CheckBlind(r) \/ MarkFails(r) \/ Throws(r) \/ Evicted(r)

WebhookSpec == WebhookInit /\ [][WebhookNext]_allVars

(* Stripe delivers an event until it is answered; handlers run on.         *)
FairWebhookSpec ==
    /\ WebhookSpec
    /\ \A e \in PaidEvents : WF_allVars(\E r \in Requests : e \in due /\ Deliver(r, e))
    /\ \A r \in Requests : WF_allVars(Handle(r))

-----------------------------------------------------------------------------
(* What was paid for through Stripe is credited in the end, however often  *)
(* its handlers fail: the event is marked, and answered, after the credit. *)
(* The exception: a handler that finds no such package, or no org of that  *)
(* customer, marks and answers the event, and what was paid is kept with   *)
(* nothing credited.                                                       *)
PaidEventsCredited ==
    \A e \in PaidEvents : <>(credited[e] > 0 \/ e \in unmatched)

(* Events handled twice are booked twice, but not without end.  A paid     *)
(* event: once for each handler that runs at the time, and once more for   *)
(* each that failed half way.  A call: no more often than it has billing   *)
(* records, of which there is at most one for each handler.                *)
EffectsBounded ==
    LET handlers == Cardinality(Requests)
    IN /\ \A e \in PaidEvents : credited[e] <= handlers + slips[e]
       /\ \A i \in Invoices : recorded[i] <= handlers + slips[i]
       /\ \A c \in VoiceCalls :
             charges[Payer[c]][c] <= recorded[c] /\ recorded[c] <= handlers
=============================================================================
