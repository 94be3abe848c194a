------------------------------- MODULE Payments -------------------------------
(***************************************************************************)
(* The handlers of src/modules/commerce/payments.ts run against the        *)
(* payment provider.  Module Commerce has their database transactions;     *)
(* here each handler is a sequence of transactions and provider calls, and *)
(* guests, staff, webhook deliveries, the maintenance job and the provider *)
(* run between any two of them.  A handler may die at any step.            *)
(*                                                                         *)
(* The provider (Stripe, reached through stripe.ts) is external: sessions  *)
(* and refunds are created under idempotency keys, settle when it decides, *)
(* and produce notices that are delivered late, again, in any order or not *)
(* at all.                                                                 *)
(***************************************************************************)
EXTENDS Commerce

CONSTANTS
  Starter,      \* requests of guests to start a payment
  StartMargin,  \* least time to expiry for a new session (31 minutes)
  Delivered,    \* kinds of notices that reach the webhook route
  FirstStatus,  \* statuses in which the provider answers a new refund
  PartialId,    \* ids of the refunds that people make at the provider
  Edits,        \* bound of the model on what the back office does meanwhile
  MaxHooks,     \* bound of the model on webhook requests under way
  MaxCrashes    \* bound of the model on handlers that die

NoticeKind == {"completed", "expired", "refund.created", "refund.succeeded",
               "refund.failed", "charge.refunded"}

(* The ids of the facts a provider states: see Fact below.                 *)
FactIds ==
  ({"completed", "expired", "reconcile.session"} \X Order \X {"COMPLETE", "EXPIRED"} \X {0})
    \cup ({"refund.created", "refund.succeeded", "refund.failed", "reconcile.refund",
           "response"} \X RefundId \X {"SUCCEEDED", "FAILED"} \X {0})
    \cup ({"charge.refunded", "reconcile.sum"} \X (RefundId \cup Order) \X {"SUM"}
            \X (1..Total))

ASSUME PaymentsAssumption ==
  /\ StartMargin \in Nat \ {0}
  /\ Delivered \subseteq NoticeKind
  /\ Edits \subseteq {"tree"}
  /\ FirstStatus \subseteq {"PENDING", "SUCCEEDED"}
  /\ PartialId \subseteq RefundId
  /\ MaxHooks \in Nat /\ MaxCrashes \in Nat
  /\ Total > 1 /\ 1..Total \subseteq Amount
  /\ None \notin Order
  /\ FactIds \subseteq EventId

VARIABLES
  session,   \* the provider's checkout session of an order's attempt
  link,      \* whether a handler gave the guest the address of the session
  refund,    \* the provider's refunds
  cached,    \* the provider's answer kept under the key refund:<attempt>
  notices,   \* notices the provider has sent
  hooks,     \* verified events of webhook requests, not yet applied
  starter,   \* requests in ensureSession
  refunder,  \* the staff request in refundOrder
  job,       \* the maintenance job in reconcile
  crashes    \* handlers that died so far

providerVars == <<session, link, refund, cached, notices>>
handlerVars == <<hooks, starter, refunder, job, crashes>>
paymentVars == <<vars, providerVars, handlerVars>>

NoFact == [id |-> None, order |-> None, type |-> "NONE", amount |-> 0,
           foreign |-> FALSE, intent |-> FALSE]
NoRefund == [order |-> None, status |-> "NONE", amount |-> 0]
NoCall == [pc |-> "IDLE", order |-> None, refund |-> None, event |-> NoFact]
NoJob == [pc |-> "IDLE", order |-> None, attempt |-> NoAttempt, status |-> "NONE",
          refund |-> None, event |-> NoFact]

RefundsOf(o, statuses) ==
  {r \in RefundId : refund[r].order = o /\ refund[r].status \in statuses}

RefundUnits(o, statuses) ==
  {u \in RefundsOf(o, statuses) \X (1..Total) : u[2] <= refund[u[1]].amount}

(* What the provider has returned, or is about to return, of a payment.    *)
Returned(o, statuses) == Cardinality(RefundUnits(o, statuses))

SessionStatus == {"NONE", "OPEN", "COMPLETE", "EXPIRED"}
RefundStatus == {"NONE", "PENDING", "SUCCEEDED", "FAILED"}
Notice ==
  ({"completed", "expired"} \X Order)
    \cup ({"refund.created", "refund.succeeded", "refund.failed", "charge.refunded"}
            \X RefundId)

RefundRecord == [order : Order \cup {None}, amount : 0..Total, status : RefundStatus]
CachedRecord == [refund : RefundId \cup {None}, status : {"NONE", "PENDING", "SUCCEEDED"}]
StarterState == [pc : {"IDLE", "CREATE", "SAVE", "EXPIRE"}, order : Order \cup {None}]
CallState ==
  [pc : {"IDLE", "CALL", "SAVE", "APPLY"}, order : Order \cup {None},
   refund : RefundId \cup {None}, event : Event \cup {NoFact}]
JobState ==
  [pc : {"IDLE", "READ", "START", "CREATE", "SAVE", "CLOSE", "OBSERVE", "APPLY",
         "REFUND", "RECORD", "SETTLE", "TAIL"},
   order : Order \cup {None}, attempt : AttemptRecord, status : OrderStatus,
   refund : RefundId \cup {None}, event : Event \cup {NoFact}]

PaymentsTypeOK ==
  /\ TypeOK
  /\ session \in [Order -> SessionStatus]
  /\ link \in [Order -> BOOLEAN]
  /\ refund \in [RefundId -> RefundRecord]
  /\ cached \in [Order -> CachedRecord]
  /\ notices \subseteq Notice
  /\ hooks \subseteq Event
  /\ starter \in [Starter -> StarterState]
  /\ refunder \in CallState
  /\ job \in JobState
  /\ crashes \in 0..MaxCrashes
------------------------------------------------------------------------------
(***************************************************************************)
(* Facts the provider states, as stripe.ts normalises them.  The id of a   *)
(* fact is made of the notice or the query it answers and of what was      *)
(* found: a status, an amount.                                             *)
(***************************************************************************)
Fact(id, o, type, amount, intent) ==
  [id |-> id, order |-> o, type |-> type, amount |-> amount, foreign |-> FALSE,
   intent |-> intent]

(* Mutant of SessionFact: a session not paid yet is a failure.             *)
SessionFactHasty(kind, o, status) ==
  LET id == <<kind, o, status, 0>>
  IN IF status = "COMPLETE" THEN Fact(id, o, "PAID", Total, TRUE)
     ELSE Fact(id, o, "FAILED", Total, FALSE)

(* sessionEvent: a paid session is a payment, an expired one a failure.    *)
SessionFact(kind, o, status) ==
  LET id == <<kind, o, status, 0>>
  IN IF status = "COMPLETE" THEN Fact(id, o, "PAID", Total, TRUE)
     ELSE IF status = "EXPIRED" THEN Fact(id, o, "FAILED", Total, FALSE) ELSE NoFact

(* refundEvent: a pending refund is no fact yet.                           *)
RefundFact(kind, r, status) ==
  LET type == IF status = "SUCCEEDED" THEN "REFUNDED" ELSE "REFUND_FAILED"
  IN IF status = "PENDING" THEN NoFact
     ELSE Fact(<<kind, r, status, 0>>, refund[r].order, type, refund[r].amount, TRUE)

(* refundedSnapshot: the sum of the refunds that succeeded.                *)
SumFact(kind, subject, o) ==
  LET sum == Returned(o, {"SUCCEEDED"})
  IN IF sum = 0 THEN NoFact
     ELSE Fact(<<kind, subject, "SUM", sum>>, o, "REFUNDED", sum, TRUE)

(* verify: session notices carry their content, refund notices only name a *)
(* resource that is loaded when the request is handled.  Cards are the     *)
(* only method of payment, so that no session is paid or fails later.      *)
Verified(n) ==
  LET kind == n[1]
  IN IF kind = "completed" THEN SessionFact(kind, n[2], "COMPLETE")
     ELSE IF kind = "expired" THEN SessionFact(kind, n[2], "EXPIRED")
     ELSE IF kind = "charge.refunded" THEN SumFact(kind, n[2], refund[n[2]].order)
     ELSE RefundFact(kind, n[2], refund[n[2]].status)

(* Mutant of Observed: sessions are looked at once their payment is known. *)
ObservedIntent(o, a) ==
  LET sum == SumFact("reconcile.sum", o, o)
  IN IF a.refund # None THEN RefundFact("reconcile.refund", a.refund, refund[a.refund].status)
     ELSE IF ~a.session \/ ~a.intent THEN NoFact
     ELSE IF session[o] = "COMPLETE" /\ sum # NoFact THEN sum
     ELSE SessionFact("reconcile.session", o, session[o])

(* reconcile of stripe.ts, for the attempt as the job read it.             *)
Observed(o, a) ==
  LET sum == SumFact("reconcile.sum", o, o)
  IN IF a.refund # None THEN RefundFact("reconcile.refund", a.refund, refund[a.refund].status)
     ELSE IF ~a.session THEN NoFact
     ELSE IF session[o] = "COMPLETE" /\ a.intent /\ sum # NoFact THEN sum
     ELSE SessionFact("reconcile.session", o, session[o])

Close(o) ==
  /\ session' = [session EXCEPT ![o] = IF @ = "OPEN" THEN "EXPIRED" ELSE @]
  /\ notices' = IF session[o] = "OPEN" THEN notices \cup {<<"expired", o>>} ELSE notices
  /\ UNCHANGED <<link, refund, cached>>

(* sessions.create under the key checkout-attempt:<attempt>.               *)
SessionRefused(o) == session[o] = "NONE" /\ order[o].expiresAt <= now

CreateSession(o) ==
  /\ ~SessionRefused(o)
  /\ session' = [session EXCEPT ![o] = IF @ = "NONE" THEN "OPEN" ELSE @]
  /\ UNCHANGED <<link, refund, cached, notices>>

(* A new refund of a paid session, never beyond what was paid.             *)
MakeRefund(o, r, amount, status) ==
  /\ session[o] = "COMPLETE"
  /\ refund[r] = NoRefund
  /\ Returned(o, {"PENDING", "SUCCEEDED"}) + amount <= Total
  /\ refund' = [refund EXCEPT ![r] = [order |-> o, status |-> status, amount |-> amount]]
  /\ notices' = notices \cup {<<"refund.created", r>>, <<"charge.refunded", r>>}
  /\ UNCHANGED <<session, link>>

(* refunds.create under the key refund:<attempt>: a repeated call gets the *)
(* first answer again, with the status the refund had then.                *)
CallRefund(o, r, status) ==
  \/ /\ cached[o] = [refund |-> r, status |-> status]
     /\ UNCHANGED providerVars
  \/ /\ cached[o].refund = None
     /\ r \notin PartialId
     /\ MakeRefund(o, r, Total, status)
     /\ cached' = [cached EXCEPT ![o] = [refund |-> r, status |-> status]]

(* The provider refuses: nothing was paid, or too much is returned already. *)
RefundRefused(o) ==
  /\ cached[o].refund = None
  /\ session[o] # "COMPLETE" \/ Returned(o, {"PENDING", "SUCCEEDED"}) > 0

(* applyEvent, when there is an event: its transaction, or its replay.     *)
ApplyFact(e) ==
  IF e = NoFact \/ e.id \in processed THEN UNCHANGED vars ELSE ApplyEvent(e)
------------------------------------------------------------------------------
PaymentsInit ==
  /\ Init
  /\ session = [o \in Order |-> "NONE"]
  /\ link = [o \in Order |-> FALSE]
  /\ refund = [r \in RefundId |-> NoRefund]
  /\ cached = [o \in Order |-> [refund |-> None, status |-> "NONE"]]
  /\ notices = {}
  /\ hooks = {}
  /\ starter = [p \in Starter |-> [pc |-> "IDLE", order |-> None]]
  /\ refunder = NoCall
  /\ job = NoJob
  /\ crashes = 0
------------------------------------------------------------------------------
(***************************************************************************)
(* The provider and the people at it.                                      *)
(***************************************************************************)
GuestPays(o) ==
  /\ session[o] = "OPEN" /\ link[o]
  /\ session' = [session EXCEPT ![o] = "COMPLETE"]
  /\ notices' = notices \cup {<<"completed", o>>}
  /\ UNCHANGED <<vars, link, refund, cached, handlerVars>>

SessionExpires(o) ==
  /\ session[o] = "OPEN" /\ order[o].expiresAt <= now
  /\ Close(o)
  /\ UNCHANGED <<vars, handlerVars>>

(* A pending refund settles; one that succeeded may still be returned by   *)
(* the guest's bank.                                                       *)
RefundSettles(r, status) ==
  /\ \/ refund[r].status = "PENDING" /\ status \in {"SUCCEEDED", "FAILED"}
     \/ refund[r].status = "SUCCEEDED" /\ status = "FAILED"
  /\ refund' = [refund EXCEPT ![r].status = status]
  /\ notices' = notices \cup
       {<<IF status = "FAILED" THEN "refund.failed" ELSE "refund.succeeded", r>>}
  /\ UNCHANGED <<vars, session, link, cached, handlerVars>>

(* A person returns a part of the payment in the provider's dashboard.     *)
PartialRefund(o, r) ==
  /\ r \in PartialId
  /\ MakeRefund(o, r, 1, "SUCCEEDED")
  /\ UNCHANGED <<vars, cached, handlerVars>>

(* The provider keeps answers to idempotency keys for a limited time.  The *)
(* model forgets while it has an id left for one more refund.              *)
ForgetKey(o) ==
  /\ cached[o].refund # None
  /\ \E r \in RefundId \ PartialId : refund[r] = NoRefund
  /\ cached' = [cached EXCEPT ![o] = [refund |-> None, status |-> "NONE"]]
  /\ UNCHANGED <<vars, session, link, refund, notices, handlerVars>>
------------------------------------------------------------------------------
(***************************************************************************)
(* ensureSession, for a guest (Start) or for the job (Job below).          *)
(***************************************************************************)
Payable(o) ==
  /\ order[o].status = "PENDING"
  /\ order[o].paymentStatus = "UNPAID"
  /\ order[o].expiresAt > now

(* The first transaction.  The attempt is made even when there is no time  *)
(* left for a new session; an expired order is closed.                     *)
EnsurePrepared(o) ==
  IF Overdue(o) THEN Expire(o)
  ELSE IF Payable(o) /\ attempt[o].status = "NONE" THEN PrepareSession(o)
  ELSE UNCHANGED vars

HasWindow(o) == order[o].expiresAt - now >= StartMargin

StartPrepare(p, o) ==
  /\ starter[p].pc = "IDLE"
  /\ order[o].status # "NONE"
  /\ EnsurePrepared(o)
  /\ link' = [link EXCEPT ![o] = @ \/ (Payable(o) /\ attempt[o].session)]
  /\ starter' = IF Payable(o) /\ ~attempt[o].session /\ HasWindow(o)
                THEN [starter EXCEPT ![p] = [pc |-> "CREATE", order |-> o]]
                ELSE starter
  /\ UNCHANGED <<session, refund, cached, notices, hooks, refunder, job, crashes>>

StartCreate(p) ==
  LET o == starter[p].order
  IN /\ starter[p].pc = "CREATE"
     /\ CreateSession(o)
     /\ starter' = [starter EXCEPT ![p].pc = "SAVE"]
     /\ UNCHANGED <<vars, hooks, refunder, job, crashes>>

StartDenied(p) ==
  /\ starter[p].pc = "CREATE"
  /\ SessionRefused(starter[p].order)
  /\ starter' = [starter EXCEPT ![p] = [pc |-> "IDLE", order |-> None]]
  /\ UNCHANGED <<vars, providerVars, hooks, refunder, job, crashes>>

(* The second transaction.  The guest only gets the address of a session   *)
(* that can still be paid.                                                 *)
StartSave(p) ==
  LET o == starter[p].order
  IN /\ starter[p].pc = "SAVE"
     /\ SaveSession(o)
     /\ link' = [link EXCEPT ![o] = @ \/ Payable(o)]
     /\ starter' = [starter EXCEPT
          ![p] = IF Payable(o) THEN [pc |-> "IDLE", order |-> None]
                 ELSE [@ EXCEPT !.pc = "EXPIRE"]]
     /\ UNCHANGED <<session, refund, cached, notices, hooks, refunder, job, crashes>>

StartExpire(p) ==
  /\ starter[p].pc = "EXPIRE"
  /\ Close(starter[p].order)
  /\ starter' = [starter EXCEPT ![p] = [pc |-> "IDLE", order |-> None]]
  /\ UNCHANGED <<vars, hooks, refunder, job, crashes>>
------------------------------------------------------------------------------
(***************************************************************************)
(* refundOrder, asked for by staff.                                        *)
(***************************************************************************)
RefundRequest(o) ==
  /\ refunder.pc = "IDLE"
  /\ RequestRefund(o)
  /\ refunder' = [NoCall EXCEPT !.pc = "CALL", !.order = o]
  /\ UNCHANGED <<providerVars, hooks, starter, job, crashes>>

RefundCall(r, status) ==
  LET o == refunder.order
  IN /\ refunder.pc = "CALL"
     /\ CallRefund(o, r, status)
     /\ refunder' = [refunder EXCEPT !.pc = "SAVE", !.refund = r,
                        !.event = RefundFact("response", r, status)']
     /\ UNCHANGED <<vars, hooks, starter, job, crashes>>

RefundDenied ==
  /\ refunder.pc = "CALL"
  /\ RefundRefused(refunder.order)
  /\ refunder' = NoCall
  /\ UNCHANGED <<vars, providerVars, hooks, starter, job, crashes>>

RefundSave ==
  /\ refunder.pc = "SAVE"
  /\ SaveRefund(refunder.order, refunder.refund)
  /\ refunder' = [refunder EXCEPT !.pc = "APPLY"]
  /\ UNCHANGED <<providerVars, hooks, starter, job, crashes>>

RefundApply ==
  /\ refunder.pc = "APPLY"
  /\ ApplyFact(refunder.event)
  /\ refunder' = NoCall
  /\ UNCHANGED <<providerVars, hooks, starter, job, crashes>>
------------------------------------------------------------------------------
(***************************************************************************)
(* The webhook route.  A request verifies its notice, which may load the   *)
(* refund it names, and then applies the event; requests run concurrently. *)
(* Redelivery of an event already applied has no effect and is left out.   *)
(***************************************************************************)
HookVerify(n) ==
  LET e == Verified(n)
  IN /\ n \in notices /\ n[1] \in Delivered
     /\ e # NoFact /\ e.id \notin processed /\ e \notin hooks
     /\ Cardinality(hooks) < MaxHooks
     /\ hooks' = hooks \cup {e}
     /\ UNCHANGED <<vars, providerVars, starter, refunder, job, crashes>>

HookApply(e) ==
  /\ ApplyFact(e)
  /\ hooks' = hooks \ {e}
  /\ UNCHANGED <<providerVars, starter, refunder, job, crashes>>
------------------------------------------------------------------------------
(***************************************************************************)
(* reconcile: one attempt at a time, from the list of candidates read at   *)
(* the start; the order is read again, without a lock, before its turn.    *)
(***************************************************************************)
(* Mutant of Candidate: closed orders are done with.                       *)
CandidateOpen(o) ==
  /\ attempt[o].status \in {"CREATED", "OPEN", "REVIEW", "SUCCEEDED"}
  /\ order[o].status \notin {"CANCELLED", "REFUNDED"}

Candidate(o) ==
  \/ /\ attempt[o].status \in {"CREATED", "OPEN", "REVIEW", "SUCCEEDED"}
     /\ order[o].paymentStatus # "REFUNDED"
  \/ attempt[o].status # "NONE" /\ order[o].paymentStatus = "REFUND_PENDING"

(* Mutant of Retrying: the condition is inverted.                          *)
RetryingAnswered == job.attempt.refundRequested /\ job.attempt.refund # None

Retrying == job.attempt.refundRequested /\ job.attempt.refund = None

JobMoves(pc) ==
  /\ job' = [job EXCEPT !.pc = pc]
  /\ UNCHANGED <<hooks, starter, refunder, crashes>>

JobEnds ==
  /\ job' = NoJob
  /\ UNCHANGED <<hooks, starter, refunder, crashes>>

JobTake(o) ==
  /\ job.pc = "IDLE"
  /\ Candidate(o)
  /\ job' = [NoJob EXCEPT !.pc = "READ", !.order = o, !.attempt = attempt[o]]
  /\ UNCHANGED <<vars, providerVars, hooks, starter, refunder, crashes>>

JobRead ==
  LET o == job.order
      start == /\ ~job.attempt.session
               /\ order[o].status = "PENDING"
               /\ order[o].expiresAt - now > StartMargin
  IN /\ job.pc = "READ"
     /\ job' = [job EXCEPT !.status = order[o].status,
                           !.pc = IF start THEN "START" ELSE "OBSERVE"]
     /\ UNCHANGED <<vars, providerVars, hooks, starter, refunder, crashes>>

(* ensureSession refuses by an exception, which ends the turn.             *)
JobStart ==
  LET o == job.order
  IN /\ job.pc = "START"
     /\ EnsurePrepared(o)
     /\ UNCHANGED providerVars
     /\ IF ~Payable(o) THEN JobEnds
        ELSE IF attempt[o].session THEN JobMoves("TAIL")
        ELSE IF HasWindow(o) THEN JobMoves("CREATE") ELSE JobEnds

JobCreate ==
  /\ job.pc = "CREATE"
  /\ CreateSession(job.order)
  /\ JobMoves("SAVE")
  /\ UNCHANGED vars

JobDenied ==
  /\ \/ job.pc = "CREATE" /\ SessionRefused(job.order)
     \/ job.pc = "REFUND" /\ RefundRefused(job.order)
  /\ JobEnds
  /\ UNCHANGED <<vars, providerVars>>

JobSave ==
  /\ job.pc = "SAVE"
  /\ SaveSession(job.order)
  /\ JobMoves(IF Payable(job.order) THEN "TAIL" ELSE "CLOSE")
  /\ UNCHANGED providerVars

JobClose ==
  /\ job.pc = "CLOSE"
  /\ Close(job.order)
  /\ JobEnds
  /\ UNCHANGED vars

JobObserve ==
  /\ job.pc = "OBSERVE"
  /\ job' = [job EXCEPT !.pc = "APPLY", !.event = Observed(job.order, job.attempt)]
  /\ UNCHANGED <<vars, providerVars, hooks, starter, refunder, crashes>>

(* A refund that was asked for and never answered is made again, unless    *)
(* what was observed says how it ended.                                    *)
JobApply ==
  /\ job.pc = "APPLY"
  /\ ApplyFact(job.event)
  /\ JobMoves(IF Retrying /\ job.event.type \notin {"REFUNDED", "REFUND_FAILED"}
              THEN "REFUND" ELSE "TAIL")
  /\ UNCHANGED providerVars

JobRefund(r, status) ==
  /\ job.pc = "REFUND"
  /\ CallRefund(job.order, r, status)
  /\ job' = [job EXCEPT !.pc = "RECORD", !.refund = r,
                        !.event = RefundFact("response", r, status)']
  /\ UNCHANGED <<vars, hooks, starter, refunder, crashes>>

JobRecord ==
  /\ job.pc = "RECORD"
  /\ SaveRefund(job.order, job.refund)
  /\ JobMoves("SETTLE")
  /\ UNCHANGED providerVars

JobSettle ==
  /\ job.pc = "SETTLE"
  /\ ApplyFact(job.event)
  /\ JobMoves("TAIL")
  /\ UNCHANGED providerVars

(* The session of an order that was cancelled is closed at the provider.   *)
JobTail ==
  /\ job.pc = "TAIL"
  /\ IF job.status = "CANCELLED" /\ job.attempt.session
     THEN Close(job.order) ELSE UNCHANGED providerVars
  /\ JobEnds
  /\ UNCHANGED vars

JobStep ==
  \/ \E o \in Order : JobTake(o)
  \/ JobRead \/ JobStart \/ JobCreate \/ JobDenied \/ JobSave
  \/ JobClose \/ JobObserve \/ JobApply \/ JobRecord \/ JobSettle \/ JobTail
  \/ \E r \in RefundId, status \in FirstStatus : JobRefund(r, status)
------------------------------------------------------------------------------
(***************************************************************************)
(* A handler dies, or a call to the provider gets no answer in time.       *)
(***************************************************************************)
Crash ==
  /\ crashes < MaxCrashes
  /\ crashes' = crashes + 1
  /\ \/ /\ \E p \in Starter : /\ starter[p].pc # "IDLE"
                              /\ starter' = [starter EXCEPT ![p] = [pc |-> "IDLE", order |-> None]]
        /\ UNCHANGED <<hooks, refunder, job>>
     \/ /\ refunder.pc # "IDLE" /\ refunder' = NoCall
        /\ UNCHANGED <<hooks, starter, job>>
     \/ /\ job.pc # "IDLE" /\ job' = NoJob
        /\ UNCHANGED <<hooks, starter, refunder>>
     \/ /\ \E e \in hooks : hooks' = hooks \ {e}
        /\ UNCHANGED <<starter, refunder, job>>
  /\ UNCHANGED <<vars, providerVars>>
------------------------------------------------------------------------------
ProviderNext ==
  \/ \E o \in Order : GuestPays(o) \/ SessionExpires(o) \/ ForgetKey(o)
  \/ \E r \in RefundId, status \in {"SUCCEEDED", "FAILED"} : RefundSettles(r, status)
  \/ \E o \in Order, r \in RefundId : PartialRefund(o, r)

HandlerNext ==
  \/ \E p \in Starter : \/ \E o \in Order : StartPrepare(p, o)
                       \/ StartCreate(p) \/ StartDenied(p)
                       \/ StartSave(p) \/ StartExpire(p)
  \/ \E o \in Order : RefundRequest(o)
  \/ \E r \in RefundId, status \in FirstStatus : RefundCall(r, status)
  \/ RefundDenied \/ RefundSave \/ RefundApply
  \/ \E n \in notices : HookVerify(n)
  \/ \E e \in hooks : HookApply(e)
  \/ JobStep
  \/ Crash

(* Stock always comes in, listings are published and repriced, and time    *)
(* passes; locations are edited if Edits says so.  Taking a listing off the*)
(* shop stops only a checkout, which module Commerce has.                  *)
OfficeMeanwhile ==
  \/ \E op \in Operation : SubmitOperation(op)
  \/ "tree" \in Edits /\ EditTree
  \/ \E i \in Item, p \in Price : EditListing(i, p)
  \/ PassTime

Meanwhile(A) == A /\ UNCHANGED <<providerVars, handlerVars>>

PaymentsNext ==
  \/ Meanwhile(ShopNext \/ OfficeMeanwhile)
  \/ ProviderNext
  \/ HandlerNext

PaymentsSpec == PaymentsInit /\ [][PaymentsNext]_paymentVars

(* The webhook answered a notice once it applied a fact it stands for; the *)
(* provider sends a notice again until then.                               *)
Answered(n) == \E id \in processed : id[1] = n[1] /\ id[2] = n[2]

(* Time passes; the maintenance job runs again and again, expires what is  *)
(* overdue and goes through its candidates in turn (updatedAt, ascending); *)
(* pending refunds settle, and the notices that can be delivered are.      *)
(* Nothing is assumed of guests, of staff or of the expiry of sessions.    *)
FairPayments ==
  /\ PaymentsSpec
  /\ WF_paymentVars(Meanwhile(PassTime))
  /\ \A o \in Order : WF_paymentVars(Meanwhile(Expire(o)))
  /\ WF_paymentVars(JobStep)
  /\ \A o \in Order : SF_paymentVars(JobTake(o))
  /\ \A r \in RefundId :
       WF_paymentVars(\E status \in {"SUCCEEDED", "FAILED"} :
                        refund[r].status = "PENDING" /\ RefundSettles(r, status))
  /\ \A n \in Delivered \X (Order \cup RefundId) :
       SF_paymentVars(~Answered(n) /\ HookVerify(n))
  /\ WF_paymentVars(\E e \in hooks : HookApply(e))
------------------------------------------------------------------------------
(***************************************************************************)
(* Properties.                                                             *)
(***************************************************************************)

(* The books follow the money: an order is confirmed only for a session    *)
(* that was paid, and written off as failed only when its session can no   *)
(* longer be, in whatever order the facts arrive; and nobody can pay a     *)
(* session the shop does not know of, for its address is given out after   *)
(* ensureSession has saved it, so a crash between its transactions loses   *)
(* no payment.                                                             *)
BooksFollowMoney ==
  \A o \in Order :
    /\ order[o].paid => session[o] = "COMPLETE"
    /\ order[o].paymentStatus = "FAILED" => session[o] = "EXPIRED"
    /\ link[o] \/ session[o] = "COMPLETE" => attempt[o].session

(* Goods and money do not both leave: once the full amount is on its way   *)
(* back, by staff or by a retry of the job, the order cannot be shipped.   *)
RefundedIsNotShippable ==
  \A r \in RefundId : refund[r].amount = Total =>
    order[refund[r].order].status \notin {"PENDING", "PAID", "PREPARING"}

(* What the books say was returned was returned: pending refunds do not    *)
(* count, and the refund and charge notices of one refund are not added up *)
(* (refundedSnapshot, the maximum kept by applyEvent).                     *)
RefundedIsCovered ==
  \A o \in Order : order[o].refunded <= Returned(o, {"SUCCEEDED", "FAILED"})

(* A payment is noticed although every notice about it is lost and guests  *)
(* never come back: reconcile asks for every session that may be paid.     *)
PaymentIsNoticed ==
  \A o \in Order : session[o] = "COMPLETE" ~> order[o].paymentStatus # "UNPAID"

(* A session the guest can reach does not stay open for an order that was  *)
(* cancelled: the job closes it, however cancellation and the start of the *)
(* payment interleave.                                                     *)
ClosedSessionCloses ==
  \A o \in Order :
    order[o].status = "CANCELLED" /\ link[o] /\ session[o] = "OPEN"
      ~> session[o] # "OPEN"

(* A refund that staff asked for is made although the request died before  *)
(* or after the call, or the answer was lost.                              *)
RefundIsMade ==
  \A o \in Order :
    attempt[o].refundRequested /\ attempt[o].refund = None
      ~> order[o].paymentStatus # "REFUND_PENDING" \/ attempt[o].refund # None
------------------------------------------------------------------------------
(***************************************************************************)
(* What docs/customer-checkout.md says, and the code does not do.          *)
(***************************************************************************)

(* "A refund failure also requires review": an order whose refund failed   *)
(* does not go on waiting for it (applyEvent drops a second report of the  *)
(* same failure, refundOrder reuses the provider's first answer).          *)
RefundFailureReviewed ==
  \A o \in Order, r \in RefundId :
    /\ order[o].paymentStatus = "REFUND_PENDING"
    /\ attempt[o].refund = r /\ refund[r].status = "FAILED"
      ~> order[o].paymentStatus # "REFUND_PENDING"

(* "Refund notifications load the current Stripe refund resource to handle *)
(* out-of-order delivery": an order does not stay refunded when nothing of *)
(* its payment was returned (the resource is read before the order lock).  *)
RefundedIsReturned ==
  \A o \in Order :
    order[o].paymentStatus = "REFUNDED" /\ Returned(o, {"PENDING", "SUCCEEDED"}) = 0
      ~> order[o].paymentStatus # "REFUNDED"

(* "Later paid events do not clear that review", said of partial refunds   *)
(* (applyEvent confirms an order under review that has no payment yet).    *)
PartialRefundStaysInReview ==
  [][\A o \in Order :
       order[o].paymentStatus = "REVIEW" /\ order[o].refunded > 0
         => order'[o].paymentStatus # "PAID"]_paymentVars
==============================================================================
