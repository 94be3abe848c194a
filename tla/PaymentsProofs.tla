---------------------------- MODULE PaymentsProofs ----------------------------
(***************************************************************************)
(* Proofs about module Payments: the handlers and the provider together    *)
(* are an implementation of module Commerce, so that what is proved there  *)
(* holds of them, and the books of the shop follow the provider's.         *)
(***************************************************************************)
EXTENDS Payments, AllocationProofs

Settled == {"SUCCEEDED", "FAILED"}
Standing == {"PENDING", "SUCCEEDED"}

(* The units of the refunds of an order, for any table of refunds.         *)
MadeIn(f) == {r \in RefundId : f[r].order # None}

Units(f, o, statuses) ==
  {u \in {r \in RefundId : f[r].order = o /\ f[r].status \in statuses} \X (1..Total) :
     u[2] <= f[u[1]].amount}

(* A fact about sessions s and refunds f is true, and what makes it true   *)
(* lasts.                                                                  *)
TrueFact(e, s, f) ==
  \/ e = NoFact
  \/ /\ e \in Event /\ ~e.foreign
     /\ e.type = "PAID" => s[e.order] = "COMPLETE"
     /\ e.type = "FAILED" => s[e.order] = "EXPIRED"
     /\ e.type = "REFUNDED" => e.amount <= Cardinality(Units(f, e.order, Settled))

FactOK(e) == TrueFact(e, session, refund)

RefundsOK ==
  /\ \A r \in RefundId :
       \/ refund[r] = NoRefund
       \/ /\ refund[r].order \in Order /\ refund[r].amount \in 1..Total
          /\ refund[r].status # "NONE"
  /\ IsFiniteSet(MadeIn(refund))
  /\ \A o \in Order : Returned(o, Standing) <= Total

(* The refund a handler or an attempt names is one of that order.          *)
RefundIsOf(r, o) == r \in RefundId /\ refund[r].order = o

CachedOK ==
  \A o \in Order : cached[o].refund # None =>
    /\ RefundIsOf(cached[o].refund, o)
    /\ cached[o].status = "SUCCEEDED" => refund[cached[o].refund].status \in Settled

NoticeOK(n) ==
  /\ n[1] = "completed" => session[n[2]] = "COMPLETE"
  /\ n[1] = "expired" => session[n[2]] = "EXPIRED"
  /\ n[1] \notin {"completed", "expired"} => refund[n[2]].order # None

NoticesOK == \A n \in notices : NoticeOK(n)

ProviderTypeOK ==
  /\ session \in [Order -> SessionStatus]
  /\ link \in [Order -> BOOLEAN]
  /\ refund \in [RefundId -> RefundRecord]
  /\ cached \in [Order -> CachedRecord]
  /\ notices \subseteq Notice

ProviderInv == ProviderTypeOK /\ RefundsOK /\ CachedOK /\ NoticesOK

(* A full refund is made only for an order whose refund was asked for, and *)
(* an order whose refund was asked for is closed or has left.              *)
AskedOK ==
  \A r \in RefundId : refund[r].amount = Total => attempt[refund[r].order].refundRequested

AskedIsClosed ==
  \A o \in Order : attempt[o].refundRequested => order[o].status \in Closed \cup Gone

KnownRefundOK ==
  \A o \in Order : attempt[o].refund # None => RefundIsOf(attempt[o].refund, o)

(* A payment is known only of an order that exists.                        *)
IntentOK == \A o \in Order : attempt[o].intent => order[o].status # "NONE"

BooksInv ==
  /\ BooksFollowMoney
  /\ RefundedIsCovered
  /\ AskedOK
  /\ AskedIsClosed
  /\ KnownRefundOK
  /\ IntentOK

HooksInv == hooks \subseteq Event /\ \A e \in hooks : FactOK(e)

StarterInv ==
  /\ starter \in [Starter -> StarterState]
  /\ \A p \in Starter : starter[p].pc # "IDLE" => starter[p].order \in Order

RefunderIs(c) ==
  /\ c \in CallState
  /\ c.pc # "IDLE" => c.order \in Order /\ attempt[c.order].refundRequested
  /\ c.pc \in {"SAVE", "APPLY"} => RefundIsOf(c.refund, c.order)
  /\ FactOK(c.event)

RefunderInv == RefunderIs(refunder)

JobIs(j) ==
  /\ j \in JobState
  /\ j.pc # "IDLE" =>
       /\ j.order \in Order
       /\ j.attempt.refund # None => RefundIsOf(j.attempt.refund, j.order)
       /\ j.attempt.refundRequested => attempt[j.order].refundRequested
  /\ j.pc = "REFUND" => j.attempt.refundRequested
  /\ j.pc \in {"RECORD", "SETTLE"} => RefundIsOf(j.refund, j.order)
  /\ FactOK(j.event)

JobInv == JobIs(job)

HandlersInv == HooksInv /\ StarterInv /\ RefunderInv /\ JobInv /\ crashes \in 0..MaxCrashes

PaymentsInv == AllocInv /\ ProviderInv /\ BooksInv /\ HandlersInv

(* What a step of anyone may do to sessions, refunds and attempts: what is *)
(* settled stays settled.                                                  *)
SessionsOnward ==
  \A o \in Order : session[o] \in {"COMPLETE", "EXPIRED"} => session'[o] = session[o]

RefundsOnward ==
  \A r \in RefundId : refund[r].order # None =>
    /\ refund'[r].order = refund[r].order
    /\ refund'[r].amount = refund[r].amount
    /\ refund[r].status \in Settled => refund'[r].status \in Settled

AttemptsOnward ==
  \A o \in Order :
    /\ attempt[o].session => attempt'[o].session
    /\ attempt[o].refundRequested => attempt'[o].refundRequested
------------------------------------------------------------------------------
(***************************************************************************)
(* The units of the refunds of an order, for any table of refunds.         *)
(***************************************************************************)
(* Finitely many refunds return finitely many units.                       *)
LEMMA ReturnsAreFinite ==
  ASSUME NEW f, IsFiniteSet(MadeIn(f)), NEW o \in Order, NEW statuses
  PROVE  /\ IsFiniteSet(Units(f, o, statuses))
         /\ Cardinality(Units(f, o, statuses)) \in Nat
<1>1. IsFiniteSet(1..Total)
  <2>1. 1 \in Int /\ Total \in Int
    BY CommerceAssumption
  <2> QED
    BY <2>1, FS_Interval
<1>2. IsFiniteSet(MadeIn(f) \X (1..Total))
  BY <1>1, FS_Product
<1>3. Units(f, o, statuses) \in SUBSET (MadeIn(f) \X (1..Total))
  BY PaymentsAssumption DEF Units, MadeIn
<1> QED
  BY <1>2, <1>3, FS_Subset, FS_CardinalityType

(* The units of one refund are as many as its amount.                      *)
LEMMA UnitsOfOne ==
  ASSUME NEW r, NEW n \in 1..Total
  PROVE  /\ IsFiniteSet({r} \X (1..n))
         /\ Cardinality({r} \X (1..n)) = n
<1>1. n \in Nat /\ 1 \in Int /\ n \in Int /\ ~(1 > n) /\ n - 1 + 1 = n /\ 1 * n = n
  BY CommerceAssumption
<1>2. IsFiniteSet(1..n) /\ Cardinality(1..n) = n
  BY <1>1, FS_Interval
<1>3. IsFiniteSet({r}) /\ Cardinality({r}) = 1
  BY FS_Singleton
<1>4. IsFiniteSet({r} \X (1..n)) /\ Cardinality({r} \X (1..n)) = Cardinality({r}) * Cardinality(1..n)
  BY <1>2, <1>3, FS_Product
<1> QED
  BY <1>1, <1>2, <1>3, <1>4

(* The units of one refund are among those of its order.                   *)
LEMMA OneIsCovered ==
  ASSUME NEW f, IsFiniteSet(MadeIn(f)), NEW o \in Order, NEW statuses,
         NEW r \in RefundId, f[r].order = o, f[r].status \in statuses, f[r].amount \in 1..Total
  PROVE  f[r].amount <= Cardinality(Units(f, o, statuses))
<1>1. {r} \X (1..f[r].amount) \in SUBSET Units(f, o, statuses)
  BY CommerceAssumption DEF Units
<1>2. Cardinality({r} \X (1..f[r].amount)) <= Cardinality(Units(f, o, statuses))
  BY <1>1, ReturnsAreFinite, FS_Subset
<1> QED
  BY <1>2, UnitsOfOne

(* More refunds of an order, or refunds in more statuses, return more.     *)
LEMMA UnitsGrow ==
  ASSUME NEW f, NEW g, IsFiniteSet(MadeIn(g)), NEW o \in Order, NEW few, NEW more,
         \A r \in RefundId : f[r].order = o /\ f[r].status \in few =>
           g[r].order = o /\ g[r].status \in more /\ g[r].amount = f[r].amount
  PROVE  Cardinality(Units(f, o, few)) <= Cardinality(Units(g, o, more))
<1>1. Units(f, o, few) \in SUBSET Units(g, o, more)
  BY DEF Units
<1> QED
  BY <1>1, ReturnsAreFinite, FS_Subset

(* Returned counts the units of the refunds as they are.                   *)
LEMMA ReturnedIsUnits ==
  ASSUME NEW o, NEW statuses
  PROVE  Returned(o, statuses) = Cardinality(Units(refund, o, statuses))
<1>1. RefundUnits(o, statuses) = Units(refund, o, statuses)
  BY DEF RefundUnits, RefundsOf, Units
<1> QED
  BY <1>1 DEF Returned

(* One more refund returns its amount at most.                             *)
LEMMA UnitsOfOneMore ==
  ASSUME NEW f, NEW g, IsFiniteSet(MadeIn(f)), NEW o \in Order, NEW statuses,
         NEW r \in RefundId, g[r].amount \in 1..Total,
         \A q \in RefundId \ {r} : g[q] = f[q]
  PROVE  Cardinality(Units(g, o, statuses))
           <= Cardinality(Units(f, o, statuses)) + g[r].amount
<1> DEFINE n == g[r].amount
           A == Units(f, o, statuses)
           B == {r} \X (1..n)
           C == Units(g, o, statuses)
<1>1. n \in Nat /\ n \in 1..Total
  BY CommerceAssumption
<1>2. IsFiniteSet(B) /\ Cardinality(B) = n
  BY UnitsOfOne
<1>3. IsFiniteSet(A) /\ Cardinality(A) \in Nat
  BY ReturnsAreFinite
<1>4. C \in SUBSET (A \cup B)
  <2> SUFFICES ASSUME NEW u \in C PROVE u \in A \cup B
    OBVIOUS
  <2>1. /\ u[1] \in RefundId /\ u[2] \in 1..Total /\ u = <<u[1], u[2]>>
        /\ g[u[1]].order = o /\ g[u[1]].status \in statuses /\ u[2] <= g[u[1]].amount
    BY DEF Units
  <2>2. CASE u[1] = r
    <3>1. u[2] \in 1..n
      BY <1>1, <2>1, <2>2
    <3> QED
      BY <2>1, <2>2, <3>1
  <2>3. CASE u[1] # r
    <3>1. g[u[1]] = f[u[1]]
      BY <2>1, <2>3
    <3>2. u \in A
      BY <2>1, <3>1 DEF Units
    <3> QED
      BY <3>2
  <2> QED
    BY <2>2, <2>3
<1> HIDE DEF n, A, B, C
<1>5. /\ IsFiniteSet(A \cup B)
      /\ Cardinality(A \cup B) = Cardinality(A) + Cardinality(B) - Cardinality(A \cap B)
  BY <1>2, <1>3, FS_Union
<1>6. Cardinality(A \cap B) \in Nat
  <2>1. A \cap B \in SUBSET A
    OBVIOUS
  <2> QED
    BY <1>3, <2>1, FS_Subset, FS_CardinalityType
<1>7. IsFiniteSet(C) /\ Cardinality(C) <= Cardinality(A \cup B)
  BY <1>4, <1>5, FS_Subset
<1>8. Cardinality(C) \in Nat /\ Cardinality(A \cup B) \in Nat
  BY <1>5, <1>7, FS_CardinalityType
<1>9. Cardinality(C) <= Cardinality(A) + n
  BY <1>1, <1>2, <1>3, <1>5, <1>6, <1>7, <1>8
<1> QED
  BY <1>9 DEF n, A, C
------------------------------------------------------------------------------
(***************************************************************************)
(* The facts the provider states are true.                                 *)
(***************************************************************************)

(* A fact about a session is true when the session is in that status.      *)
LEMMA SessionFactIsTrue ==
  ASSUME NEW s, NEW f, NEW o \in Order, NEW status,
         NEW kind \in {"completed", "expired", "reconcile.session"},
         status \in {"COMPLETE", "EXPIRED"} => s[o] = status
  PROVE  TrueFact(SessionFact(kind, o, status), s, f)
<1> DEFINE id == <<kind, o, status, 0>>
<1>1. Total \in Amount
  BY PaymentsAssumption, CommerceAssumption
<1>2. status \in {"COMPLETE", "EXPIRED"} => id \in EventId
  BY PaymentsAssumption DEF FactIds
<1> HIDE DEF id
<1>3. CASE status = "COMPLETE"
  <2>1. SessionFact(kind, o, status) =
          [id |-> id, order |-> o, type |-> "PAID", amount |-> Total, foreign |-> FALSE,
           intent |-> TRUE]
    BY <1>3 DEF SessionFact, Fact, id
  <2>2. SessionFact(kind, o, status) \in Event
    <3>1. id \in EventId
      BY <1>2, <1>3
    <3> QED
      BY <1>1, <2>1, <3>1 DEF Event, EventType
  <2> QED
    BY <1>3, <2>1, <2>2 DEF TrueFact
<1>4. CASE status = "EXPIRED"
  <2>1. SessionFact(kind, o, status) =
          [id |-> id, order |-> o, type |-> "FAILED", amount |-> Total, foreign |-> FALSE,
           intent |-> FALSE]
    BY <1>4 DEF SessionFact, Fact, id
  <2>2. SessionFact(kind, o, status) \in Event
    <3>1. id \in EventId
      BY <1>2, <1>4
    <3> QED
      BY <1>1, <2>1, <3>1 DEF Event, EventType
  <2> QED
    BY <1>4, <2>1, <2>2 DEF TrueFact
<1>5. CASE status \notin {"COMPLETE", "EXPIRED"}
  BY <1>5 DEF SessionFact, TrueFact
<1> QED
  BY <1>3, <1>4, <1>5

(* A fact about one refund, in a table f of refunds.                       *)
RefundFactIn(f, kind, r, status) ==
  LET type == IF status = "SUCCEEDED" THEN "REFUNDED" ELSE "REFUND_FAILED"
  IN IF status = "PENDING" THEN NoFact
     ELSE Fact(<<kind, r, status, 0>>, f[r].order, type, f[r].amount, TRUE)

(* It is true once the refund has settled.                                 *)
LEMMA RefundFactIsTrue ==
  ASSUME NEW s, NEW f, IsFiniteSet(MadeIn(f)), NEW r \in RefundId,
         f[r].order \in Order, f[r].amount \in 1..Total,
         NEW status \in {"PENDING", "SUCCEEDED", "FAILED"},
         status = "SUCCEEDED" => f[r].status \in Settled,
         NEW kind \in {"refund.created", "refund.succeeded", "refund.failed",
                       "reconcile.refund", "response"}
  PROVE  TrueFact(RefundFactIn(f, kind, r, status), s, f)
<1> DEFINE id == <<kind, r, status, 0>>
           type == IF status = "SUCCEEDED" THEN "REFUNDED" ELSE "REFUND_FAILED"
           e == RefundFactIn(f, kind, r, status)
<1>1. CASE status = "PENDING"
  BY <1>1 DEF RefundFactIn, TrueFact
<1>2. CASE status # "PENDING"
  <2>1. e = [id |-> id, order |-> f[r].order, type |-> type, amount |-> f[r].amount,
             foreign |-> FALSE, intent |-> TRUE]
    BY <1>2 DEF RefundFactIn, Fact
  <2>2. id \in EventId
    BY <1>2, PaymentsAssumption DEF FactIds
  <2>3. f[r].amount \in Amount
    BY PaymentsAssumption
  <2>4. type \in EventType
    BY DEF EventType
  <2> HIDE DEF id
  <2>5. e \in Event
    BY <2>1, <2>2, <2>3, <2>4 DEF Event
  <2>6. e.type = "REFUNDED" => e.amount <= Cardinality(Units(f, e.order, Settled))
    BY <2>1, OneIsCovered
  <2>7. ~e.foreign /\ e.type # "PAID" /\ e.type # "FAILED"
    BY <2>1
  <2> HIDE DEF e
  <2>8. TrueFact(e, s, f)
    BY <2>5, <2>6, <2>7 DEF TrueFact
  <2> QED
    BY <2>8 DEF e
<1> QED
  BY <1>1, <1>2

(* The sum of the refunds that succeeded is true for ever.                 *)
LEMMA SumFactIsTrue ==
  ASSUME RefundsOK, NEW o \in Order, NEW subject \in RefundId \cup Order,
         NEW kind \in {"charge.refunded", "reconcile.sum"}
  PROVE  FactOK(SumFact(kind, subject, o))
<1> DEFINE sum == Returned(o, {"SUCCEEDED"})
           id == <<kind, subject, "SUM", sum>>
           e == SumFact(kind, subject, o)
<1>1. sum = Cardinality(Units(refund, o, {"SUCCEEDED"}))
  BY ReturnedIsUnits
<1>2. IsFiniteSet(MadeIn(refund))
  BY DEF RefundsOK
<1>3. sum <= Cardinality(Units(refund, o, Settled)) /\ sum <= Cardinality(Units(refund, o, Standing))
  BY <1>1, <1>2, UnitsGrow DEF Settled, Standing
<1>4. Cardinality(Units(refund, o, Standing)) <= Total
  BY ReturnedIsUnits DEF RefundsOK
<1>5. sum \in Nat /\ Cardinality(Units(refund, o, Standing)) \in Nat
  BY <1>1, <1>2, ReturnsAreFinite
<1> HIDE DEF sum
<1>6. CASE sum = 0
  BY <1>6 DEF SumFact, FactOK, TrueFact, sum
<1>7. CASE sum # 0
  <2>1. sum \in 1..Total
    BY <1>3, <1>4, <1>5, <1>7, CommerceAssumption
  <2>2. id \in EventId /\ sum \in Amount
    BY <2>1, PaymentsAssumption DEF FactIds
  <2> HIDE DEF id
  <2>3. e = [id |-> id, order |-> o, type |-> "REFUNDED", amount |-> sum,
             foreign |-> FALSE, intent |-> TRUE]
    BY <1>7 DEF SumFact, Fact, sum, id
  <2>4. e \in Event
    BY <2>2, <2>3 DEF Event, EventType
  <2> QED
    BY <1>3, <2>3, <2>4 DEF FactOK, TrueFact
<1> QED
  BY <1>6, <1>7
------------------------------------------------------------------------------
(***************************************************************************)
(* What the provider does to its sessions and refunds.                     *)
(***************************************************************************)

(* A notice is about a session of an order or about a refund.              *)
LEMMA NoticeParts ==
  ASSUME NEW n \in Notice
  PROVE  /\ n[1] \in {"completed", "expired"} => n[2] \in Order
         /\ n[1] \notin {"completed", "expired"} =>
              n[2] \in RefundId
                /\ n[1] \in {"refund.created", "refund.succeeded", "refund.failed",
                             "charge.refunded"}
  BY DEF Notice

(* What the notices say lasts.                                             *)
LEMMA NoticesLast ==
  ASSUME NoticesOK, notices \subseteq Notice, SessionsOnward, RefundsOnward, NEW n \in notices
  PROVE  NoticeOK(n)'
<1>1. NoticeOK(n) /\ n \in Notice
  BY DEF NoticesOK
<1>2. n[1] = "completed" => n[2] \in Order /\ session'[n[2]] = session[n[2]]
  BY <1>1, NoticeParts DEF NoticeOK, SessionsOnward
<1>3. n[1] = "expired" => n[2] \in Order /\ session'[n[2]] = session[n[2]]
  BY <1>1, NoticeParts DEF NoticeOK, SessionsOnward
<1>4. n[1] \notin {"completed", "expired"} =>
        n[2] \in RefundId /\ refund'[n[2]].order = refund[n[2]].order
  BY <1>1, NoticeParts DEF NoticeOK, RefundsOnward
<1> QED
  BY <1>1, <1>2, <1>3, <1>4 DEF NoticeOK

(* What is true stays true.                                                *)
LEMMA FactsLast ==
  ASSUME ProviderInv, RefundsOK', SessionsOnward, RefundsOnward, NEW e, FactOK(e)
  PROVE  TrueFact(e, session', refund')
<1>1. CASE e = NoFact
  BY <1>1 DEF TrueFact
<1>2. CASE e # NoFact
  <2>1. /\ e \in Event /\ ~e.foreign /\ e.order \in Order /\ e.amount \in Nat
        /\ e.type = "PAID" => session[e.order] = "COMPLETE"
        /\ e.type = "FAILED" => session[e.order] = "EXPIRED"
        /\ e.type = "REFUNDED" => e.amount <= Cardinality(Units(refund, e.order, Settled))
    BY <1>2, CommerceAssumption DEF FactOK, TrueFact, Event
  <2>2. IsFiniteSet(MadeIn(refund)) /\ IsFiniteSet(MadeIn(refund'))
    BY DEF ProviderInv, RefundsOK
  <2>3. \A r \in RefundId : refund[r].order = e.order /\ refund[r].status \in Settled =>
          /\ refund'[r].order = e.order /\ refund'[r].status \in Settled
          /\ refund'[r].amount = refund[r].amount
    BY <2>1, PaymentsAssumption DEF RefundsOnward
  <2>4. Cardinality(Units(refund, e.order, Settled)) <= Cardinality(Units(refund', e.order, Settled))
    BY <2>1, <2>2, <2>3, UnitsGrow
  <2>5. /\ Cardinality(Units(refund, e.order, Settled)) \in Nat
        /\ Cardinality(Units(refund', e.order, Settled)) \in Nat
    BY <2>1, <2>2, ReturnsAreFinite
  <2>6. e.type = "REFUNDED" => e.amount <= Cardinality(Units(refund', e.order, Settled))
    BY <2>1, <2>4, <2>5
  <2>7. /\ e.type = "PAID" => session'[e.order] = "COMPLETE"
        /\ e.type = "FAILED" => session'[e.order] = "EXPIRED"
    BY <2>1 DEF SessionsOnward
  <2> QED
    BY <2>1, <2>6, <2>7 DEF TrueFact
<1> QED
  BY <1>1, <1>2

(* Steps that give out an address, at most.                                *)
LEMMA ProviderStays ==
  ASSUME ProviderInv, UNCHANGED <<session, refund, cached, notices>>,
         link' \in [Order -> BOOLEAN]
  PROVE  ProviderInv' /\ SessionsOnward /\ RefundsOnward
<1>1. ProviderTypeOK' /\ SessionsOnward /\ RefundsOnward
  BY DEF ProviderInv, ProviderTypeOK, SessionsOnward, RefundsOnward
<1>2. RefundsOK'
  BY DEF ProviderInv, RefundsOK, MadeIn, Returned, RefundUnits, RefundsOf
<1>3. CachedOK' /\ NoticesOK'
  BY DEF ProviderInv, CachedOK, RefundIsOf, NoticesOK, NoticeOK
<1> QED
  BY <1>1, <1>2, <1>3 DEF ProviderInv

(* A session moves, its refunds do not.                                    *)
LEMMA SessionMoves ==
  ASSUME ProviderInv, session' \in [Order -> SessionStatus], SessionsOnward,
         notices' \subseteq Notice, \A n \in notices' \ notices : NoticeOK(n)',
         UNCHANGED <<link, refund, cached>>
  PROVE  ProviderInv' /\ RefundsOnward
<1>1. ProviderTypeOK' /\ RefundsOnward
  BY DEF ProviderInv, ProviderTypeOK, RefundsOnward
<1>2. RefundsOK' /\ CachedOK'
  BY DEF ProviderInv, RefundsOK, MadeIn, Returned, RefundUnits, RefundsOf, CachedOK, RefundIsOf
<1>3. \A n \in notices : NoticeOK(n)'
  BY <1>1, NoticesLast DEF ProviderInv, ProviderTypeOK
<1>4. NoticesOK'
  BY <1>3 DEF NoticesOK
<1> QED
  BY <1>1, <1>2, <1>4 DEF ProviderInv

(* Closing a session.                                                      *)
LEMMA CloseMoves ==
  ASSUME ProviderInv, NEW o \in Order, Close(o)
  PROVE  /\ ProviderInv' /\ SessionsOnward /\ RefundsOnward
         /\ \A p \in Order : session'[p] = "COMPLETE" => session[p] = "COMPLETE"
         /\ UNCHANGED <<link, refund>>
<1>1. session \in [Order -> SessionStatus] /\ notices \subseteq Notice
  BY DEF ProviderInv, ProviderTypeOK
<1>2. /\ session' \in [Order -> SessionStatus] /\ SessionsOnward
      /\ \A p \in Order : session'[p] = "COMPLETE" => session[p] = "COMPLETE"
      /\ session[o] = "OPEN" => session'[o] = "EXPIRED"
      /\ UNCHANGED <<link, refund, cached>>
  BY <1>1 DEF Close, SessionStatus, SessionsOnward
<1>3. <<"expired", o>> \in Notice
  BY DEF Notice
<1>4. notices' \subseteq Notice
  BY <1>1, <1>3 DEF Close
<1>5. ASSUME NEW n \in notices' \ notices PROVE NoticeOK(n)'
  <2>1. n = <<"expired", o>> /\ session[o] = "OPEN"
    BY <1>5 DEF Close
  <2>2. n[1] = "expired" /\ n[2] = o /\ session'[o] = "EXPIRED"
    BY <1>2, <2>1
  <2> QED
    BY <2>2 DEF NoticeOK
<1> QED
  BY <1>2, <1>4, <1>5, SessionMoves

(* Creating a session.                                                     *)
LEMMA CreateMoves ==
  ASSUME ProviderInv, NEW o \in Order, CreateSession(o)
  PROVE  /\ ProviderInv' /\ SessionsOnward /\ RefundsOnward
         /\ \A p \in Order : session'[p] = "COMPLETE" => session[p] = "COMPLETE"
         /\ UNCHANGED <<link, refund>>
<1>1. session \in [Order -> SessionStatus] /\ notices \subseteq Notice
  BY DEF ProviderInv, ProviderTypeOK
<1>2. /\ session' \in [Order -> SessionStatus] /\ SessionsOnward
      /\ \A p \in Order : session'[p] = "COMPLETE" => session[p] = "COMPLETE"
      /\ UNCHANGED <<link, refund, cached, notices>>
  BY <1>1 DEF CreateSession, SessionStatus, SessionsOnward
<1> QED
  BY <1>1, <1>2, SessionMoves

(* The guest pays.                                                         *)
LEMMA PayMoves ==
  ASSUME ProviderInv, NEW o \in Order, GuestPays(o)
  PROVE  /\ ProviderInv' /\ SessionsOnward /\ RefundsOnward
         /\ \A p \in Order : session'[p] = "COMPLETE" => session[p] = "COMPLETE" \/ link[p]
         /\ UNCHANGED <<link, refund>>
<1>1. session \in [Order -> SessionStatus] /\ notices \subseteq Notice
  BY DEF ProviderInv, ProviderTypeOK
<1>2. /\ session' \in [Order -> SessionStatus] /\ SessionsOnward
      /\ \A p \in Order : session'[p] = "COMPLETE" => session[p] = "COMPLETE" \/ link[p]
      /\ session'[o] = "COMPLETE"
      /\ UNCHANGED <<link, refund, cached>>
  BY <1>1 DEF GuestPays, SessionStatus, SessionsOnward
<1>3. <<"completed", o>> \in Notice
  BY DEF Notice
<1>4. notices' \subseteq Notice
  BY <1>1, <1>3 DEF GuestPays
<1>5. ASSUME NEW n \in notices' \ notices PROVE NoticeOK(n)'
  <2>1. n = <<"completed", o>>
    BY <1>5 DEF GuestPays
  <2>2. n[1] = "completed" /\ n[2] = o
    BY <2>1
  <2> QED
    BY <1>2, <2>2 DEF NoticeOK
<1> QED
  BY <1>2, <1>4, <1>5, SessionMoves

(* One refund is made or moves.                                            *)
LEMMA RefundMovesOn ==
  ASSUME ProviderInv, NEW r \in RefundId, refund' \in [RefundId -> RefundRecord],
         \A q \in RefundId \ {r} : refund'[q] = refund[q],
         refund'[r].order \in Order, refund'[r].amount \in 1..Total,
         refund'[r].status # "NONE", RefundsOnward,
         \A o \in Order : Cardinality(Units(refund', o, Standing)) <= Total,
         \A n \in notices' \ notices :
           n \in Notice /\ n[2] = r /\ n[1] \notin {"completed", "expired"},
         cached' \in [Order -> CachedRecord], CachedOK', UNCHANGED <<session, link>>
  PROVE  ProviderInv' /\ SessionsOnward
<1>1. ProviderTypeOK' /\ SessionsOnward
  BY DEF ProviderInv, ProviderTypeOK, SessionsOnward
<1>2. RefundsOK'
  <2>1. IsFiniteSet(MadeIn(refund) \cup {r})
    BY FS_AddElement DEF ProviderInv, RefundsOK
  <2>2. MadeIn(refund') \in SUBSET (MadeIn(refund) \cup {r})
    BY DEF MadeIn
  <2>3. IsFiniteSet(MadeIn(refund'))
    BY <2>1, <2>2, FS_Subset
  <2>4. \A q \in RefundId :
          \/ refund'[q] = NoRefund
          \/ /\ refund'[q].order \in Order /\ refund'[q].amount \in 1..Total
             /\ refund'[q].status # "NONE"
    BY DEF ProviderInv, RefundsOK
  <2>5. ASSUME NEW o \in Order PROVE Returned(o, Standing)' <= Total
    <3>1. RefundUnits(o, Standing)' = Units(refund', o, Standing)
      BY DEF RefundUnits, RefundsOf, Units
    <3> QED
      BY <3>1 DEF Returned
  <2> QED
    BY <2>3, <2>4, <2>5 DEF RefundsOK
<1>3. ASSUME NEW n \in notices' PROVE NoticeOK(n)'
  <2>1. CASE n \in notices
    BY <1>1, <2>1, NoticesLast DEF ProviderInv, ProviderTypeOK
  <2>2. CASE n \notin notices
    <3>1. n[2] = r /\ n[1] \notin {"completed", "expired"}
      BY <2>2
    <3> QED
      BY <3>1, PaymentsAssumption DEF NoticeOK
  <2> QED
    BY <2>1, <2>2
<1>4. NoticesOK'
  BY <1>3 DEF NoticesOK
<1> QED
  BY <1>1, <1>2, <1>4 DEF ProviderInv

(* A new refund never takes a payment beyond what was paid.                *)
LEMMA NewRefundFits ==
  ASSUME ProviderInv, NEW o \in Order, NEW r \in RefundId, NEW amount \in 1..Total,
         NEW status \in Standing, MakeRefund(o, r, amount, status)
  PROVE  /\ refund' \in [RefundId -> RefundRecord]
         /\ refund[r] = NoRefund
         /\ refund'[r] = [order |-> o, status |-> status, amount |-> amount]
         /\ \A q \in RefundId \ {r} : refund'[q] = refund[q]
         /\ RefundsOnward
         /\ \A p \in Order : Cardinality(Units(refund', p, Standing)) <= Total
         /\ \A n \in notices' \ notices :
              n \in Notice /\ n[2] = r /\ n[1] \notin {"completed", "expired"}
         /\ UNCHANGED <<session, link>>
<1>1. refund \in [RefundId -> RefundRecord] /\ RefundsOK /\ IsFiniteSet(MadeIn(refund))
  BY DEF ProviderInv, ProviderTypeOK, RefundsOK
<1>2. [order |-> o, status |-> status, amount |-> amount] \in RefundRecord
  BY CommerceAssumption DEF RefundRecord, RefundStatus, Standing
<1>3. /\ refund' \in [RefundId -> RefundRecord]
      /\ refund[r] = NoRefund
      /\ refund'[r] = [order |-> o, status |-> status, amount |-> amount]
      /\ \A q \in RefundId \ {r} : refund'[q] = refund[q]
      /\ UNCHANGED <<session, link>>
  BY <1>1, <1>2 DEF MakeRefund
<1>4. RefundsOnward
  BY <1>3 DEF RefundsOnward, NoRefund
<1>5. refund'[r].amount = amount /\ refund'[r].order = o
  BY <1>3
<1>6. ASSUME NEW p \in Order PROVE Cardinality(Units(refund', p, Standing)) <= Total
  <2>1. /\ Cardinality(Units(refund, p, Standing)) \in Nat
        /\ Cardinality(Units(refund, p, Standing)) <= Total
    BY <1>1, ReturnsAreFinite, ReturnedIsUnits DEF RefundsOK
  <2>2. Cardinality(Units(refund', p, Standing)) \in Nat /\ amount \in Nat /\ Total \in Nat
    <3>1. MadeIn(refund') \in SUBSET (MadeIn(refund) \cup {r})
      BY <1>3 DEF MadeIn
    <3>2. IsFiniteSet(MadeIn(refund'))
      BY <1>1, <3>1, FS_AddElement, FS_Subset
    <3> QED
      BY <3>2, ReturnsAreFinite, CommerceAssumption
  <2>3. CASE p = o
    <3>1. Cardinality(Units(refund', o, Standing)) <= Cardinality(Units(refund, o, Standing)) + amount
      BY <1>1, <1>3, <1>5, UnitsOfOneMore
    <3>2. Returned(o, Standing) + amount <= Total
      BY DEF MakeRefund, Standing
    <3>3. Cardinality(Units(refund, o, Standing)) + amount <= Total
      BY <3>2, ReturnedIsUnits
    <3> QED
      BY <2>1, <2>2, <2>3, <3>1, <3>3
  <2>4. CASE p # o
    <3>1. \A q \in RefundId : refund'[q].order = p /\ refund'[q].status \in Standing =>
            /\ refund[q].order = p /\ refund[q].status \in Standing
            /\ refund[q].amount = refund'[q].amount
      BY <1>3, <1>5, <2>4
    <3>2. Cardinality(Units(refund', p, Standing)) <= Cardinality(Units(refund, p, Standing))
      BY <1>1, <3>1, UnitsGrow
    <3> QED
      BY <2>1, <2>2, <3>2
  <2> QED
    BY <2>3, <2>4
<1>7. ASSUME NEW n \in notices' \ notices
      PROVE  n \in Notice /\ n[2] = r /\ n[1] \notin {"completed", "expired"}
  <2>1. n = <<"refund.created", r>> \/ n = <<"charge.refunded", r>>
    BY <1>7 DEF MakeRefund
  <2> QED
    BY <2>1 DEF Notice
<1> QED
  BY <1>3, <1>4, <1>6, <1>7

(* A person returns a part of the payment.                                 *)
LEMMA PartialMoves ==
  ASSUME ProviderInv, NEW o \in Order, NEW r \in RefundId, PartialRefund(o, r)
  PROVE  /\ ProviderInv' /\ SessionsOnward /\ RefundsOnward
         /\ \A q \in RefundId : refund'[q].amount = Total => refund'[q] = refund[q]
         /\ UNCHANGED <<session, link>>
<1>1. 1 \in 1..Total /\ 1 # Total /\ "SUCCEEDED" \in Standing
  BY CommerceAssumption, PaymentsAssumption DEF Standing
<1>2. /\ MakeRefund(o, r, 1, "SUCCEEDED") /\ cached' = cached
  BY DEF PartialRefund
<1>3. /\ refund' \in [RefundId -> RefundRecord]
      /\ refund[r] = NoRefund
      /\ refund'[r] = [order |-> o, status |-> "SUCCEEDED", amount |-> 1]
      /\ \A q \in RefundId \ {r} : refund'[q] = refund[q]
      /\ RefundsOnward
      /\ \A p \in Order : Cardinality(Units(refund', p, Standing)) <= Total
      /\ \A n \in notices' \ notices :
           n \in Notice /\ n[2] = r /\ n[1] \notin {"completed", "expired"}
      /\ UNCHANGED <<session, link>>
  BY <1>1, <1>2, NewRefundFits
<1>4. /\ refund'[r].order \in Order /\ refund'[r].amount \in 1..Total
      /\ refund'[r].amount # Total /\ refund'[r].status # "NONE"
  BY <1>1, <1>3
<1>5. cached' \in [Order -> CachedRecord]
  BY <1>2 DEF ProviderInv, ProviderTypeOK
<1>6. CachedOK'
  BY <1>2, <1>3, PaymentsAssumption DEF ProviderInv, CachedOK, RefundIsOf, RefundsOnward
<1>7. ProviderInv' /\ SessionsOnward
  BY <1>3, <1>4, <1>5, <1>6, RefundMovesOn
<1> QED
  BY <1>3, <1>4, <1>7

(* A refund settles, or is returned by the bank.                           *)
LEMMA SettleMoves ==
  ASSUME ProviderInv, NEW r \in RefundId, NEW status \in Settled, RefundSettles(r, status)
  PROVE  /\ ProviderInv' /\ SessionsOnward /\ RefundsOnward
         /\ \A q \in RefundId :
              refund'[q].amount = refund[q].amount /\ refund'[q].order = refund[q].order
         /\ UNCHANGED <<session, link>>
<1>1. refund \in [RefundId -> RefundRecord] /\ RefundsOK /\ IsFiniteSet(MadeIn(refund))
  BY DEF ProviderInv, ProviderTypeOK, RefundsOK
<1>2. /\ refund[r].status \in Standing
      /\ status \in Standing => refund[r].status = "PENDING"
      /\ refund' = [refund EXCEPT ![r].status = status]
      /\ cached' = cached
      /\ UNCHANGED <<session, link>>
  BY DEF RefundSettles, Standing, Settled
<1>3. PICK new \in RefundRecord :
        /\ new = [refund[r] EXCEPT !.status = status]
        /\ new.status = status /\ new.order = refund[r].order /\ new.amount = refund[r].amount
  <2>1. refund[r] \in RefundRecord
    BY <1>1
  <2>2. ASSUME NEW row \in RefundRecord
        PROVE  LET new == [row EXCEPT !.status = status]
               IN /\ new \in RefundRecord /\ new.status = status
                  /\ new.order = row.order /\ new.amount = row.amount
    BY DEF RefundRecord, RefundStatus, Settled
  <2> QED
    BY <2>1, <2>2
<1>4. refund' = [refund EXCEPT ![r] = new]
  BY <1>1, <1>2, <1>3
<1>5. /\ refund' \in [RefundId -> RefundRecord] /\ refund'[r] = new
      /\ \A q \in RefundId \ {r} : refund'[q] = refund[q]
  BY <1>1, <1>4
<1>6. refund[r].order \in Order /\ refund[r].amount \in 1..Total
  BY <1>1, <1>2 DEF RefundsOK, NoRefund, Standing
<1>7. /\ refund'[r].order \in Order /\ refund'[r].amount \in 1..Total
      /\ refund'[r].status # "NONE"
  BY <1>3, <1>5, <1>6 DEF Settled
<1>8. \A q \in RefundId :
        refund'[q].amount = refund[q].amount /\ refund'[q].order = refund[q].order
  BY <1>3, <1>5
<1>9. RefundsOnward
  BY <1>3, <1>5 DEF RefundsOnward
<1>10. ASSUME NEW p \in Order PROVE Cardinality(Units(refund', p, Standing)) <= Total
  <2>1. \A q \in RefundId : refund'[q].order = p /\ refund'[q].status \in Standing =>
            /\ refund[q].order = p /\ refund[q].status \in Standing
            /\ refund[q].amount = refund'[q].amount
    BY <1>2, <1>3, <1>5, <1>8
  <2>2. Cardinality(Units(refund', p, Standing)) <= Cardinality(Units(refund, p, Standing))
    BY <1>1, <2>1, UnitsGrow
  <2>3. MadeIn(refund') = MadeIn(refund)
    BY <1>8 DEF MadeIn
  <2>4. /\ Cardinality(Units(refund', p, Standing)) \in Nat
        /\ Cardinality(Units(refund, p, Standing)) \in Nat
        /\ Cardinality(Units(refund, p, Standing)) <= Total
    BY <1>1, <2>3, ReturnsAreFinite, ReturnedIsUnits DEF RefundsOK
  <2> QED
    BY <2>2, <2>4, CommerceAssumption
<1>11. ASSUME NEW n \in notices' \ notices
       PROVE  n \in Notice /\ n[2] = r /\ n[1] \notin {"completed", "expired"}
  <2>1. n = <<"refund.failed", r>> \/ n = <<"refund.succeeded", r>>
    BY <1>11 DEF RefundSettles
  <2> QED
    BY <2>1 DEF Notice
<1>12. cached' \in [Order -> CachedRecord]
  BY <1>2 DEF ProviderInv, ProviderTypeOK
<1>13. CachedOK'
  BY <1>2, <1>9, <1>8, PaymentsAssumption DEF ProviderInv, CachedOK, RefundIsOf, RefundsOnward
<1>14. ProviderInv' /\ SessionsOnward
  BY <1>2, <1>5, <1>7, <1>9, <1>10, <1>11, <1>12, <1>13, RefundMovesOn
<1> QED
  BY <1>2, <1>8, <1>9, <1>14

(* The provider forgets an answer.                                         *)
LEMMA ForgetMoves ==
  ASSUME ProviderInv, NEW o \in Order, ForgetKey(o)
  PROVE  /\ ProviderInv' /\ SessionsOnward /\ RefundsOnward
         /\ UNCHANGED <<session, link, refund>>
<1>1. /\ cached' = [cached EXCEPT ![o] = [refund |-> None, status |-> "NONE"]]
      /\ UNCHANGED <<session, link, refund, notices>>
  BY DEF ForgetKey
<1>2. [refund |-> None, status |-> "NONE"] \in CachedRecord
  BY DEF CachedRecord
<1>3. ProviderTypeOK' /\ SessionsOnward /\ RefundsOnward
  BY <1>1, <1>2 DEF ProviderInv, ProviderTypeOK, SessionsOnward, RefundsOnward
<1>4. RefundsOK' /\ NoticesOK'
  BY <1>1 DEF ProviderInv, RefundsOK, MadeIn, Returned, RefundUnits, RefundsOf, NoticesOK, NoticeOK
<1>5. CachedOK'
  BY <1>1 DEF ProviderInv, ProviderTypeOK, CachedOK, RefundIsOf
<1> QED
  BY <1>1, <1>3, <1>4, <1>5 DEF ProviderInv

(* The call that returns the whole payment: a new refund, or the answer    *)
(* the provider gave before.  What the handler then applies is true.       *)
LEMMA CallMoves ==
  ASSUME ProviderInv, NEW o \in Order, NEW r \in RefundId, NEW status \in FirstStatus,
         CallRefund(o, r, status)
  PROVE  /\ ProviderInv' /\ SessionsOnward /\ RefundsOnward
         /\ RefundIsOf(r, o)'
         /\ TrueFact(RefundFact("response", r, status)', session', refund')
         /\ \A q \in RefundId : refund'[q] = refund[q] \/ refund'[q].order = o
         /\ UNCHANGED <<session, link>>
<1> DEFINE Goal == /\ ProviderInv' /\ SessionsOnward /\ RefundsOnward
                   /\ refund'[r].order = o
                   /\ status = "SUCCEEDED" => refund'[r].status \in Settled
                   /\ \A q \in RefundId : refund'[q] = refund[q] \/ refund'[q].order = o
                   /\ UNCHANGED <<session, link>>
<1>1. status \in {"PENDING", "SUCCEEDED"} /\ status \in Standing /\ r # None
  BY PaymentsAssumption, CommerceAssumption DEF Standing
<1>2. ASSUME cached[o] = [refund |-> r, status |-> status], UNCHANGED providerVars
      PROVE  Goal
  <2>1. UNCHANGED <<session, link, refund, cached, notices>>
    BY <1>2 DEF providerVars
  <2>2. ProviderInv' /\ SessionsOnward /\ RefundsOnward
    BY <2>1, ProviderStays DEF ProviderInv, ProviderTypeOK
  <2>3. cached[o].refund = r /\ cached[o].status = status
    BY <1>2
  <2>4. refund[r].order = o /\ (status = "SUCCEEDED" => refund[r].status \in Settled)
    BY <1>1, <2>3 DEF ProviderInv, CachedOK, RefundIsOf
  <2> QED
    BY <2>1, <2>2, <2>4
<1>3. ASSUME cached[o].refund = None,
             MakeRefund(o, r, Total, status),
             cached' = [cached EXCEPT ![o] = [refund |-> r, status |-> status]]
      PROVE  Goal
  <2>1. Total \in 1..Total
    BY CommerceAssumption
  <2>2. /\ refund' \in [RefundId -> RefundRecord]
        /\ refund[r] = NoRefund
        /\ refund'[r] = [order |-> o, status |-> status, amount |-> Total]
        /\ \A q \in RefundId \ {r} : refund'[q] = refund[q]
        /\ RefundsOnward
        /\ \A p \in Order : Cardinality(Units(refund', p, Standing)) <= Total
        /\ \A n \in notices' \ notices :
             n \in Notice /\ n[2] = r /\ n[1] \notin {"completed", "expired"}
        /\ UNCHANGED <<session, link>>
    BY <1>1, <1>3, <2>1, NewRefundFits
  <2>3. /\ refund'[r].order = o /\ refund'[r].amount \in 1..Total
        /\ refund'[r].status # "NONE"
        /\ status = "SUCCEEDED" => refund'[r].status \in Settled
    BY <1>1, <2>1, <2>2 DEF Settled
  <2>4. [refund |-> r, status |-> status] \in CachedRecord
    BY <1>1 DEF CachedRecord
  <2>5. cached \in [Order -> CachedRecord]
    BY DEF ProviderInv, ProviderTypeOK
  <2>6. /\ cached' \in [Order -> CachedRecord]
        /\ cached'[o].refund = r /\ cached'[o].status = status
        /\ \A p \in Order \ {o} : cached'[p] = cached[p]
    BY <1>3, <2>4, <2>5
  <2>7. CachedOK'
    BY <2>2, <2>3, <2>6, PaymentsAssumption
       DEF ProviderInv, CachedOK, RefundIsOf, RefundsOnward
  <2>8. ProviderInv' /\ SessionsOnward
    BY <2>2, <2>3, <2>6, <2>7, RefundMovesOn
  <2> QED
    BY <2>2, <2>3, <2>8
<1>4. Goal
  BY <1>2, <1>3 DEF CallRefund
<1>5. /\ IsFiniteSet(MadeIn(refund')) /\ refund'[r].order \in Order
      /\ refund'[r].amount \in 1..Total
  BY <1>4, PaymentsAssumption DEF ProviderInv, RefundsOK, NoRefund
<1>6. TrueFact(RefundFactIn(refund', "response", r, status), session', refund')
  BY <1>1, <1>4, <1>5, RefundFactIsTrue
<1>7. RefundFact("response", r, status)' = RefundFactIn(refund', "response", r, status)
  BY DEF RefundFact, RefundFactIn
<1> QED
  BY <1>4, <1>6, <1>7 DEF RefundIsOf
------------------------------------------------------------------------------
(***************************************************************************)
(* What the transactions of the shop do to its books.                      *)
(***************************************************************************)

(* A transaction writes into the books only what the provider said.        *)
BooksMove(o) ==
  /\ order'[o].paid => order[o].paid \/ session[o] = "COMPLETE"
  /\ order'[o].paymentStatus = "FAILED" =>
       order[o].paymentStatus = "FAILED" \/ session[o] = "EXPIRED"
  /\ order'[o].refunded = order[o].refunded \/ order'[o].refunded <= Returned(o, Settled)
  /\ attempt[o].session => attempt'[o].session
  /\ attempt[o].refundRequested => attempt'[o].refundRequested
  /\ attempt'[o].refundRequested =>
       attempt[o].refundRequested \/ order'[o].status \in Closed \cup Gone
  /\ attempt'[o].intent => attempt[o].intent \/ order[o].status # "NONE"
  /\ attempt'[o].refund = attempt[o].refund \/ RefundIsOf(attempt'[o].refund, o)

SameBooks(o) ==
  /\ order'[o].paid => order[o].paid
  /\ order'[o].paymentStatus = "FAILED" => order[o].paymentStatus = "FAILED"
  /\ order'[o].refunded = order[o].refunded

(* An order whose refund was asked for does not come back.                 *)
LEMMA ClosedLasts ==
  ASSUME AllocInv, [Next]_vars, NEW o \in Order, order[o].status \in Closed \cup Gone
  PROVE  order'[o].status \in Closed \cup Gone
<1>1. TypeOK /\ RecordsOK
  BY DEF AllocInv, ShopInv, RowsInv
<1>2. Moves(o)
  BY <1>1, StepMoves
<1>3. RecordOK(order[o], fulfillment[o])
  BY <1>1 DEF RecordsOK
<1>4. CASE order[o].status \in Closed
  BY <1>2, <1>4 DEF Moves
<1>5. CASE order[o].status \in Gone
  BY <1>2, <1>3, <1>5 DEF Moves, RecordOK, Gone, Closed
<1> QED
  BY <1>4, <1>5

(* The books stay right.                                                   *)
LEMMA BooksStep ==
  ASSUME AllocInv, ProviderInv, BooksInv, [Next]_vars, UNCHANGED <<session, refund>>,
         \A o \in Order : BooksMove(o),
         \A o \in Order : link'[o] => link[o] \/ attempt'[o].session
  PROVE  BooksInv' /\ AttemptsOnward
<1>1. TypeOK /\ RecordsOK /\ AttemptsFollow
  BY DEF AllocInv, ShopInv, RowsInv
<1>2. AttemptsOnward
  BY DEF BooksMove, AttemptsOnward
<1>3. ASSUME NEW o \in Order, NEW statuses PROVE Returned(o, statuses)' = Returned(o, statuses)
  BY DEF Returned, RefundUnits, RefundsOf
<1>4. ASSUME NEW o \in Order
      PROVE  /\ order'[o].paid => session'[o] = "COMPLETE"
             /\ order'[o].paymentStatus = "FAILED" => session'[o] = "EXPIRED"
             /\ order'[o].refunded <= Returned(o, {"SUCCEEDED", "FAILED"})'
             /\ link'[o] \/ session'[o] = "COMPLETE" => attempt'[o].session
             /\ attempt'[o].refundRequested => order'[o].status \in Closed \cup Gone
             /\ (attempt[o].refund # None => RefundIsOf(attempt[o].refund, o))'
             /\ attempt'[o].intent => order'[o].status # "NONE"
  <2>1. BooksMove(o)
    OBVIOUS
  <2>2. order[o].refunded <= Returned(o, {"SUCCEEDED", "FAILED"})
    BY DEF BooksInv, RefundedIsCovered
  <2>3. order'[o].refunded <= Returned(o, {"SUCCEEDED", "FAILED"})'
    BY <1>3, <2>1, <2>2 DEF BooksMove, Settled
  <2>4. /\ order'[o].paid => session'[o] = "COMPLETE"
        /\ order'[o].paymentStatus = "FAILED" => session'[o] = "EXPIRED"
    BY <2>1 DEF BooksMove, BooksInv, BooksFollowMoney
  <2>5. link'[o] \/ session'[o] = "COMPLETE" => attempt'[o].session
    BY <2>1 DEF BooksMove, BooksInv, BooksFollowMoney
  <2>6. attempt'[o].refundRequested => order'[o].status \in Closed \cup Gone
    BY <2>1, ClosedLasts DEF BooksMove, BooksInv, AskedIsClosed
  <2>7. (attempt[o].refund # None => RefundIsOf(attempt[o].refund, o))'
    BY <2>1 DEF BooksMove, BooksInv, KnownRefundOK, RefundIsOf
  <2>8. order[o].status # "NONE" => order'[o].status # "NONE"
    BY <1>1, StepMoves DEF Moves
  <2>9. attempt'[o].intent => order'[o].status # "NONE"
    BY <2>1, <2>8 DEF BooksMove, BooksInv, IntentOK
  <2> QED
    BY <2>3, <2>4, <2>5, <2>6, <2>7, <2>9
<1>5. AskedOK'
  <2> SUFFICES ASSUME NEW r \in RefundId, refund'[r].amount = Total
               PROVE  attempt'[refund'[r].order].refundRequested
    BY DEF AskedOK
  <2>1. attempt[refund[r].order].refundRequested
    BY DEF BooksInv, AskedOK
  <2>2. refund[r].order \in Order
    BY CommerceAssumption DEF ProviderInv, RefundsOK, NoRefund
  <2> QED
    BY <1>2, <2>1, <2>2 DEF AttemptsOnward
<1>6. BooksFollowMoney' /\ RefundedIsCovered'
  BY <1>4 DEF BooksFollowMoney, RefundedIsCovered
<1>7. AskedIsClosed' /\ KnownRefundOK' /\ IntentOK'
  BY <1>4 DEF AskedIsClosed, KnownRefundOK, IntentOK
<1> QED
  BY <1>2, <1>5, <1>6, <1>7 DEF BooksInv

(* Steps of the shop and of the office that concern no payment.            *)
LEMMA QuietBooks ==
  ASSUME TypeOK, ShopNext \/ OfficeMeanwhile \/ UNCHANGED vars, NEW o \in Order
  PROVE  BooksMove(o) /\ attempt' = attempt
<1>1. order[o].refunded \in Nat /\ order[o] \in OrderRecord
  BY CommerceAssumption DEF TypeOK, OrderRecord
<1>2. SUFFICES attempt' = attempt /\ (order' = order \/ SameBooks(o))
  BY <1>1 DEF BooksMove, SameBooks
<1>3. ASSUME NEW g \in Guest, NEW k \in CheckoutKey, NEW q \in Quote, NEW p \in Order,
             Checkout(g, k, q, p)
      PROVE  attempt' = attempt /\ SameBooks(o)
  BY <1>1, <1>3 DEF Checkout, NoOrder, SameBooks, TypeOK
<1>4. ASSUME NEW p \in Order,
             \/ Expire(p) \/ CancelByGuest(p) \/ CancelByStaff(p)
             \/ Prepare(p) \/ Ship(p) \/ Deliver(p)
      PROVE  attempt' = attempt /\ SameBooks(o)
  <2>1. CASE o = p
    <3>1. CASE Expire(o) \/ CancelByGuest(o)
      BY <1>1, <3>1 DEF Expire, CancelByGuest, TypeOK, OrderRecord, SameBooks
    <3>2. CASE CancelByStaff(o)
      BY <1>1, <3>2 DEF CancelByStaff, TypeOK, OrderRecord, SameBooks
    <3>3. CASE Prepare(o) \/ Ship(o) \/ Deliver(o)
      BY <1>1, <3>3 DEF Prepare, Ship, Deliver, TypeOK, OrderRecord, SameBooks
    <3> QED
      BY <1>4, <2>1, <3>1, <3>2, <3>3
  <2>2. CASE o # p
    <3>1. order'[o] = order[o] /\ attempt' = attempt
      BY <1>4, <2>2 DEF Expire, CancelByGuest, CancelByStaff, Prepare, Ship, Deliver, TypeOK
    <3> QED
      BY <3>1 DEF SameBooks
  <2> QED
    BY <2>1, <2>2
<1>5. ASSUME NEW g \in Guest, NEW lines \in Lines, NEW q \in Quote, RequestQuote(g, lines, q)
      PROVE  attempt' = attempt /\ order' = order
  BY <1>5 DEF RequestQuote
<1>6. ASSUME NEW g \in Guest, NEW k \in CheckoutKey, NEW q \in Quote, NEW fresh \in Quote,
             CheckoutRequoted(g, k, q, fresh)
      PROVE  attempt' = attempt /\ order' = order
  BY <1>6 DEF CheckoutRequoted
<1>7. OfficeMeanwhile => attempt' = attempt /\ order' = order
  BY DEF OfficeMeanwhile, SubmitOperation, EditTree, EditListing, PassTime, shopVars
<1>8. UNCHANGED vars => attempt' = attempt /\ order' = order
  BY DEF vars, shopVars
<1> QED
  BY <1>3, <1>4, <1>5, <1>6, <1>7, <1>8 DEF ShopNext

(* A transaction that writes an attempt and nothing else.                  *)
LEMMA AttemptBooks ==
  ASSUME TypeOK, NEW p \in Order, NEW row \in AttemptRecord,
         attempt' = [attempt EXCEPT ![p] = row], order' = order,
         attempt[p].session => row.session,
         row.refundRequested = attempt[p].refundRequested,
         row.intent = attempt[p].intent,
         row.refund = attempt[p].refund \/ RefundIsOf(row.refund, p),
         NEW o \in Order
  PROVE  BooksMove(o)
<1>1. order[o].refunded \in Nat
  BY CommerceAssumption DEF TypeOK, OrderRecord
<1>2. attempt'[o] = IF o = p THEN row ELSE attempt[o]
  BY DEF TypeOK
<1> QED
  BY <1>1, <1>2 DEF BooksMove

(* The first transaction of ensureSession.                                 *)
LEMMA PrepareBooks ==
  ASSUME TypeOK, NEW p \in Order, EnsurePrepared(p), NEW o \in Order
  PROVE  /\ BooksMove(o) /\ [Next]_vars
         /\ attempt'[o].session = attempt[o].session
<1>1. CASE Expire(p)
  BY <1>1, QuietBooks DEF Next, ShopNext
<1>2. CASE PrepareSession(p)
  <2>1. PICK row \in AttemptRecord :
          /\ row = [attempt[p] EXCEPT !.status = "CREATED"]
          /\ row.session = attempt[p].session /\ row.intent = attempt[p].intent
          /\ row.refundRequested = attempt[p].refundRequested
          /\ row.refund = attempt[p].refund
    <3>1. attempt[p] \in AttemptRecord
      BY DEF TypeOK
    <3>2. ASSUME NEW old \in AttemptRecord
          PROVE  LET row == [old EXCEPT !.status = "CREATED"]
                 IN /\ row \in AttemptRecord
                    /\ row.session = old.session /\ row.intent = old.intent
                    /\ row.refundRequested = old.refundRequested /\ row.refund = old.refund
      BY DEF AttemptRecord, AttemptStatus
    <3> QED
      BY <3>1, <3>2
  <2>2. attempt' = [attempt EXCEPT ![p] = row] /\ order' = order
    BY <1>2, <2>1 DEF PrepareSession, TypeOK
  <2>3. attempt'[o] = IF o = p THEN row ELSE attempt[o]
    BY <2>2 DEF TypeOK
  <2> QED
    BY <1>2, <2>1, <2>2, <2>3, AttemptBooks DEF Next, PaymentNext
<1>3. CASE UNCHANGED vars
  BY <1>3, QuietBooks
<1> QED
  BY <1>1, <1>2, <1>3 DEF EnsurePrepared

(* The second transaction of ensureSession.                                *)
LEMMA SaveBooks ==
  ASSUME TypeOK, NEW p \in Order, SaveSession(p), NEW o \in Order
  PROVE  BooksMove(o) /\ attempt'[p].session
<1>0. PICK state \in AttemptStatus :
        state = IF attempt[p].status = "CREATED" THEN "OPEN" ELSE attempt[p].status
  BY DEF TypeOK, AttemptRecord, AttemptStatus
<1>1. PICK row \in AttemptRecord :
        /\ row = [[attempt[p] EXCEPT !.session = TRUE] EXCEPT !.status = state]
        /\ row.session = TRUE /\ row.intent = attempt[p].intent
        /\ row.refundRequested = attempt[p].refundRequested
        /\ row.refund = attempt[p].refund
  <2>1. attempt[p] \in AttemptRecord
    BY DEF TypeOK
  <2>2. ASSUME NEW old \in AttemptRecord
        PROVE  LET row == [[old EXCEPT !.session = TRUE] EXCEPT !.status = state]
               IN /\ row \in AttemptRecord
                  /\ row.session = TRUE /\ row.intent = old.intent
                  /\ row.refundRequested = old.refundRequested /\ row.refund = old.refund
    BY DEF AttemptRecord
  <2> QED
    BY <2>1, <2>2
<1>2. attempt' = [attempt EXCEPT ![p] = row] /\ order' = order
  <2>1. attempt' = [attempt EXCEPT ![p] =
          [[attempt[p] EXCEPT !.session = TRUE] EXCEPT !.status = state]]
    BY <1>0 DEF SaveSession, TypeOK, AttemptRecord
  <2> QED
    BY <1>1, <2>1 DEF SaveSession
<1>3. attempt'[p] = row
  BY <1>2 DEF TypeOK
<1> QED
  BY <1>1, <1>2, <1>3, AttemptBooks

(* The id of a refund of that order is written to its attempt.             *)
LEMMA RecordBooks ==
  ASSUME TypeOK, NEW p \in Order, NEW r, RefundIsOf(r, p), SaveRefund(p, r), NEW o \in Order
  PROVE  BooksMove(o)
<1>1. PICK row \in AttemptRecord :
        /\ row = [attempt[p] EXCEPT !.refund = r]
        /\ row.session = attempt[p].session /\ row.intent = attempt[p].intent
        /\ row.refundRequested = attempt[p].refundRequested
        /\ row.refund = r
  <2>1. attempt[p] \in AttemptRecord /\ r \in RefundId
    BY DEF TypeOK, RefundIsOf
  <2>2. ASSUME NEW old \in AttemptRecord
        PROVE  LET row == [old EXCEPT !.refund = r]
               IN /\ row \in AttemptRecord
                  /\ row.session = old.session /\ row.intent = old.intent
                  /\ row.refundRequested = old.refundRequested /\ row.refund = r
    BY <2>1 DEF AttemptRecord, AttemptStatus
  <2> QED
    BY <2>1, <2>2
<1>2. attempt' = [attempt EXCEPT ![p] = row] /\ order' = order
  BY <1>1 DEF SaveRefund, TypeOK
<1> QED
  BY <1>1, <1>2, AttemptBooks

(* The first transaction of refundOrder closes the order, or its goods     *)
(* have left.                                                              *)
LEMMA RequestBooks ==
  ASSUME TypeOK, IntentOK, NEW p \in Order, RequestRefund(p), NEW o \in Order
  PROVE  BooksMove(o) /\ attempt'[p].refundRequested
<1>1. /\ attempt[p] \in AttemptRecord /\ order[p] \in OrderRecord
      /\ order[o].refunded \in Nat
  BY CommerceAssumption DEF TypeOK, OrderRecord
<1>2. /\ attempt'[p].refundRequested /\ attempt'[p].session = attempt[p].session
      /\ attempt'[p].intent = attempt[p].intent /\ attempt'[p].refund = attempt[p].refund
  BY <1>1 DEF RequestRefund, TypeOK, AttemptRecord
<1>3. /\ order'[p].status = Withdrawn(order[p].status)
      /\ order'[p].paymentStatus = "REFUND_PENDING"
      /\ order'[p].paid = order[p].paid /\ order'[p].refunded = order[p].refunded
  BY <1>1 DEF RequestRefund, TypeOK, OrderRecord
<1>4. order[p].status # "NONE"
  BY DEF RequestRefund, IntentOK
<1>5. order'[p].status \in Closed \cup Gone
  BY <1>1, <1>3, <1>4 DEF Withdrawn, OrderRecord, OrderStatus, Closed, Gone
<1>6. o # p => order'[o] = order[o] /\ attempt'[o] = attempt[o]
  BY DEF RequestRefund, TypeOK
<1> QED
  BY <1>1, <1>2, <1>3, <1>5, <1>6 DEF BooksMove

(* What an event writes into the books of its order.                       *)
LEMMA EventBooks ==
  ASSUME TypeOK, NEW e \in Event, ~e.foreign, ApplyEvent(e)
  PROVE  LET p == e.order
         IN /\ order'[p].paid => order[p].paid \/ e.type = "PAID"
            /\ order'[p].paymentStatus = "FAILED" =>
                 order[p].paymentStatus = "FAILED" \/ e.type = "FAILED"
            /\ \/ order'[p].refunded = order[p].refunded
               \/ e.type = "REFUNDED" /\ order'[p].refunded = e.amount
            /\ attempt'[p].session = attempt[p].session
            /\ attempt'[p].refundRequested = attempt[p].refundRequested
            /\ attempt'[p].refund = attempt[p].refund
            /\ \A o \in Order \ {p} : order'[o] = order[o] /\ attempt'[o] = attempt[o]
<1> DEFINE p == e.order
           Written == /\ order'[p].paid => order[p].paid \/ e.type = "PAID"
                      /\ order'[p].paymentStatus = "FAILED" =>
                           order[p].paymentStatus = "FAILED" \/ e.type = "FAILED"
                      /\ \/ order'[p].refunded = order[p].refunded
                         \/ e.type = "REFUNDED" /\ order'[p].refunded = e.amount
                      /\ attempt'[p].session = attempt[p].session
                      /\ attempt'[p].refundRequested = attempt[p].refundRequested
                      /\ attempt'[p].refund = attempt[p].refund
<1>1. /\ p \in Order /\ order[p] \in OrderRecord /\ attempt[p] \in AttemptRecord
  BY SMTT(30) DEF Event, TypeOK
<1>2. \A o \in Order \ {p} : order'[o] = order[o] /\ attempt'[o] = attempt[o]
  BY DEF ApplyEvent, EventEffect, EventContradicts, EventRefunded, EventRefundFailed,
         EventFailed, EventIgnored, EventPaid, EventPaidLate, AttemptAfter, TypeOK
<1>3. ASSUME NEW status, attempt' = AttemptAfter(e, status)
      PROVE  /\ attempt'[p].session = attempt[p].session
             /\ attempt'[p].refundRequested = attempt[p].refundRequested
             /\ attempt'[p].refund = attempt[p].refund
  BY <1>1, <1>3 DEF AttemptAfter, TypeOK, AttemptRecord
<1>4. ASSUME EventContradicts(e) PROVE Written
  <2>1. CASE order' = order /\ attempt' = attempt
    BY <2>1
  <2>2. CASE /\ order' = [order EXCEPT ![p].paymentStatus = "REVIEW",
                                       ![p].refunded = RefundedAfter(e)]
             /\ attempt' = [attempt EXCEPT ![p].status = "REVIEW"]
    <3>1. /\ attempt'[p].session = attempt[p].session
          /\ attempt'[p].refundRequested = attempt[p].refundRequested
          /\ attempt'[p].refund = attempt[p].refund
      BY <1>1, <2>2 DEF TypeOK, AttemptRecord
    <3>2. /\ order'[p].paid = order[p].paid /\ order'[p].paymentStatus = "REVIEW"
          /\ order'[p].refunded = RefundedAfter(e)
      BY <1>1, <2>2 DEF TypeOK, OrderRecord
    <3> QED
      BY <3>1, <3>2 DEF RefundedAfter
  <2> QED
    BY <1>4, <2>1, <2>2 DEF EventContradicts
<1>5. ASSUME EventRefunded(e) PROVE Written
  <2>1. /\ order'[p].paid = order[p].paid /\ order'[p].paymentStatus = "REFUNDED"
        /\ order'[p].refunded = e.amount
    BY <1>1, <1>5 DEF EventRefunded, TypeOK, OrderRecord
  <2> QED
    BY <1>3, <1>5, <2>1 DEF EventRefunded
<1>6. ASSUME EventRefundFailed(e) PROVE Written
  <2>1. /\ order'[p].paid = order[p].paid /\ order'[p].paymentStatus = "REVIEW"
        /\ order'[p].refunded = order[p].refunded
    BY <1>1, <1>6 DEF EventRefundFailed, TypeOK, OrderRecord
  <2> QED
    BY <1>3, <1>6, <2>1 DEF EventRefundFailed
<1>7. ASSUME EventFailed(e) PROVE Written
  <2>1. order'[p].paid = order[p].paid /\ order'[p].refunded = order[p].refunded
    BY <1>1, <1>7 DEF EventFailed, TypeOK, OrderRecord
  <2> QED
    BY <1>3, <1>7, <2>1 DEF EventFailed
<1>8. ASSUME EventIgnored(e) PROVE Written
  BY <1>3, <1>8 DEF EventIgnored
<1>9. ASSUME EventPaid(e) PROVE Written
  <2>1. order'[p].paymentStatus = "PAID" /\ order'[p].refunded = order[p].refunded
    BY <1>1, <1>9 DEF EventPaid, TypeOK, OrderRecord
  <2> QED
    BY <1>3, <1>9, <2>1 DEF EventPaid
<1>10. ASSUME EventPaidLate(e) PROVE Written
  <2>1. /\ order'[p].paid = order[p].paid /\ order'[p].paymentStatus = "REVIEW"
        /\ order'[p].refunded = order[p].refunded
    BY <1>1, <1>10 DEF EventPaidLate, TypeOK, OrderRecord
  <2> QED
    BY <1>3, <1>10, <2>1 DEF EventPaidLate
<1>11. Written
  BY <1>4, <1>5, <1>6, <1>7, <1>8, <1>9, <1>10 DEF ApplyEvent, EventEffect
<1> QED
  BY <1>2, <1>11

(* A true fact writes the truth.                                           *)
LEMMA FactBooks ==
  ASSUME TypeOK, AttemptsFollow, NEW e, FactOK(e), ApplyFact(e), NEW o \in Order
  PROVE  BooksMove(o) /\ [Next]_vars
<1>1. CASE UNCHANGED vars
  BY <1>1, QuietBooks
<1>2. CASE ~UNCHANGED vars
  <2>1. e # NoFact /\ ApplyEvent(e)
    BY <1>2 DEF ApplyFact
  <2>2. /\ e \in Event /\ ~e.foreign
        /\ e.type = "PAID" => session[e.order] = "COMPLETE"
        /\ e.type = "FAILED" => session[e.order] = "EXPIRED"
        /\ e.type = "REFUNDED" => e.amount <= Cardinality(Units(refund, e.order, Settled))
    BY <2>1 DEF FactOK, TrueFact
  <2>3. [Next]_vars
    BY <2>1, <2>2 DEF Next, PaymentNext
  <2>4. order[o].refunded \in Nat
    BY CommerceAssumption DEF TypeOK, OrderRecord
  <2>5. CASE o # e.order
    <3>1. order'[o] = order[o] /\ attempt'[o] = attempt[o]
      BY <2>1, <2>2, <2>5, EventBooks
    <3> QED
      BY <2>3, <2>4, <3>1 DEF BooksMove
  <2>6. CASE o = e.order
    <3>1. /\ order'[o].paid => order[o].paid \/ e.type = "PAID"
          /\ order'[o].paymentStatus = "FAILED" =>
               order[o].paymentStatus = "FAILED" \/ e.type = "FAILED"
          /\ \/ order'[o].refunded = order[o].refunded
             \/ e.type = "REFUNDED" /\ order'[o].refunded = e.amount
          /\ attempt'[o].session = attempt[o].session
          /\ attempt'[o].refundRequested = attempt[o].refundRequested
          /\ attempt'[o].refund = attempt[o].refund
      BY <2>1, <2>2, <2>6, EventBooks
    <3>2. order[o].status # "NONE"
      BY <2>1, <2>6 DEF ApplyEvent, AttemptsFollow
    <3>3. Returned(o, Settled) = Cardinality(Units(refund, o, Settled))
      BY ReturnedIsUnits
    <3> QED
      BY <2>2, <2>3, <2>6, <3>1, <3>2, <3>3 DEF BooksMove
  <2> QED
    BY <2>5, <2>6
<1> QED
  BY <1>1, <1>2
------------------------------------------------------------------------------
(***************************************************************************)
(* What the handlers read of the provider is true.                         *)
(***************************************************************************)

(* A made refund is of an order, of at least one unit.                     *)
LEMMA MadeRefund ==
  ASSUME ProviderInv, NEW r \in RefundId, refund[r].order # None
  PROVE  /\ refund[r].order \in Order /\ refund[r].amount \in 1..Total
         /\ refund[r].status \in {"PENDING", "SUCCEEDED", "FAILED"}
<1>1. refund[r] \in RefundRecord /\ refund[r] # NoRefund
  BY DEF ProviderInv, ProviderTypeOK, NoRefund
<1> QED
  BY <1>1 DEF ProviderInv, RefundsOK, RefundRecord, RefundStatus

(* What a refund is now is a fact.                                         *)
LEMMA RefundNowIsTrue ==
  ASSUME ProviderInv, NEW r \in RefundId, refund[r].order # None,
         NEW kind \in {"refund.created", "refund.succeeded", "refund.failed",
                       "reconcile.refund", "response"}
  PROVE  FactOK(RefundFact(kind, r, refund[r].status))
<1>1. /\ IsFiniteSet(MadeIn(refund))
      /\ refund[r].order \in Order /\ refund[r].amount \in 1..Total
      /\ refund[r].status \in {"PENDING", "SUCCEEDED", "FAILED"}
      /\ refund[r].status = "SUCCEEDED" => refund[r].status \in Settled
  BY MadeRefund DEF ProviderInv, RefundsOK, Settled
<1>2. TrueFact(RefundFactIn(refund, kind, r, refund[r].status), session, refund)
  BY <1>1, RefundFactIsTrue
<1>3. RefundFact(kind, r, refund[r].status) = RefundFactIn(refund, kind, r, refund[r].status)
  BY DEF RefundFact, RefundFactIn
<1> QED
  BY <1>2, <1>3 DEF FactOK

(* What verify makes of a notice is true.                                  *)
LEMMA VerifiedIsTrue ==
  ASSUME ProviderInv, NEW n \in notices
  PROVE  FactOK(Verified(n))
<1>1. n \in Notice /\ NoticeOK(n)
  BY DEF ProviderInv, ProviderTypeOK, NoticesOK
<1>2. CASE n[1] \in {"completed", "expired"}
  <2>1. n[2] \in Order
    BY <1>1, <1>2, NoticeParts
  <2>2. CASE n[1] = "completed"
    <3>1. session[n[2]] = "COMPLETE"
      BY <1>1, <2>2 DEF NoticeOK
    <3>2. TrueFact(SessionFact("completed", n[2], "COMPLETE"), session, refund)
      BY <2>1, <3>1, SessionFactIsTrue
    <3> QED
      BY <2>2, <3>2 DEF Verified, FactOK
  <2>3. CASE n[1] = "expired"
    <3>1. session[n[2]] = "EXPIRED"
      BY <1>1, <2>3 DEF NoticeOK
    <3>2. TrueFact(SessionFact("expired", n[2], "EXPIRED"), session, refund)
      BY <2>1, <3>1, SessionFactIsTrue
    <3> QED
      BY <2>3, <3>2 DEF Verified, FactOK
  <2> QED
    BY <1>2, <2>2, <2>3
<1>3. CASE n[1] \notin {"completed", "expired"}
  <2>1. /\ n[2] \in RefundId /\ refund[n[2]].order # None
        /\ n[1] \in {"refund.created", "refund.succeeded", "refund.failed", "charge.refunded"}
    BY <1>1, <1>3, NoticeParts DEF NoticeOK
  <2>2. CASE n[1] = "charge.refunded"
    <3>1. refund[n[2]].order \in Order
      BY <2>1, MadeRefund
    <3>2. FactOK(SumFact("charge.refunded", n[2], refund[n[2]].order))
      BY <2>1, <3>1, SumFactIsTrue DEF ProviderInv
    <3> QED
      BY <2>2, <3>2 DEF Verified
  <2>3. CASE n[1] # "charge.refunded"
    <3>1. FactOK(RefundFact(n[1], n[2], refund[n[2]].status))
      BY <2>1, <2>3, RefundNowIsTrue
    <3> QED
      BY <1>3, <2>3, <3>1 DEF Verified
  <2> QED
    BY <2>2, <2>3
<1> QED
  BY <1>2, <1>3

(* What the job observes is true, for an attempt as it once was.           *)
LEMMA ObservedIsTrue ==
  ASSUME ProviderInv, NEW o \in Order, NEW a,
         a.refund # None => RefundIsOf(a.refund, o)
  PROVE  FactOK(Observed(o, a))
<1>1. CASE a.refund # None
  <2>1. a.refund \in RefundId /\ refund[a.refund].order # None
    BY <1>1, PaymentsAssumption DEF RefundIsOf
  <2>2. FactOK(RefundFact("reconcile.refund", a.refund, refund[a.refund].status))
    BY <2>1, RefundNowIsTrue
  <2> QED
    BY <1>1, <2>2 DEF Observed
<1>2. CASE a.refund = None
  <2>1. FactOK(SumFact("reconcile.sum", o, o))
    BY SumFactIsTrue DEF ProviderInv
  <2>2. FactOK(SessionFact("reconcile.session", o, session[o]))
    <3>1. TrueFact(SessionFact("reconcile.session", o, session[o]), session, refund)
      BY SessionFactIsTrue
    <3> QED
      BY <3>1 DEF FactOK
  <2>3. FactOK(NoFact)
    BY DEF FactOK, TrueFact
  <2> QED
    BY <1>2, <2>1, <2>2, <2>3 DEF Observed
<1> QED
  BY <1>1, <1>2
------------------------------------------------------------------------------
(***************************************************************************)
(* Every step is a transaction of the shop or an operation of the          *)
(* provider, and the rest of the handlers keeps what it knows.             *)
(***************************************************************************)

WorldMoves ==
  /\ [Next]_vars
  /\ AllocInv' /\ ProviderInv' /\ BooksInv'
  /\ SessionsOnward /\ RefundsOnward /\ AttemptsOnward

(* A transaction of the shop.                                              *)
LEMMA ShopTransaction ==
  ASSUME AllocInv, ProviderInv, BooksInv, [Next]_vars, \A o \in Order : BooksMove(o),
         UNCHANGED <<session, refund, cached, notices>>, link' \in [Order -> BOOLEAN],
         \A o \in Order : link'[o] => link[o] \/ attempt'[o].session
  PROVE  WorldMoves
<1>1. AllocInv'
  BY AllocInvStep
<1>2. ProviderInv' /\ SessionsOnward /\ RefundsOnward
  BY ProviderStays
<1>3. BooksInv' /\ AttemptsOnward
  BY BooksStep
<1> QED
  BY <1>1, <1>2, <1>3 DEF WorldMoves

(* An operation of the provider.                                           *)
LEMMA ProviderOperation ==
  ASSUME AllocInv, ProviderInv, BooksInv, UNCHANGED vars,
         ProviderInv', SessionsOnward, RefundsOnward, link' = link,
         \A o \in Order : session'[o] = "COMPLETE" => session[o] = "COMPLETE" \/ link[o],
         \A r \in RefundId : refund'[r].amount = Total =>
           \/ refund[r].amount = Total /\ refund'[r].order = refund[r].order
           \/ attempt[refund'[r].order].refundRequested
  PROVE  WorldMoves
<1>1. UNCHANGED <<order, attempt>>
  BY DEF vars, shopVars
<1>2. AllocInv'
  BY AllocInvStep
<1>3. AttemptsOnward
  BY <1>1 DEF AttemptsOnward
<1>4. ASSUME NEW o \in Order
      PROVE  /\ order[o].paid => session'[o] = "COMPLETE"
             /\ order[o].paymentStatus = "FAILED" => session'[o] = "EXPIRED"
             /\ link[o] \/ session'[o] = "COMPLETE" => attempt[o].session
             /\ (attempt[o].refund # None => RefundIsOf(attempt[o].refund, o))'
  <2>1. /\ order[o].paid => session'[o] = "COMPLETE"
        /\ order[o].paymentStatus = "FAILED" => session'[o] = "EXPIRED"
    BY DEF BooksInv, BooksFollowMoney, SessionsOnward
  <2>2. link[o] \/ session'[o] = "COMPLETE" => attempt[o].session
    BY DEF BooksInv, BooksFollowMoney
  <2>3. (attempt[o].refund # None => RefundIsOf(attempt[o].refund, o))'
    BY <1>1, PaymentsAssumption DEF BooksInv, KnownRefundOK, RefundIsOf, RefundsOnward
  <2> QED
    BY <2>1, <2>2, <2>3
<1>5. ASSUME NEW o \in Order PROVE order[o].refunded <= Returned(o, {"SUCCEEDED", "FAILED"})'
  <2>1. order[o].refunded <= Cardinality(Units(refund, o, Settled))
    BY ReturnedIsUnits DEF BooksInv, RefundedIsCovered, Settled
  <2>2. IsFiniteSet(MadeIn(refund)) /\ IsFiniteSet(MadeIn(refund'))
    BY DEF ProviderInv, RefundsOK
  <2>3. Cardinality(Units(refund, o, Settled)) <= Cardinality(Units(refund', o, Settled))
    BY <2>2, UnitsGrow, PaymentsAssumption DEF RefundsOnward
  <2>4. /\ Cardinality(Units(refund, o, Settled)) \in Nat
        /\ Cardinality(Units(refund', o, Settled)) \in Nat
        /\ order[o].refunded \in Nat
    BY <2>2, ReturnsAreFinite, CommerceAssumption
       DEF AllocInv, ShopInv, RowsInv, TypeOK, OrderRecord
  <2>5. Returned(o, {"SUCCEEDED", "FAILED"})' = Cardinality(Units(refund', o, Settled))
    <3>1. RefundUnits(o, {"SUCCEEDED", "FAILED"})' = Units(refund', o, Settled)
      BY DEF RefundUnits, RefundsOf, Units, Settled
    <3> QED
      BY <3>1 DEF Returned
  <2> QED
    BY <2>1, <2>3, <2>4, <2>5
<1>6. AskedOK'
  BY <1>1 DEF BooksInv, AskedOK
<1>7. BooksFollowMoney' /\ RefundedIsCovered' /\ KnownRefundOK'
  BY <1>1, <1>4, <1>5 DEF BooksFollowMoney, RefundedIsCovered, KnownRefundOK
<1>8. AskedIsClosed' /\ IntentOK'
  BY <1>1 DEF BooksInv, AskedIsClosed, IntentOK
<1> QED
  BY <1>2, <1>3, <1>6, <1>7, <1>8 DEF WorldMoves, BooksInv

(* The refund a handler names stays a refund of that order.                *)
LEMMA NamesLast ==
  ASSUME WorldMoves, NEW r, NEW o \in Order, RefundIsOf(r, o)
  PROVE  RefundIsOf(r, o)'
  BY PaymentsAssumption DEF WorldMoves, RefundIsOf, RefundsOnward

(* A fact a handler holds stays true.                                      *)
LEMMA KnownFactsLast ==
  ASSUME ProviderInv, WorldMoves, NEW e, FactOK(e)
  PROVE  FactOK(e)'
<1>1. TrueFact(e, session', refund')
  BY FactsLast DEF WorldMoves, ProviderInv
<1> QED
  BY <1>1 DEF FactOK

(* Webhook requests that are left, or dropped.                             *)
LEMMA HooksLast ==
  ASSUME ProviderInv, WorldMoves, HooksInv, hooks' \subseteq hooks
  PROVE  HooksInv'
  BY KnownFactsLast DEF HooksInv

(* A handler that does nothing.                                            *)
LEMMA StarterLast ==
  ASSUME StarterInv, starter' = starter
  PROVE  StarterInv'
  BY DEF StarterInv

(* What the staff request knows stays true.                                *)
LEMMA RefunderLast ==
  ASSUME ProviderInv, WorldMoves, NEW c, RefunderIs(c)
  PROVE  RefunderIs(c)'
<1>1. FactOK(c.event)'
  BY KnownFactsLast DEF RefunderIs
<1>2. c.pc \in {"SAVE", "APPLY"} => RefundIsOf(c.refund, c.order)'
  BY NamesLast DEF RefunderIs
<1>3. c.pc # "IDLE" => c.order \in Order /\ attempt'[c.order].refundRequested
  BY DEF RefunderIs, WorldMoves, AttemptsOnward
<1> QED
  BY <1>1, <1>2, <1>3 DEF RefunderIs

(* What the job knows stays true.                                          *)
LEMMA JobLast ==
  ASSUME ProviderInv, WorldMoves, NEW j, JobIs(j)
  PROVE  JobIs(j)'
<1>1. FactOK(j.event)'
  BY KnownFactsLast DEF JobIs
<1>2. j.pc \in {"RECORD", "SETTLE"} => RefundIsOf(j.refund, j.order)'
  BY NamesLast DEF JobIs
<1>3. ASSUME j.pc # "IDLE"
      PROVE  /\ j.order \in Order
             /\ j.attempt.refund # None => RefundIsOf(j.attempt.refund, j.order)'
             /\ j.attempt.refundRequested => attempt'[j.order].refundRequested
  BY <1>3, NamesLast DEF JobIs, WorldMoves, AttemptsOnward
<1> QED
  BY <1>1, <1>2, <1>3 DEF JobIs

(* The job goes on to its next step, or ends.                              *)
LEMMA JobGoesOn ==
  ASSUME NEW j, JobIs(j), j.pc # "IDLE",
         NEW pc \in {"READ", "START", "CREATE", "SAVE", "CLOSE", "OBSERVE", "APPLY",
                     "REFUND", "RECORD", "SETTLE", "TAIL"},
         pc = "REFUND" => j.attempt.refundRequested,
         pc \in {"RECORD", "SETTLE"} => RefundIsOf(j.refund, j.order)
  PROVE  JobIs([j EXCEPT !.pc = pc])
<1> DEFINE k == [j EXCEPT !.pc = pc]
<1>1. j \in JobState
  BY DEF JobIs
<1>2. /\ k \in JobState
      /\ k.pc = pc /\ k.order = j.order /\ k.attempt = j.attempt /\ k.refund = j.refund
      /\ k.event = j.event
  BY <1>1 DEF JobState
<1> HIDE DEF k
<1>3. JobIs(k)
  BY <1>2 DEF JobIs
<1> QED
  BY <1>3 DEF k

(* The same of the job itself.                                             *)
LEMMA JobMovesOn ==
  ASSUME ProviderInv, WorldMoves, JobInv, job.pc # "IDLE",
         NEW pc \in {"READ", "START", "CREATE", "SAVE", "CLOSE", "OBSERVE", "APPLY",
                     "REFUND", "RECORD", "SETTLE", "TAIL"},
         pc = "REFUND" => job.attempt.refundRequested,
         pc \in {"RECORD", "SETTLE"} => RefundIsOf(job.refund, job.order),
         job' = [job EXCEPT !.pc = pc]
  PROVE  JobInv'
<1>1. PICK k : k = [job EXCEPT !.pc = pc]
  OBVIOUS
<1>2. JobIs(k)
  BY <1>1, JobGoesOn DEF JobInv
<1>3. JobIs(k)'
  BY <1>2, JobLast
<1> QED
  BY <1>1, <1>3 DEF JobInv

(* A job or a request that ended knows nothing.                            *)
LEMMA JobEndsWell ==
  ASSUME job' = NoJob
  PROVE  JobInv'
<1>1. NoAttempt \in AttemptRecord
  BY DEF NoAttempt, AttemptRecord, AttemptStatus
<1>2. NoJob \in JobState
  BY <1>1 DEF NoJob, JobState, OrderStatus
<1>3. NoJob.pc = "IDLE" /\ NoJob.event = NoFact
  BY DEF NoJob
<1>4. FactOK(NoFact)'
  BY DEF FactOK, TrueFact
<1> QED
  BY <1>2, <1>3, <1>4 DEF JobInv, JobIs

(* So does a request of staff that ended.                                  *)
LEMMA RefunderEndsWell ==
  ASSUME refunder' = NoCall
  PROVE  RefunderInv'
<1>1. NoCall \in CallState
  BY DEF NoCall, CallState
<1>2. NoCall.pc = "IDLE" /\ NoCall.event = NoFact
  BY DEF NoCall
<1>3. FactOK(NoFact)'
  BY DEF FactOK, TrueFact
<1> QED
  BY <1>1, <1>2, <1>3 DEF RefunderInv, RefunderIs

(* A handler that does nothing.                                            *)
LEMMA IdleHandlers ==
  ASSUME ProviderInv, WorldMoves
  PROVE  /\ HooksInv /\ hooks' = hooks => HooksInv'
         /\ StarterInv /\ starter' = starter => StarterInv'
         /\ RefunderInv /\ refunder' = refunder => RefunderInv'
         /\ JobInv /\ job' = job => JobInv'
<1>1. HooksInv /\ hooks' = hooks => HooksInv'
  BY HooksLast
<1>2. ASSUME RefunderInv, refunder' = refunder PROVE RefunderInv'
  <2>1. PICK c : c = refunder
    OBVIOUS
  <2>2. RefunderIs(c)'
    BY <1>2, <2>1, RefunderLast DEF RefunderInv
  <2> QED
    BY <1>2, <2>1, <2>2 DEF RefunderInv
<1>3. ASSUME JobInv, job' = job PROVE JobInv'
  <2>1. PICK j : j = job
    OBVIOUS
  <2>2. JobIs(j)'
    BY <1>3, <2>1, JobLast DEF JobInv
  <2> QED
    BY <1>3, <2>1, <2>2 DEF JobInv
<1> QED
  BY <1>1, <1>2, <1>3, StarterLast
------------------------------------------------------------------------------
(***************************************************************************)
(* The steps of each party.                                                *)
(***************************************************************************)
Moved == WorldMoves /\ HandlersInv'

(* Orders, refunds and attempts as the invariant has them.                 *)
LEMMA InvParts ==
  ASSUME PaymentsInv
  PROVE  /\ AllocInv /\ ProviderInv /\ BooksInv
         /\ HooksInv /\ StarterInv /\ RefunderInv /\ JobInv /\ crashes \in 0..MaxCrashes
         /\ TypeOK /\ AttemptsFollow /\ IntentOK
         /\ link \in [Order -> BOOLEAN]
  BY DEF PaymentsInv, HandlersInv, AllocInv, ShopInv, RowsInv, BooksInv, ProviderInv,
         ProviderTypeOK

(* The rest of the shop and the office.                                    *)
LEMMA MeanwhileMoves ==
  ASSUME PaymentsInv, Meanwhile(ShopNext \/ OfficeMeanwhile) \/ UNCHANGED paymentVars
  PROVE  Moved
<1>1. UNCHANGED <<session, link, refund, cached, notices, hooks, starter, refunder, job, crashes>>
  BY DEF Meanwhile, paymentVars, providerVars, handlerVars
<1>2. ShopNext \/ OfficeMeanwhile \/ UNCHANGED vars
  BY DEF Meanwhile, paymentVars
<1>3. [Next]_vars
  BY <1>2 DEF Next, OfficeMeanwhile, OfficeNext
<1>4. \A o \in Order : BooksMove(o)
  BY <1>2, QuietBooks, InvParts
<1>5. \A o \in Order : link'[o] => link[o] \/ attempt'[o].session
  BY <1>1
<1>6. WorldMoves
  BY <1>1, <1>3, <1>4, <1>5, InvParts, ShopTransaction
<1> QED
  BY <1>1, <1>6, IdleHandlers, InvParts DEF Moved, HandlersInv

(* The provider.                                                           *)
LEMMA ProviderMoves ==
  ASSUME PaymentsInv, ProviderNext
  PROVE  Moved
<1> DEFINE Done == /\ ProviderInv' /\ SessionsOnward /\ RefundsOnward /\ link' = link
                   /\ \A o \in Order :
                        session'[o] = "COMPLETE" => session[o] = "COMPLETE" \/ link[o]
                   /\ \A r \in RefundId : refund'[r].amount = Total =>
                        refund[r].amount = Total /\ refund'[r].order = refund[r].order
<1>1. ProviderInv
  BY InvParts
<1>2. ASSUME NEW o \in Order, GuestPays(o) \/ SessionExpires(o) \/ ForgetKey(o) PROVE Done
  BY <1>1, <1>2, PayMoves, CloseMoves, ForgetMoves DEF SessionExpires
<1>3. ASSUME NEW r \in RefundId, NEW status \in {"SUCCEEDED", "FAILED"}, RefundSettles(r, status)
      PROVE  Done
  BY <1>1, <1>3, SettleMoves DEF Settled
<1>4. ASSUME NEW o \in Order, NEW r \in RefundId, PartialRefund(o, r) PROVE Done
  <2>1. /\ ProviderInv' /\ SessionsOnward /\ RefundsOnward
        /\ \A q \in RefundId : refund'[q].amount = Total => refund'[q] = refund[q]
        /\ UNCHANGED <<session, link>>
    BY <1>1, <1>4, PartialMoves
  <2> QED
    BY <2>1
<1>5. Done
  BY <1>2, <1>3, <1>4 DEF ProviderNext
<1>6. UNCHANGED vars /\ UNCHANGED <<hooks, starter, refunder, job, crashes>>
  BY DEF ProviderNext, GuestPays, SessionExpires, ForgetKey, RefundSettles, PartialRefund,
         handlerVars
<1>7. WorldMoves
  BY <1>5, <1>6, InvParts, ProviderOperation
<1> QED
  BY <1>6, <1>7, IdleHandlers, InvParts DEF Moved, HandlersInv

(* A request to start a payment moves to another step.                     *)
LEMMA StarterGoes ==
  ASSUME StarterInv, NEW p \in Starter,
         NEW pc \in {"IDLE", "CREATE", "SAVE", "EXPIRE"}, NEW o \in Order \cup {None},
         pc # "IDLE" => o \in Order,
         starter' = [starter EXCEPT ![p] = [pc |-> pc, order |-> o]]
  PROVE  StarterInv'
<1>1. [pc |-> pc, order |-> o] \in StarterState
  BY DEF StarterState
<1> QED
  BY <1>1 DEF StarterInv

(* The first transaction of a request to start a payment.                  *)
LEMMA StartPrepareMoves ==
  ASSUME PaymentsInv, NEW p \in Starter, NEW o \in Order, StartPrepare(p, o)
  PROVE  Moved
<1>1. /\ EnsurePrepared(o)
      /\ link' = [link EXCEPT ![o] = @ \/ (Payable(o) /\ attempt[o].session)]
      /\ UNCHANGED <<session, refund, cached, notices, hooks, refunder, job, crashes>>
  BY DEF StartPrepare
<1>2. [Next]_vars /\ \A q \in Order : BooksMove(q) /\ attempt'[q].session = attempt[q].session
  <2>1. ASSUME NEW q \in Order
        PROVE  BooksMove(q) /\ attempt'[q].session = attempt[q].session /\ [Next]_vars
    BY <1>1, InvParts, PrepareBooks
  <2> QED
    BY <2>1
<1>3. link' \in [Order -> BOOLEAN] /\ \A q \in Order : link'[q] => link[q] \/ attempt'[q].session
  BY <1>1, <1>2, InvParts
<1>4. WorldMoves
  BY <1>1, <1>2, <1>3, InvParts, ShopTransaction
<1>5. StarterInv'
  BY InvParts, StarterGoes, StarterLast DEF StartPrepare
<1> QED
  BY <1>1, <1>4, <1>5, IdleHandlers, InvParts DEF Moved, HandlersInv

(* Its calls to the provider.                                              *)
LEMMA StartCallMoves ==
  ASSUME PaymentsInv, NEW p \in Starter, StartCreate(p) \/ StartDenied(p) \/ StartExpire(p)
  PROVE  Moved
<1> DEFINE o == starter[p].order
<1>1. o \in Order /\ starter[p] \in StarterState
  BY InvParts DEF StarterInv, StartCreate, StartDenied, StartExpire
<1>2. CreateSession(o) \/ Close(o) \/ UNCHANGED <<session, link, refund, cached, notices>>
  BY DEF StartCreate, StartDenied, StartExpire, providerVars
<1>3. UNCHANGED vars /\ UNCHANGED <<hooks, refunder, job, crashes>>
  BY DEF StartCreate, StartDenied, StartExpire
<1> HIDE DEF o
<1>4. /\ ProviderInv' /\ SessionsOnward /\ RefundsOnward
      /\ \A q \in Order : session'[q] = "COMPLETE" => session[q] = "COMPLETE"
      /\ UNCHANGED <<link, refund>>
  BY <1>1, <1>2, InvParts, CreateMoves, CloseMoves, ProviderStays
<1>5. WorldMoves
  BY <1>3, <1>4, InvParts, ProviderOperation
<1>6. StarterInv'
  <2>1. CASE StartCreate(p)
    <3>1. [starter[p] EXCEPT !.pc = "SAVE"] = [pc |-> "SAVE", order |-> o]
      BY <1>1 DEF StarterState, o
    <3>2. starter' = [starter EXCEPT ![p] = [starter[p] EXCEPT !.pc = "SAVE"]]
      BY <2>1, InvParts DEF StartCreate, StarterInv
    <3>3. starter' = [starter EXCEPT ![p] = [pc |-> "SAVE", order |-> o]]
      BY <3>1, <3>2
    <3> QED
      BY <1>1, <3>3, InvParts, StarterGoes
  <2>2. CASE StartDenied(p) \/ StartExpire(p)
    <3>1. starter' = [starter EXCEPT ![p] = [pc |-> "IDLE", order |-> None]]
      BY <2>2 DEF StartDenied, StartExpire
    <3> QED
      BY <3>1, InvParts, StarterGoes
  <2> QED
    BY <2>1, <2>2
<1> QED
  BY <1>3, <1>5, <1>6, IdleHandlers, InvParts DEF Moved, HandlersInv

(* Its second transaction.                                                 *)
LEMMA StartSaveMoves ==
  ASSUME PaymentsInv, NEW p \in Starter, StartSave(p)
  PROVE  Moved
<1>1. PICK o \in Order : o = starter[p].order
  BY InvParts DEF StarterInv, StartSave
<1>2. /\ SaveSession(o)
      /\ link' = [link EXCEPT ![o] = @ \/ Payable(o)]
      /\ UNCHANGED <<session, refund, cached, notices, hooks, refunder, job, crashes>>
  BY <1>1 DEF StartSave
<1>3. (\A q \in Order : BooksMove(q)) /\ attempt'[o].session
  BY <1>2, InvParts, SaveBooks
<1>4. [Next]_vars
  BY <1>2 DEF Next, PaymentNext
<1>5. link' \in [Order -> BOOLEAN] /\ \A q \in Order : link'[q] => link[q] \/ attempt'[q].session
  BY <1>2, <1>3, InvParts
<1>6. WorldMoves
  BY <1>2, <1>3, <1>4, <1>5, InvParts, ShopTransaction
<1>7. StarterInv'
  <2>1. starter[p] \in StarterState
    BY InvParts DEF StarterInv
  <2>2. [starter[p] EXCEPT !.pc = "EXPIRE"] = [pc |-> "EXPIRE", order |-> o]
    BY <1>1, <2>1 DEF StarterState
  <2>3. starter' = IF Payable(o) THEN [starter EXCEPT ![p] = [pc |-> "IDLE", order |-> None]]
                   ELSE [starter EXCEPT ![p] = [pc |-> "EXPIRE", order |-> o]]
    BY <1>1, <2>2, InvParts DEF StartSave, StarterInv
  <2> QED
    BY <2>3, InvParts, StarterGoes
<1> QED
  BY <1>2, <1>6, <1>7, IdleHandlers, InvParts DEF Moved, HandlersInv

(* The request of staff to refund an order, step by step.                  *)
LEMMA RefundRequestMoves ==
  ASSUME PaymentsInv, NEW o \in Order, RefundRequest(o)
  PROVE  Moved
<1>1. /\ RequestRefund(o)
      /\ refunder' = [NoCall EXCEPT !.pc = "CALL", !.order = o]
      /\ UNCHANGED <<session, link, refund, cached, notices, hooks, starter, job, crashes>>
  BY DEF RefundRequest, providerVars
<1>2. (\A q \in Order : BooksMove(q)) /\ attempt'[o].refundRequested
  BY <1>1, InvParts, RequestBooks
<1>3. [Next]_vars
  BY <1>1 DEF Next, PaymentNext
<1>4. WorldMoves
  BY <1>1, <1>2, <1>3, InvParts, ShopTransaction
<1>5. RefunderInv'
  <2>1. refunder' = [pc |-> "CALL", order |-> o, refund |-> None, event |-> NoFact]
    BY <1>1 DEF NoCall
  <2>2. refunder' \in CallState /\ refunder'.pc = "CALL" /\ refunder'.order = o
    BY <2>1 DEF CallState
  <2>3. FactOK(refunder.event)'
    BY <2>1 DEF FactOK, TrueFact
  <2> QED
    BY <1>2, <2>2, <2>3 DEF RefunderInv, RefunderIs
<1> QED
  BY <1>1, <1>4, <1>5, IdleHandlers, InvParts DEF Moved, HandlersInv

(* Its call to the provider.                                               *)
LEMMA RefundCallMoves ==
  ASSUME PaymentsInv, NEW r \in RefundId, NEW status \in FirstStatus, RefundCall(r, status)
  PROVE  Moved
<1>1. PICK o \in Order : o = refunder.order /\ attempt[o].refundRequested
  BY InvParts DEF RefunderInv, RefunderIs, RefundCall
<1>2. /\ CallRefund(o, r, status)
      /\ refunder' = [refunder EXCEPT !.pc = "SAVE", !.refund = r,
                        !.event = RefundFact("response", r, status)']
      /\ UNCHANGED vars /\ UNCHANGED <<hooks, starter, job, crashes>>
  BY <1>1 DEF RefundCall
<1>3. /\ ProviderInv' /\ SessionsOnward /\ RefundsOnward
      /\ RefundIsOf(r, o)'
      /\ TrueFact(RefundFact("response", r, status)', session', refund')
      /\ \A q \in RefundId : refund'[q] = refund[q] \/ refund'[q].order = o
      /\ UNCHANGED <<session, link>>
  BY <1>2, InvParts, CallMoves
<1>4. WorldMoves
  BY <1>1, <1>2, <1>3, InvParts, ProviderOperation
<1>5. RefunderInv'
  <2>1. PICK e : e = RefundFact("response", r, status)'
    OBVIOUS
  <2>2. e \in Event \cup {NoFact}
    BY <1>3, <2>1 DEF TrueFact
  <2>3. refunder \in CallState
    BY InvParts DEF RefunderInv, RefunderIs
  <2>4. refunder' = [refunder EXCEPT !.pc = "SAVE", !.refund = r, !.event = e]
    BY <1>2, <2>1
  <2>5. /\ refunder' \in CallState
        /\ refunder'.pc = "SAVE" /\ refunder'.order = o /\ refunder'.refund = r
        /\ refunder'.event = e
    BY <1>1, <2>2, <2>3, <2>4 DEF CallState
  <2>6. attempt'[o].refundRequested
    BY <1>1, <1>2 DEF vars, shopVars
  <2>7. FactOK(refunder.event)'
    BY <1>3, <2>1, <2>5 DEF FactOK
  <2> QED
    BY <1>3, <2>5, <2>6, <2>7 DEF RefunderInv, RefunderIs
<1> QED
  BY <1>2, <1>4, <1>5, IdleHandlers, InvParts DEF Moved, HandlersInv

(* It writes down the refund that was made.                                *)
LEMMA RefundSaveMoves ==
  ASSUME PaymentsInv, RefundSave
  PROVE  Moved
<1>1. PICK o \in Order, r \in RefundId :
        o = refunder.order /\ r = refunder.refund /\ RefundIsOf(r, o)
  BY InvParts DEF RefunderInv, RefunderIs, RefundSave, RefundIsOf
<1>2. /\ SaveRefund(o, r)
      /\ refunder' = [refunder EXCEPT !.pc = "APPLY"]
      /\ UNCHANGED <<session, link, refund, cached, notices, hooks, starter, job, crashes>>
  BY <1>1 DEF RefundSave, providerVars
<1>3. \A q \in Order : BooksMove(q)
  BY <1>1, <1>2, InvParts, RecordBooks
<1>4. [Next]_vars
  BY <1>2 DEF Next, PaymentNext
<1>5. \A q \in Order : link'[q] => link[q] \/ attempt'[q].session
  BY <1>2
<1>6. WorldMoves
  BY <1>2, <1>3, <1>4, <1>5, InvParts, ShopTransaction
<1>7. RefunderInv'
  <2>1. RefunderIs(refunder) /\ refunder \in CallState /\ refunder.pc = "SAVE"
    BY InvParts DEF RefunderInv, RefunderIs, RefundSave
  <2>2. PICK c : c = [refunder EXCEPT !.pc = "APPLY"]
    OBVIOUS
  <2>3. /\ c \in CallState /\ c.pc = "APPLY" /\ c.order = refunder.order
        /\ c.refund = refunder.refund /\ c.event = refunder.event
    BY <2>1, <2>2 DEF CallState
  <2>4. RefunderIs(c)
    BY <2>1, <2>3 DEF RefunderIs
  <2>5. RefunderIs(c)'
    BY <1>6, <2>4, InvParts, RefunderLast
  <2> QED
    BY <1>2, <2>2, <2>5 DEF RefunderInv
<1> QED
  BY <1>2, <1>6, <1>7, IdleHandlers, InvParts DEF Moved, HandlersInv

(* It ends refused, or with what the provider answered.                    *)
LEMMA RefundEndMoves ==
  ASSUME PaymentsInv, RefundDenied \/ RefundApply
  PROVE  Moved
<1>1. /\ refunder' = NoCall
      /\ UNCHANGED <<session, link, refund, cached, notices, hooks, starter, job, crashes>>
  BY DEF RefundDenied, RefundApply, providerVars
<1>2. (\A q \in Order : BooksMove(q)) /\ [Next]_vars
  <2>1. CASE UNCHANGED vars
    BY <2>1, InvParts, QuietBooks
  <2>2. CASE ApplyFact(refunder.event)
    <3>1. PICK e : e = refunder.event
      OBVIOUS
    <3>2. FactOK(e) /\ ApplyFact(e)
      BY <2>2, <3>1, InvParts DEF RefunderInv, RefunderIs
    <3>3. ASSUME NEW q \in Order PROVE BooksMove(q) /\ [Next]_vars
      BY <3>2, InvParts, FactBooks
    <3>4. CASE Order = {}
      <4>1. e = NoFact
        BY <3>2, <3>4 DEF FactOK, TrueFact, Event
      <4> QED
        BY <3>2, <3>4, <4>1 DEF ApplyFact
    <3> QED
      BY <3>3, <3>4
  <2> QED
    BY <2>1, <2>2 DEF RefundDenied, RefundApply
<1>3. \A q \in Order : link'[q] => link[q] \/ attempt'[q].session
  BY <1>1
<1>4. WorldMoves
  BY <1>1, <1>2, <1>3, InvParts, ShopTransaction
<1> QED
  BY <1>1, <1>4, RefunderEndsWell, IdleHandlers, InvParts DEF Moved, HandlersInv
------------------------------------------------------------------------------
(* The transaction of a fact that is true.                                 *)
LEMMA FactTransaction ==
  ASSUME PaymentsInv, NEW e, FactOK(e), ApplyFact(e),
         UNCHANGED <<session, link, refund, cached, notices>>
  PROVE  WorldMoves
<1>1. ASSUME NEW q \in Order PROVE BooksMove(q) /\ [Next]_vars
  BY InvParts, FactBooks
<1>2. CASE Order = {}
  <2>1. e = NoFact
    BY <1>2 DEF FactOK, TrueFact, Event
  <2> QED
    BY <1>2, <2>1, InvParts, ShopTransaction DEF ApplyFact
<1>3. CASE Order # {}
  BY <1>1, <1>3, InvParts, ShopTransaction
<1> QED
  BY <1>2, <1>3

(* A step that only moves a handler.                                       *)
LEMMA HandlerOnly ==
  ASSUME PaymentsInv, UNCHANGED <<vars, session, link, refund, cached, notices>>
  PROVE  WorldMoves
<1>1. \A q \in Order : BooksMove(q)
  BY InvParts, QuietBooks
<1> QED
  BY <1>1, InvParts, ShopTransaction

(* Webhook requests: a true fact is verified, and applied.                 *)
LEMMA HookMoves ==
  ASSUME PaymentsInv,
         \/ \E n \in notices : HookVerify(n)
         \/ \E e \in hooks : HookApply(e)
  PROVE  Moved
<1>1. ASSUME NEW n \in notices, HookVerify(n) PROVE Moved
  <2>1. PICK e : e = Verified(n)
    OBVIOUS
  <2>2. /\ e # NoFact /\ hooks' = hooks \cup {e}
        /\ UNCHANGED <<vars, session, link, refund, cached, notices>>
        /\ UNCHANGED <<starter, refunder, job, crashes>>
    BY <1>1, <2>1 DEF HookVerify, providerVars
  <2>3. FactOK(e)
    BY <2>1, InvParts, VerifiedIsTrue
  <2>4. WorldMoves
    BY <2>2, HandlerOnly
  <2>5. e \in Event
    BY <2>2, <2>3 DEF FactOK, TrueFact
  <2>6. HooksInv'
    BY <2>2, <2>3, <2>4, <2>5, InvParts, KnownFactsLast DEF HooksInv
  <2> QED
    BY <2>2, <2>4, <2>6, IdleHandlers, InvParts DEF Moved, HandlersInv
<1>2. ASSUME NEW e \in hooks, HookApply(e) PROVE Moved
  <2>1. FactOK(e)
    BY InvParts DEF HooksInv
  <2>2. /\ ApplyFact(e) /\ hooks' \subseteq hooks
        /\ UNCHANGED <<session, link, refund, cached, notices>>
        /\ UNCHANGED <<starter, refunder, job, crashes>>
    BY <1>2 DEF HookApply, providerVars
  <2>3. WorldMoves
    BY <2>1, <2>2, FactTransaction
  <2>4. HooksInv'
    BY <2>2, <2>3, InvParts, HooksLast
  <2> QED
    BY <2>2, <2>3, <2>4, IdleHandlers, InvParts DEF Moved, HandlersInv
<1> QED
  BY <1>1, <1>2

(* The job and the rest, once the job is done with its step.               *)
LEMMA JobMoved ==
  ASSUME PaymentsInv, WorldMoves, JobInv', UNCHANGED <<hooks, starter, refunder, crashes>>
  PROVE  Moved
  BY IdleHandlers, InvParts DEF Moved, HandlersInv

(* The job has an order in hand.                                           *)
LEMMA JobAtWork ==
  ASSUME PaymentsInv, job.pc # "IDLE"
  PROVE  /\ job.order \in Order /\ job \in JobState
         /\ job.attempt.refund # None => RefundIsOf(job.attempt.refund, job.order)
         /\ job.attempt.refundRequested => attempt[job.order].refundRequested
         /\ job.pc = "REFUND" => job.attempt.refundRequested
         /\ job.pc \in {"RECORD", "SETTLE"} => RefundIsOf(job.refund, job.order)
         /\ FactOK(job.event)
  BY InvParts DEF JobInv, JobIs

(* The job takes a candidate from its list.                                *)
LEMMA JobTakeMoves ==
  ASSUME PaymentsInv, NEW o \in Order, JobTake(o)
  PROVE  Moved
<1>1. /\ job' = [NoJob EXCEPT !.pc = "READ", !.order = o, !.attempt = attempt[o]]
      /\ UNCHANGED <<vars, session, link, refund, cached, notices>>
      /\ UNCHANGED <<hooks, starter, refunder, crashes>>
  BY DEF JobTake, providerVars
<1>2. WorldMoves
  BY <1>1, HandlerOnly
<1>3. PICK a \in AttemptRecord : a = attempt[o]
  BY InvParts DEF TypeOK
<1>4. PICK j : j = [NoJob EXCEPT !.pc = "READ", !.order = o, !.attempt = a]
  OBVIOUS
<1>5. job' = j
  BY <1>1, <1>3, <1>4
<1>6. /\ j \in JobState /\ j.pc = "READ" /\ j.order = o /\ j.attempt = a
      /\ j.event = NoFact
  <2>1. NoAttempt \in AttemptRecord
    BY DEF NoAttempt, AttemptRecord, AttemptStatus
  <2>2. NoJob \in JobState /\ NoJob.event = NoFact
    BY <2>1 DEF NoJob, JobState, OrderStatus
  <2> QED
    BY <1>4, <2>2 DEF JobState
<1>7. a.refund # None => RefundIsOf(a.refund, o)
  BY <1>3, InvParts DEF BooksInv, KnownRefundOK
<1>8. FactOK(NoFact)
  BY DEF FactOK, TrueFact
<1>9. JobIs(j)
  BY <1>3, <1>6, <1>7, <1>8 DEF JobIs
<1>10. JobIs(j)'
  BY <1>2, <1>9, InvParts, JobLast
<1>11. JobInv'
  BY <1>5, <1>10 DEF JobInv
<1> QED
  BY <1>1, <1>2, <1>11, JobMoved

(* It reads the order of the candidate.                                    *)
LEMMA JobReadMoves ==
  ASSUME PaymentsInv, JobRead
  PROVE  Moved
<1>1. PICK status \in OrderStatus : status = order[job.order].status
  BY JobAtWork, InvParts DEF JobRead, TypeOK, OrderRecord
<1>2. PICK pc \in {"START", "OBSERVE"} : job' = [job EXCEPT !.status = status, !.pc = pc]
  BY <1>1 DEF JobRead
<1>3. /\ UNCHANGED <<vars, session, link, refund, cached, notices>>
      /\ UNCHANGED <<hooks, starter, refunder, crashes>>
  BY DEF JobRead, providerVars
<1>4. WorldMoves
  BY <1>3, HandlerOnly
<1>5. PICK j : j = [job EXCEPT !.status = status, !.pc = pc]
  OBVIOUS
<1>6. JobIs(job) /\ job \in JobState /\ job.pc = "READ"
  BY InvParts DEF JobInv, JobIs, JobRead
<1>7. /\ j \in JobState /\ j.pc = pc /\ j.order = job.order /\ j.attempt = job.attempt
      /\ j.event = job.event
  BY <1>5, <1>6 DEF JobState
<1>8. JobIs(j)
  BY <1>6, <1>7 DEF JobIs
<1>9. JobIs(j)'
  BY <1>4, <1>8, InvParts, JobLast
<1>10. JobInv'
  BY <1>2, <1>5, <1>9 DEF JobInv
<1> QED
  BY <1>3, <1>4, <1>10, JobMoved

(* It starts the payment of a guest who never got there, as ensureSession. *)
LEMMA JobStartMoves ==
  ASSUME PaymentsInv, JobStart
  PROVE  Moved
<1>1. PICK o \in Order : o = job.order
  BY JobAtWork DEF JobStart
<1>2. /\ EnsurePrepared(o)
      /\ UNCHANGED <<session, link, refund, cached, notices, hooks, starter, refunder, crashes>>
      /\ job' = NoJob \/ \E pc \in {"TAIL", "CREATE"} : job' = [job EXCEPT !.pc = pc]
  BY <1>1 DEF JobStart, JobEnds, JobMoves, providerVars
<1>3. [Next]_vars /\ \A q \in Order : BooksMove(q)
  <2>1. ASSUME NEW q \in Order PROVE BooksMove(q) /\ [Next]_vars
    BY <1>2, InvParts, PrepareBooks
  <2> QED
    BY <2>1
<1>4. WorldMoves
  BY <1>2, <1>3, InvParts, ShopTransaction
<1>5. job.pc # "IDLE"
  BY DEF JobStart
<1>6. JobInv'
  BY <1>2, <1>4, <1>5, InvParts, JobEndsWell, JobMovesOn
<1> QED
  BY <1>2, <1>4, <1>6, JobMoved

(* The second transaction of ensureSession, and what the provider refused. *)
LEMMA JobSaveMoves ==
  ASSUME PaymentsInv, JobSave \/ JobDenied
  PROVE  Moved
<1>1. CASE JobSave
  <2>1. PICK o \in Order : o = job.order
    BY <1>1, JobAtWork DEF JobSave
  <2>2. /\ SaveSession(o)
        /\ UNCHANGED <<session, link, refund, cached, notices, hooks, starter, refunder, crashes>>
        /\ \E pc \in {"TAIL", "CLOSE"} : job' = [job EXCEPT !.pc = pc]
    BY <1>1, <2>1 DEF JobSave, JobMoves, providerVars
  <2>3. \A q \in Order : BooksMove(q)
    BY <2>2, InvParts, SaveBooks
  <2>4. [Next]_vars
    BY <2>2 DEF Next, PaymentNext
  <2>5. WorldMoves
    BY <2>2, <2>3, <2>4, InvParts, ShopTransaction
  <2>6. JobInv'
    BY <1>1, <2>2, <2>5, InvParts, JobMovesOn DEF JobSave
  <2> QED
    BY <2>2, <2>5, <2>6, JobMoved
<1>2. CASE JobDenied
  <2>1. /\ job' = NoJob
        /\ UNCHANGED <<vars, session, link, refund, cached, notices>>
        /\ UNCHANGED <<hooks, starter, refunder, crashes>>
    BY <1>2 DEF JobDenied, JobEnds, providerVars
  <2>2. WorldMoves
    BY <2>1, HandlerOnly
  <2> QED
    BY <2>1, <2>2, JobEndsWell, JobMoved
<1> QED
  BY <1>1, <1>2

(* Its calls about sessions.                                               *)
LEMMA JobCallMoves ==
  ASSUME PaymentsInv, JobCreate \/ JobClose \/ JobTail
  PROVE  Moved
<1>1. PICK o \in Order : o = job.order
  BY JobAtWork DEF JobCreate, JobClose, JobTail
<1>2. /\ CreateSession(o) \/ Close(o) \/ UNCHANGED <<session, link, refund, cached, notices>>
      /\ UNCHANGED vars /\ UNCHANGED <<hooks, starter, refunder, crashes>>
      /\ job' = NoJob \/ job' = [job EXCEPT !.pc = "SAVE"]
      /\ job.pc # "IDLE"
  BY <1>1 DEF JobCreate, JobClose, JobTail, JobMoves, JobEnds, providerVars
<1>3. /\ ProviderInv' /\ SessionsOnward /\ RefundsOnward
      /\ \A q \in Order : session'[q] = "COMPLETE" => session[q] = "COMPLETE"
      /\ UNCHANGED <<link, refund>>
  BY <1>2, InvParts, CreateMoves, CloseMoves, ProviderStays
<1>4. WorldMoves
  BY <1>2, <1>3, InvParts, ProviderOperation
<1>5. JobInv'
  BY <1>2, <1>4, InvParts, JobEndsWell, JobMovesOn
<1> QED
  BY <1>2, <1>4, <1>5, JobMoved

(* It asks the provider what happened.                                     *)
LEMMA JobObserveMoves ==
  ASSUME PaymentsInv, JobObserve
  PROVE  Moved
<1>1. PICK e : e = Observed(job.order, job.attempt)
  OBVIOUS
<1>2. /\ job' = [job EXCEPT !.pc = "APPLY", !.event = e]
      /\ UNCHANGED <<vars, session, link, refund, cached, notices>>
      /\ UNCHANGED <<hooks, starter, refunder, crashes>>
  BY <1>1 DEF JobObserve, providerVars
<1>3. WorldMoves
  BY <1>2, HandlerOnly
<1>4. FactOK(e)
  BY <1>1, InvParts, JobAtWork, ObservedIsTrue DEF JobObserve
<1>5. e \in Event \cup {NoFact}
  BY <1>4 DEF FactOK, TrueFact
<1>6. PICK j : j = [job EXCEPT !.pc = "APPLY", !.event = e]
  OBVIOUS
<1>7. JobIs(job) /\ job \in JobState /\ job.pc = "OBSERVE"
  BY InvParts DEF JobInv, JobIs, JobObserve
<1>8. /\ j \in JobState /\ j.pc = "APPLY" /\ j.order = job.order
      /\ j.attempt = job.attempt /\ j.event = e
  BY <1>5, <1>6, <1>7 DEF JobState
<1>9. JobIs(j)
  BY <1>4, <1>7, <1>8 DEF JobIs
<1>10. JobIs(j)'
  BY <1>3, <1>9, InvParts, JobLast
<1>11. JobInv'
  BY <1>2, <1>6, <1>10 DEF JobInv
<1> QED
  BY <1>2, <1>3, <1>11, JobMoved

(* It applies what it saw, and what the provider answered.                 *)
LEMMA JobApplyMoves ==
  ASSUME PaymentsInv, JobApply \/ JobSettle
  PROVE  Moved
<1>1. PICK e : e = job.event
  OBVIOUS
<1>2. PICK pc \in {"REFUND", "TAIL"} :
        /\ job' = [job EXCEPT !.pc = pc]
        /\ pc = "REFUND" => job.attempt.refundRequested
  BY DEF JobApply, JobSettle, JobMoves, Retrying
<1>3. /\ ApplyFact(e) /\ job.pc # "IDLE"
      /\ UNCHANGED <<session, link, refund, cached, notices, hooks, starter, refunder, crashes>>
  BY <1>1 DEF JobApply, JobSettle, JobMoves, providerVars
<1>4. FactOK(e)
  BY <1>1, <1>3, JobAtWork
<1>5. WorldMoves
  BY <1>3, <1>4, FactTransaction
<1>6. JobInv'
  BY <1>2, <1>3, <1>5, InvParts, JobMovesOn
<1> QED
  BY <1>3, <1>5, <1>6, JobMoved

(* It makes the refund again that nobody heard of.                         *)
LEMMA JobRefundMoves ==
  ASSUME PaymentsInv, NEW r \in RefundId, NEW status \in FirstStatus, JobRefund(r, status)
  PROVE  Moved
<1>1. PICK o \in Order : o = job.order /\ attempt[o].refundRequested
  BY JobAtWork DEF JobRefund
<1>2. /\ CallRefund(o, r, status)
      /\ job' = [job EXCEPT !.pc = "RECORD", !.refund = r,
                        !.event = RefundFact("response", r, status)']
      /\ UNCHANGED vars /\ UNCHANGED <<hooks, starter, refunder, crashes>>
  BY <1>1 DEF JobRefund
<1>3. /\ ProviderInv' /\ SessionsOnward /\ RefundsOnward
      /\ RefundIsOf(r, o)'
      /\ TrueFact(RefundFact("response", r, status)', session', refund')
      /\ \A q \in RefundId : refund'[q] = refund[q] \/ refund'[q].order = o
      /\ UNCHANGED <<session, link>>
  BY <1>2, InvParts, CallMoves
<1>4. WorldMoves
  BY <1>1, <1>2, <1>3, InvParts, ProviderOperation
<1>5. PICK e : e = RefundFact("response", r, status)'
  OBVIOUS
<1>6. e \in Event \cup {NoFact}
  BY <1>3, <1>5 DEF TrueFact
<1>7. PICK j : j = job
  OBVIOUS
<1>8. JobIs(j)' /\ j \in JobState /\ j.pc = "REFUND" /\ j.order = o
  BY <1>1, <1>4, <1>7, InvParts, JobLast, JobAtWork DEF JobInv, JobRefund
<1>9. PICK k : k = [j EXCEPT !.pc = "RECORD", !.refund = r, !.event = e]
  OBVIOUS
<1>10. /\ k \in JobState /\ k.pc = "RECORD" /\ k.order = o /\ k.refund = r
       /\ k.attempt = j.attempt /\ k.event = e
  BY <1>6, <1>8, <1>9 DEF JobState
<1>11. FactOK(k.event)'
  BY <1>3, <1>5, <1>10 DEF FactOK
<1>12. /\ j.attempt.refund # None => RefundIsOf(j.attempt.refund, j.order)'
       /\ j.attempt.refundRequested => attempt'[j.order].refundRequested
  BY <1>8 DEF JobIs
<1>13. JobIs(k)'
  BY <1>3, <1>8, <1>10, <1>11, <1>12 DEF JobIs
<1>14. job' = k
  BY <1>2, <1>5, <1>7, <1>9
<1>15. JobInv'
  BY <1>13, <1>14 DEF JobInv
<1> QED
  BY <1>2, <1>4, <1>15, JobMoved

(* It writes down the refund that was made.                                *)
LEMMA JobRecordMoves ==
  ASSUME PaymentsInv, JobRecord
  PROVE  Moved
<1>1. PICK o \in Order, r \in RefundId :
        o = job.order /\ r = job.refund /\ RefundIsOf(r, o)
  BY JobAtWork DEF JobRecord, RefundIsOf
<1>2. /\ SaveRefund(o, r)
      /\ job.pc = "RECORD" /\ job' = [job EXCEPT !.pc = "SETTLE"]
      /\ UNCHANGED <<session, link, refund, cached, notices, hooks, starter, refunder, crashes>>
  BY <1>1 DEF JobRecord, JobMoves, providerVars
<1>3. \A q \in Order : BooksMove(q)
  BY <1>1, <1>2, InvParts, RecordBooks
<1>4. [Next]_vars
  BY <1>2 DEF Next, PaymentNext
<1>5. WorldMoves
  BY <1>2, <1>3, <1>4, InvParts, ShopTransaction
<1>6. JobInv'
  BY <1>1, <1>2, <1>5, InvParts, JobMovesOn
<1> QED
  BY <1>2, <1>5, <1>6, JobMoved

(* A handler dies.                                                         *)
LEMMA CrashMoves ==
  ASSUME PaymentsInv, Crash
  PROVE  Moved
<1>1. /\ UNCHANGED <<vars, session, link, refund, cached, notices>>
      /\ crashes < MaxCrashes /\ crashes' = crashes + 1
  BY DEF Crash, providerVars
<1>2. WorldMoves
  BY <1>1, HandlerOnly
<1>3. crashes' \in 0..MaxCrashes
  BY <1>1, InvParts, PaymentsAssumption
<1>4. CASE /\ \E p \in Starter : starter' = [starter EXCEPT ![p] = [pc |-> "IDLE", order |-> None]]
           /\ UNCHANGED <<hooks, refunder, job>>
  <2>1. StarterInv'
    BY <1>4, InvParts, StarterGoes
  <2> QED
    BY <1>2, <1>3, <1>4, <2>1, IdleHandlers, InvParts DEF Moved, HandlersInv
<1>5. CASE refunder' = NoCall /\ UNCHANGED <<hooks, starter, job>>
  BY <1>2, <1>3, <1>5, RefunderEndsWell, IdleHandlers, InvParts DEF Moved, HandlersInv
<1>6. CASE job' = NoJob /\ UNCHANGED <<hooks, starter, refunder>>
  BY <1>2, <1>3, <1>6, JobEndsWell, IdleHandlers, InvParts DEF Moved, HandlersInv
<1>7. CASE hooks' \subseteq hooks /\ UNCHANGED <<starter, refunder, job>>
  BY <1>2, <1>3, <1>7, HooksLast, IdleHandlers, InvParts DEF Moved, HandlersInv
<1> QED
  BY <1>4, <1>5, <1>6, <1>7 DEF Crash
------------------------------------------------------------------------------
(***************************************************************************)
(* The theorems.                                                           *)
(***************************************************************************)

(* No payment, no refund, no handler under way.                            *)
LEMMA PaymentsInvInit ==
  ASSUME PaymentsInit
  PROVE  PaymentsInv
<1>1. AllocInv
  BY AllocInvInit DEF PaymentsInit
<1>2. /\ \A o \in Order : order[o] = NoOrder /\ attempt[o] = NoAttempt
      /\ \A o \in Order : session[o] = "NONE" /\ link[o] = FALSE
      /\ \A o \in Order : cached[o].refund = None
      /\ \A r \in RefundId : refund[r] = NoRefund
      /\ notices = {}
  BY DEF PaymentsInit, Init
<1>3. Total \in Nat /\ Total # 0
  BY CommerceAssumption, PaymentsAssumption
<1>4. ProviderTypeOK
  BY <1>3 DEF PaymentsInit, ProviderTypeOK, SessionStatus, RefundRecord, CachedRecord,
              RefundStatus, NoRefund
<1>5. ASSUME NEW o \in Order, NEW statuses PROVE Returned(o, statuses) = 0
  <2>1. RefundUnits(o, statuses) = {}
    BY <1>2, PaymentsAssumption DEF RefundUnits, RefundsOf, NoRefund
  <2> QED
    BY <2>1, FS_EmptySet DEF Returned
<1>6. RefundsOK
  <2>1. MadeIn(refund) = {}
    BY <1>2 DEF MadeIn, NoRefund
  <2> QED
    BY <1>2, <1>3, <1>5, <2>1, FS_EmptySet DEF RefundsOK
<1>7. ProviderInv
  BY <1>2, <1>4, <1>6 DEF ProviderInv, CachedOK, NoticesOK
<1>8. BooksFollowMoney /\ AskedIsClosed /\ KnownRefundOK /\ IntentOK
  BY <1>2 DEF BooksFollowMoney, AskedIsClosed, KnownRefundOK, IntentOK,
              NoOrder, NoAttempt
<1>9. RefundedIsCovered /\ AskedOK
  BY <1>2, <1>3, <1>5 DEF RefundedIsCovered, AskedOK, NoOrder, NoRefund
<1>10. HooksInv /\ StarterInv
  BY DEF PaymentsInit, HooksInv, StarterInv, StarterState
<1>11. RefunderInv /\ JobInv
  <2>1. NoCall \in CallState /\ NoCall.pc = "IDLE" /\ NoCall.event = NoFact
    BY DEF NoCall, CallState
  <2>2. NoAttempt \in AttemptRecord
    BY DEF NoAttempt, AttemptRecord, AttemptStatus
  <2>3. NoJob \in JobState /\ NoJob.pc = "IDLE" /\ NoJob.event = NoFact
    BY <2>2 DEF NoJob, JobState, OrderStatus
  <2>4. FactOK(NoFact)
    BY DEF FactOK, TrueFact
  <2>5. refunder = NoCall /\ job = NoJob
    BY DEF PaymentsInit
  <2> QED
    BY <2>1, <2>3, <2>4, <2>5 DEF RefunderInv, RefunderIs, JobInv, JobIs
<1>12. crashes \in 0..MaxCrashes
  BY PaymentsAssumption DEF PaymentsInit
<1> QED
  BY <1>1, <1>7, <1>8, <1>9, <1>10, <1>11, <1>12 DEF PaymentsInv, BooksInv, HandlersInv

(* The job's steps.                                                        *)
LEMMA JobStepMoves ==
  ASSUME PaymentsInv, JobStep
  PROVE  Moved
  BY JobTakeMoves, JobReadMoves, JobStartMoves, JobSaveMoves, JobCallMoves, JobObserveMoves,
     JobApplyMoves, JobRefundMoves, JobRecordMoves DEF JobStep

(* Every step is one of the shop and keeps the invariant.                  *)
LEMMA PaymentsInvStep ==
  ASSUME PaymentsInv, [PaymentsNext]_paymentVars
  PROVE  PaymentsInv' /\ [Next]_vars
<1>1. CASE Meanwhile(ShopNext \/ OfficeMeanwhile) \/ UNCHANGED paymentVars
  BY <1>1, MeanwhileMoves DEF Moved, WorldMoves, PaymentsInv
<1>2. CASE ProviderNext
  BY <1>2, ProviderMoves DEF Moved, WorldMoves, PaymentsInv
<1>3. CASE HandlerNext
  <2>1. ASSUME NEW p \in Starter,
               \/ \E o \in Order : StartPrepare(p, o)
               \/ StartCreate(p) \/ StartDenied(p) \/ StartSave(p) \/ StartExpire(p)
        PROVE  Moved
    BY <2>1, StartPrepareMoves, StartCallMoves, StartSaveMoves
  <2>2. ASSUME \/ \E o \in Order : RefundRequest(o)
               \/ \E r \in RefundId, status \in FirstStatus : RefundCall(r, status)
               \/ RefundDenied \/ RefundSave \/ RefundApply
        PROVE  Moved
    BY <2>2, RefundRequestMoves, RefundCallMoves, RefundSaveMoves, RefundEndMoves
  <2>3. Moved
    BY <1>3, <2>1, <2>2, HookMoves, JobStepMoves, CrashMoves DEF HandlerNext
  <2> QED
    BY <2>3 DEF Moved, WorldMoves, PaymentsInv
<1> QED
  BY <1>1, <1>2, <1>3 DEF PaymentsNext

(* Sessions, refunds, notices and handlers keep their types.               *)
THEOREM PaymentsTypes == PaymentsSpec => []PaymentsTypeOK
<1>1. PaymentsInv => PaymentsTypeOK
  BY InvParts DEF PaymentsTypeOK, ProviderInv, ProviderTypeOK, HooksInv, StarterInv,
                  RefunderInv, RefunderIs, JobInv, JobIs
<1> QED
  BY <1>1, PaymentsInvInit, PaymentsInvStep, PTL DEF PaymentsSpec

(* Whatever handlers, webhooks, the job and the provider do, in whatever   *)
(* order and with whatever crashes, is a run of the shop of module         *)
(* Commerce: what is proved of its transactions holds of payments.ts.      *)
THEOREM PaymentsImplementShop == PaymentsSpec => Spec
<1>1. PaymentsInit => Init
  BY DEF PaymentsInit
<1> QED
  BY <1>1, PaymentsInvInit, PaymentsInvStep, PTL DEF PaymentsSpec, Spec

(* Goods leave only for a paid order, with the handlers of payments.ts     *)
(* running against the provider.                                           *)
THEOREM PaidGoodsLeaveOnly == PaymentsSpec => []GoodsLeavePaid
  BY PaymentsImplementShop, OnlyPaidGoodsLeave, PTL

(* An order is confirmed only for a session that was paid, and failed only *)
(* when its session can no longer be; and nobody can pay a session that    *)
(* the shop does not know of.                                              *)
THEOREM BooksFollowProvider == PaymentsSpec => []BooksFollowMoney
<1>1. PaymentsInv => BooksFollowMoney
  BY DEF PaymentsInv, BooksInv
<1> QED
  BY <1>1, PaymentsInvInit, PaymentsInvStep, PTL DEF PaymentsSpec

(* The books never say that more was returned than was.                    *)
THEOREM RefundsCovered == PaymentsSpec => []RefundedIsCovered
<1>1. PaymentsInv => RefundedIsCovered
  BY DEF PaymentsInv, BooksInv
<1> QED
  BY <1>1, PaymentsInvInit, PaymentsInvStep, PTL DEF PaymentsSpec

(* Once the full amount is on its way back the order cannot be shipped.    *)
THEOREM RefundedNotShipped == PaymentsSpec => []RefundedIsNotShippable
<1>1. PaymentsInv => RefundedIsNotShippable
  <2> SUFFICES ASSUME PaymentsInv, NEW r \in RefundId, refund[r].amount = Total
               PROVE  order[refund[r].order].status \notin {"PENDING", "PAID", "PREPARING"}
    BY DEF RefundedIsNotShippable
  <2>1. refund[r].order \in Order
    BY CommerceAssumption, PaymentsAssumption
       DEF PaymentsInv, ProviderInv, RefundsOK, NoRefund
  <2>2. attempt[refund[r].order].refundRequested
    BY DEF PaymentsInv, BooksInv, AskedOK
  <2>3. order[refund[r].order].status \in Closed \cup Gone
    BY <2>1, <2>2 DEF PaymentsInv, BooksInv, AskedIsClosed
  <2> QED
    BY <2>3 DEF Closed, Gone
<1> QED
  BY <1>1, PaymentsInvInit, PaymentsInvStep, PTL DEF PaymentsSpec
==============================================================================
