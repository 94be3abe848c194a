---------------------------- MODULE AccountsProofs ----------------------------
(***************************************************************************)
(* Proofs about module Accounts: sessions and links are current, disabled  *)
(* accounts come back fresh, and attempts are bounded.                     *)
(***************************************************************************)
EXTENDS Accounts, FiniteSetTheorems, TLAPS

(* Who is signed in has an account, enabled and with the password that was *)
(* given.                                                                  *)
SessionIsGood(s) ==
  session[s].status = "LIVE" =>
    /\ session[s].customer \in Customer
    /\ account[session[s].customer].status \notin {"NONE", "DISABLED"}
    /\ session[s].password = account[session[s].customer].password

(* A link was made for an account, and one that resets for its password.   *)
LinkIsGood(l) ==
  link[l].status # "UNUSED" =>
    /\ link[l].customer \in Customer
    /\ account[link[l].customer].status # "NONE"
    /\ link[l].status = "LIVE" /\ link[l].purpose = "RESET" =>
         link[l].password = account[link[l].customer].password

(* A request is about an account, and about a link that was stored.        *)
RequestIsGood(b) ==
  /\ task[b].op # "IDLE" =>
       task[b].customer \in Customer /\ account[task[b].customer].status # "NONE"
  /\ task[b].op \in {"DELIVER", "UNDELIVERED", "REDEEM"} =>
       task[b].link \in Link /\ link[task[b].link].status # "UNUSED"
  /\ task[b].op = "REDEEM" =>
       /\ link[task[b].link].customer = task[b].customer
       /\ link[task[b].link].purpose = task[b].purpose

(* Each reset has used up a link.                                          *)
ResetsUseLinks == \A c \in Customer : account[c].password <= 1 + Cardinality(Used(c))

AccountsInv ==
  /\ AccountsTypeOK
  /\ \A s \in Session : SessionIsGood(s)
  /\ \A l \in Link : LinkIsGood(l)
  /\ \A b \in Browser : RequestIsGood(b)
  /\ ResetsUseLinks
------------------------------------------------------------------------------
(* What the type invariant says of a row.                                  *)
LEMMA RowsTyped ==
  ASSUME AccountsTypeOK
  PROVE  /\ \A c \in Customer :
              /\ account[c].status \in {"NONE", "PENDING_VERIFICATION", "ACTIVE", "DISABLED"}
              /\ account[c].verified \in BOOLEAN /\ account[c].password \in Nat
         /\ \A s \in Session :
              /\ session[s].status \in {"UNUSED", "LIVE", "GONE"}
              /\ session[s].customer \in Customer \cup {None}
              /\ session[s].expiresAt \in Nat /\ session[s].password \in Nat
         /\ \A l \in Link :
              /\ link[l].status \in {"UNUSED", "LIVE", "GONE"}
              /\ link[l].customer \in Customer \cup {None}
              /\ link[l].purpose \in Purpose
              /\ link[l].expiresAt \in Nat /\ link[l].password \in Nat
         /\ \A b \in Browser :
              /\ task[b].customer \in Customer \cup {None}
              /\ task[b].op \in {"IDLE", "LOGIN", "ISSUE", "DELIVER", "UNDELIVERED",
                                 "REDEEM", "ADDRESS"}
              /\ task[b].password \in Nat /\ task[b].purpose \in Purpose
              /\ task[b].link \in Link \cup {None}
  BY DEF AccountsTypeOK, AccountRow, SessionRow, LinkRow, Request

(* The account after a verification.                                       *)
LEMMA RowVerified ==
  ASSUME NEW row \in AccountRow
  PROVE  LET new == [[row EXCEPT !.verified = TRUE] EXCEPT !.status = "ACTIVE"]
         IN new \in AccountRow /\ new.status = "ACTIVE" /\ new.password = row.password
  BY DEF AccountRow

(* The same for a reset.                                                   *)
LEMMA RowReset ==
  ASSUME NEW row \in AccountRow
  PROVE  LET new == [row EXCEPT !.password = row.password + 1]
         IN /\ new \in AccountRow /\ new.status = row.status
            /\ new.verified = row.verified /\ new.password = row.password + 1
  BY DEF AccountRow

(* The sessions that end.                                                  *)
LEMMA SessionsEnd ==
  ASSUME NEW rows \in [Session -> SessionRow], NEW gone
  PROVE  /\ Without(rows, gone) \in [Session -> SessionRow]
         /\ \A s \in Session :
              /\ Without(rows, gone)[s].status = IF s \in gone THEN "GONE" ELSE rows[s].status
              /\ Without(rows, gone)[s].customer = rows[s].customer
              /\ Without(rows, gone)[s].password = rows[s].password
<1> SUFFICES ASSUME NEW s \in Session
             PROVE  /\ Without(rows, gone)[s] \in SessionRow
                    /\ Without(rows, gone)[s].status =
                         IF s \in gone THEN "GONE" ELSE rows[s].status
                    /\ Without(rows, gone)[s].customer = rows[s].customer
                    /\ Without(rows, gone)[s].password = rows[s].password
  BY DEF Without
<1> PICK row \in SessionRow : row = rows[s]
  OBVIOUS
<1>1. Without(rows, gone)[s] = IF s \in gone THEN [row EXCEPT !.status = "GONE"] ELSE row
  BY DEF Without
<1> QED
  BY <1>1 DEF SessionRow

(* The links that are consumed or dropped.                                 *)
LEMMA LinksEnd ==
  ASSUME NEW rows \in [Link -> LinkRow], NEW gone
  PROVE  /\ Without(rows, gone) \in [Link -> LinkRow]
         /\ \A l \in Link :
              /\ Without(rows, gone)[l].status = IF l \in gone THEN "GONE" ELSE rows[l].status
              /\ Without(rows, gone)[l].customer = rows[l].customer
              /\ Without(rows, gone)[l].purpose = rows[l].purpose
              /\ Without(rows, gone)[l].password = rows[l].password
<1> SUFFICES ASSUME NEW l \in Link
             PROVE  /\ Without(rows, gone)[l] \in LinkRow
                    /\ Without(rows, gone)[l].status =
                         IF l \in gone THEN "GONE" ELSE rows[l].status
                    /\ Without(rows, gone)[l].customer = rows[l].customer
                    /\ Without(rows, gone)[l].purpose = rows[l].purpose
                    /\ Without(rows, gone)[l].password = rows[l].password
  BY DEF Without
<1> PICK row \in LinkRow : row = rows[l]
  OBVIOUS
<1>1. Without(rows, gone)[l] = IF l \in gone THEN [row EXCEPT !.status = "GONE"] ELSE row
  BY DEF Without
<1> QED
  BY <1>1 DEF LinkRow

(* A session that is opened takes the place of the one the browser had.    *)
LEMMA SessionOpened ==
  ASSUME AccountsTypeOK, NEW b \in Browser, NEW s \in Session, NEW c \in Customer,
         NEW password \in Nat, OpenSession(b, s, c, password), AccountsAssumption
  PROVE  /\ session' \in [Session -> SessionRow]
         /\ cookie' \in [Browser -> Session \cup {None}]
         /\ \A t \in Session :
              \/ session'[t].status # "LIVE"
              \/ session'[t].customer = c /\ session'[t].password = password
              \/ /\ session[t].status = "LIVE"
                 /\ session'[t].customer = session[t].customer
                 /\ session'[t].password = session[t].password
<1> DEFINE ended == Without(session, {cookie[b]})
           row == [status |-> "LIVE", customer |-> c, expiresAt |-> now + SessionTime,
                   password |-> password]
<1>1. /\ ended \in [Session -> SessionRow]
      /\ \A t \in Session :
           /\ ended[t].status = IF t \in {cookie[b]} THEN "GONE" ELSE session[t].status
           /\ ended[t].customer = session[t].customer
           /\ ended[t].password = session[t].password
  <2>1. session \in [Session -> SessionRow]
    BY DEF AccountsTypeOK
  <2> QED
    BY <2>1, SessionsEnd
<1>2. row \in SessionRow
  BY DEF SessionRow, AccountsTypeOK, AccountsAssumption
<1>3. session' = [ended EXCEPT ![s] = row] /\ cookie' = [cookie EXCEPT ![b] = s]
  BY DEF OpenSession
<1>4. row.customer = c /\ row.password = password
  OBVIOUS
<1> HIDE DEF ended, row
<1>5. \A t \in Session : session'[t] = IF t = s THEN row ELSE ended[t]
  BY <1>1, <1>3
<1>6. session' \in [Session -> SessionRow] /\ cookie' \in [Browser -> Session \cup {None}]
  BY <1>1, <1>2, <1>3 DEF AccountsTypeOK
<1> QED
  BY <1>1, <1>4, <1>5, <1>6

(* The requests after one has begun or ended.                              *)
LEMMA RequestBegins ==
  ASSUME AccountsTypeOK, NEW b \in Browser,
         NEW op \in {"LOGIN", "ISSUE", "REDEEM", "ADDRESS"}, NEW c \in Customer,
         NEW password \in Nat, NEW purpose \in Purpose, NEW l \in Link \cup {None},
         Begin(b, op, c, password, purpose, l)
  PROVE  /\ task' \in [Browser -> Request]
         /\ \A d \in Browser : d # b => task'[d] = task[d]
         /\ task'[b].op = op /\ task'[b].customer = c /\ task'[b].password = password
         /\ task'[b].purpose = purpose /\ task'[b].link = l
<1> DEFINE row == [op |-> op, customer |-> c, password |-> password, purpose |-> purpose,
                   link |-> l]
<1>1. row \in Request
  BY DEF Request
<1>2. task' = [task EXCEPT ![b] = row]
  BY DEF Begin
<1>3. task \in [Browser -> Request]
  BY DEF AccountsTypeOK
<1>4. /\ row.op = op /\ row.customer = c /\ row.password = password
      /\ row.purpose = purpose /\ row.link = l
  OBVIOUS
<1> HIDE DEF row
<1> QED
  BY <1>1, <1>2, <1>3, <1>4

(* The requests when one is over.                                          *)
LEMMA RequestEnds ==
  ASSUME AccountsTypeOK, NEW b \in Browser, Finish(b)
  PROVE  /\ task' \in [Browser -> Request]
         /\ \A d \in Browser : task'[d] = IF d = b THEN Idle ELSE task[d]
<1>1. Idle \in Request
  BY DEF Idle, Request, Purpose
<1> QED
  BY <1>1 DEF Finish, AccountsTypeOK

(* The attempts after one that may pass.                                   *)
LEMMA BookTyped ==
  ASSUME AccountsTypeOK, AccountsAssumption, NEW kind, NEW c \in Customer, Passes(kind, c)
  PROVE  /\ window' \in [Rate -> [count : Nat, expiresAt : Nat]]
         /\ passed' \in [Rate \X (0..MaxTime) -> Nat]
<1> DEFINE r == <<kind, c>>
<1>1. CASE r \in Rate
  <2>1. window[r] \in [count : Nat, expiresAt : Nat] /\ now \in Nat /\ WindowTime \in Nat
    BY <1>1 DEF AccountsTypeOK, AccountsAssumption
  <2> PICK w \in [count : Nat, expiresAt : Nat] : w = window[r]
    BY <2>1
  <2>2. Counted(r) = IF w.expiresAt <= now THEN [count |-> 1, expiresAt |-> now + WindowTime]
                     ELSE [w EXCEPT !.count = w.count + 1]
    BY DEF Counted
  <2>3. Counted(r) \in [count : Nat, expiresAt : Nat]
    BY <2>1, <2>2
  <2>4. window' = [window EXCEPT ![r] = Counted(r)]
        /\ passed' = [passed EXCEPT ![<<r, now>>] = passed[<<r, now>>] + 1]
    BY <1>1 DEF Passes
  <2>5. <<r, now>> \in Rate \X (0..MaxTime)
    BY <1>1 DEF AccountsTypeOK
  <2> PICK p \in Nat : p = passed[<<r, now>>]
    BY <2>5 DEF AccountsTypeOK
  <2>6. passed' = [passed EXCEPT ![<<r, now>>] = p + 1]
    BY <2>4
  <2> HIDE DEF r
  <2>7. window' \in [Rate -> [count : Nat, expiresAt : Nat]]
    BY <2>3, <2>4 DEF AccountsTypeOK
  <2>8. passed' \in [Rate \X (0..MaxTime) -> Nat]
    <3>1. p + 1 \in Nat /\ passed \in [Rate \X (0..MaxTime) -> Nat]
      BY DEF AccountsTypeOK
    <3> QED
      BY <2>6, <3>1
  <2> QED
    BY <2>7, <2>8
<1>2. CASE r \notin Rate
  BY <1>2 DEF Passes, book, AccountsTypeOK
<1> QED
  BY <1>1, <1>2
------------------------------------------------------------------------------
(* Accounts and links that were made stay made, and links stay consumed.   *)
AccountsStay == \A c \in Customer : account[c].status # "NONE" => account'[c].status # "NONE"
LinksStay ==
  \A l \in Link : link[l].status # "UNUSED" =>
    /\ link'[l].status # "UNUSED" /\ (link[l].status = "GONE" => link'[l].status = "GONE")
    /\ link'[l].customer = link[l].customer /\ link'[l].purpose = link[l].purpose

(* The requests that a step leaves alone or ends stay good.                *)
LEMMA RequestsKept ==
  ASSUME AccountsInv, AccountsStay, LinksStay,
         \A b \in Browser : task'[b] = task[b] \/ task'[b] = Idle \/ RequestIsGood(b)'
  PROVE  \A b \in Browser : RequestIsGood(b)'
<1> SUFFICES ASSUME NEW b \in Browser, ~RequestIsGood(b)' PROVE FALSE
  OBVIOUS
<1>1. task'[b] = task[b] \/ task'[b] = Idle
  OBVIOUS
<1>2. RequestIsGood(b)
  BY DEF AccountsInv
<1>3. CASE task'[b] = Idle
  BY <1>3 DEF Idle, RequestIsGood
<1>4. CASE task'[b] = task[b]
  BY <1>2, <1>4 DEF RequestIsGood, AccountsStay, LinksStay
<1> QED
  BY <1>1, <1>3, <1>4

(* A step that only sets first passwords keeps the account of resets.      *)
LEMMA ResetsKept ==
  ASSUME AccountsInv, AccountsTypeOK', LinksStay, AccountsAssumption,
         \A c \in Customer : account'[c].password \in {1, account[c].password}
  PROVE  ResetsUseLinks'
<1> SUFFICES ASSUME NEW c \in Customer
             PROVE  account'[c].password <= 1 + Cardinality(Used(c)')
  BY DEF ResetsUseLinks, Used
<1>1. Used(c) \subseteq Used(c)'
  BY DEF LinksStay, Used
<1>2. IsFiniteSet(Used(c)')
  BY FS_Subset DEF AccountsAssumption, Used
<1>3. Cardinality(Used(c)) <= Cardinality(Used(c)')
      /\ Cardinality(Used(c)) \in Nat /\ Cardinality(Used(c)') \in Nat
  BY <1>1, <1>2, FS_Subset, FS_CardinalityType
<1>4. account[c].password <= 1 + Cardinality(Used(c))
  BY DEF AccountsInv, ResetsUseLinks
<1>5. account[c].password \in Nat
  BY RowsTyped DEF AccountsInv
<1> QED
  BY <1>3, <1>4, <1>5

(* A step that only moves requests, the clock, the mail, the address book  *)
(* or the attempts.                                                        *)
LEMMA QuietStep ==
  ASSUME AccountsInv, AccountsTypeOK', AccountsAssumption, UNCHANGED <<account, session, link>>,
         \A b \in Browser : task'[b] = task[b] \/ task'[b] = Idle \/ RequestIsGood(b)'
  PROVE  AccountsInv'
<1>1. AccountsStay /\ LinksStay
  BY DEF AccountsStay, LinksStay
<1>2. \A b \in Browser : RequestIsGood(b)'
  BY <1>1, RequestsKept
<1>3. ResetsUseLinks'
  BY <1>1, ResetsKept
<1>4. \A s \in Session : SessionIsGood(s)'
  BY DEF SessionIsGood, AccountsInv
<1>5. \A l \in Link : LinkIsGood(l)'
  BY DEF LinkIsGood, AccountsInv
<1> QED
  BY <1>2, <1>3, <1>4, <1>5 DEF AccountsInv

(* The same for a step after which one request is over.                    *)
LEMMA QuietEnd ==
  ASSUME AccountsInv, AccountsAssumption, NEW b \in Browser, Finish(b),
         UNCHANGED <<now, account, session, link, cookie, book>>,
         mailed' \subseteq Link, address' \in [AddressId -> AddressRow]
  PROVE  AccountsInv'
<1>1. AccountsTypeOK
  BY DEF AccountsInv
<1>2. /\ task' \in [Browser -> Request]
      /\ \A d \in Browser : task'[d] = IF d = b THEN Idle ELSE task[d]
  BY <1>1, RequestEnds
<1>3. AccountsTypeOK'
  BY <1>1, <1>2 DEF AccountsTypeOK, book
<1> QED
  BY <1>2, <1>3, QuietStep

(* The same for a step with which a request begins.                        *)
LEMMA QuietBegin ==
  ASSUME AccountsInv, AccountsAssumption, NEW b \in Browser,
         NEW op \in {"LOGIN", "ISSUE", "ADDRESS"}, NEW c \in Customer, NEW password \in Nat,
         NEW purpose \in Purpose, Begin(b, op, c, password, purpose, None),
         account[c].status # "NONE",
         UNCHANGED <<now, account, session, link, mailed, address, cookie>>,
         UNCHANGED book \/ \E kind \in Attempt : Passes(kind, c)
  PROVE  AccountsInv'
<1>1. AccountsTypeOK
  BY DEF AccountsInv
<1>2. /\ task' \in [Browser -> Request]
      /\ \A d \in Browser : d # b => task'[d] = task[d]
      /\ task'[b].op = op /\ task'[b].customer = c
  BY <1>1, RequestBegins
<1>3. /\ window' \in [Rate -> [count : Nat, expiresAt : Nat]]
      /\ passed' \in [Rate \X (0..MaxTime) -> Nat]
  <2>1. CASE UNCHANGED book
    BY <1>1, <2>1 DEF AccountsTypeOK, book
  <2>2. CASE \E kind \in Attempt : Passes(kind, c)
    BY <1>1, <2>2, BookTyped
  <2> QED
    BY <2>1, <2>2
<1>4. AccountsTypeOK'
  BY <1>1, <1>2, <1>3 DEF AccountsTypeOK
<1>5. RequestIsGood(b)'
  BY <1>2 DEF RequestIsGood
<1> QED
  BY <1>2, <1>4, <1>5, QuietStep
------------------------------------------------------------------------------
(* Who is signed in has an account.                                        *)
LEMMA SignedInHasAccount ==
  ASSUME AccountsInv, NEW b \in Browser, NEW c \in Customer, SignedIn(b, c)
  PROVE  account[c].status # "NONE"
<1>1. cookie[b] \in Session
  BY DEF SignedIn, AccountsInv, AccountsTypeOK
<1>2. SessionIsGood(cookie[b])
  BY <1>1 DEF AccountsInv
<1> QED
  BY <1>1, <1>2 DEF SignedIn, SessionIsGood

(* Each action keeps the invariant: the first half of a login.             *)
LEMMA ReadLoginKeeps ==
  ASSUME AccountsInv, AccountsAssumption, NEW b \in Browser, NEW c \in Customer, ReadLogin(b, c)
  PROVE  AccountsInv'
<1>1. account[c].password \in Nat
  BY RowsTyped DEF AccountsInv
<1>2. Begin(b, "LOGIN", c, account[c].password, "RESET", None) /\ account[c].status # "NONE"
  BY DEF ReadLogin
<1>3. Passes("LOGIN", c) /\ UNCHANGED <<now, account, session, link, mailed, address, cookie>>
  BY DEF ReadLogin
<1>4. PICK password \in Nat : password = account[c].password
  BY <1>1
<1>5. \E kind \in Attempt : Passes(kind, c)
  BY <1>3 DEF Attempt
<1>6. Begin(b, "LOGIN", c, password, "RESET", None)
  BY <1>2, <1>4
<1> QED
  BY <1>2, <1>3, <1>5, <1>6, QuietBegin DEF Purpose

(* A reset that is asked for.                                              *)
LEMMA RequestResetKeeps ==
  ASSUME AccountsInv, AccountsAssumption, NEW b \in Browser, NEW c \in Customer,
         RequestReset(b, c)
  PROVE  AccountsInv'
<1>1. \E kind \in Attempt : Passes(kind, c)
  BY DEF RequestReset, Attempt
<1>2. /\ Begin(b, "ISSUE", c, 0, "RESET", None) /\ account[c].status # "NONE"
      /\ UNCHANGED <<now, account, session, link, mailed, address, cookie>>
  BY DEF RequestReset
<1> QED
  BY <1>1, <1>2, QuietBegin DEF Purpose

(* A verification that is asked for.                                       *)
LEMMA RequestVerificationKeeps ==
  ASSUME AccountsInv, AccountsAssumption, NEW b \in Browser, NEW c \in Customer,
         RequestVerification(b, c)
  PROVE  AccountsInv'
<1>1. \E kind \in Attempt : Passes(kind, c)
  BY DEF RequestVerification, Attempt
<1>2. /\ Begin(b, "ISSUE", c, 0, "VERIFY", None) /\ account[c].status # "NONE"
      /\ UNCHANGED <<now, account, session, link, mailed, address, cookie>>
  BY SignedInHasAccount DEF RequestVerification
<1> QED
  BY <1>1, <1>2, QuietBegin DEF Purpose

(* A visit to the address book.                                            *)
LEMMA OpenBookKeeps ==
  ASSUME AccountsInv, AccountsAssumption, NEW b \in Browser, NEW c \in Customer, OpenBook(b, c)
  PROVE  AccountsInv'
<1>1. /\ Begin(b, "ADDRESS", c, 0, "RESET", None) /\ account[c].status # "NONE"
      /\ UNCHANGED <<now, account, session, link, mailed, address, cookie>> /\ UNCHANGED book
  BY SignedInHasAccount DEF OpenBook
<1> QED
  BY <1>1, QuietBegin DEF Purpose

(* The call of the mail provider.                                          *)
LEMMA MailKeeps ==
  ASSUME AccountsInv, AccountsAssumption, NEW b \in Browser,
         MailAccepted(b) \/ MailFailed(b)
  PROVE  AccountsInv'
<1> PICK t \in Request : t = task[b]
  BY DEF AccountsInv, AccountsTypeOK
<1>1. t.op = "DELIVER" /\ t.link \in Link /\ link[t.link].status # "UNUSED"
      /\ t.customer \in Customer /\ account[t.customer].status # "NONE"
  BY DEF AccountsInv, RequestIsGood, MailAccepted, MailFailed
<1>2. mailed' \subseteq Link
  BY <1>1 DEF AccountsInv, AccountsTypeOK, MailAccepted, MailFailed
<1>3. CASE MailAccepted(b)
  <2>1. UNCHANGED <<now, account, session, link, cookie, book>> /\ Finish(b)
        /\ address' \in [AddressId -> AddressRow]
    BY <1>3 DEF MailAccepted, AccountsInv, AccountsTypeOK
  <2> QED
    BY <1>2, <2>1, QuietEnd
<1>4. CASE MailFailed(b)
  <2>1. UNCHANGED <<now, account, session, link, address, cookie, book>>
    BY <1>4 DEF MailFailed
  <2>2. task' = [task EXCEPT ![b].op = "UNDELIVERED"]
    BY <1>4 DEF MailFailed
  <2>3. task' = [task EXCEPT ![b] = [t EXCEPT !.op = "UNDELIVERED"]]
    BY <2>2
  <2> PICK new \in Request : new = [t EXCEPT !.op = "UNDELIVERED"]
    BY DEF Request
  <2>4. new.op = "UNDELIVERED" /\ new.customer = t.customer /\ new.link = t.link
    BY DEF Request
  <2>5. task' \in [Browser -> Request]
        /\ \A d \in Browser : task'[d] = IF d = b THEN new ELSE task[d]
    BY <2>3 DEF AccountsInv, AccountsTypeOK
  <2>6. AccountsTypeOK'
    BY <1>2, <2>1, <2>5 DEF AccountsInv, AccountsTypeOK, book
  <2>7. RequestIsGood(b)'
    BY <1>1, <2>1, <2>4, <2>5 DEF RequestIsGood
  <2> QED
    BY <2>1, <2>5, <2>6, <2>7, QuietStep
<1> QED
  BY <1>3, <1>4

(* A link that is followed.                                                *)
LEMMA PresentKeeps ==
  ASSUME AccountsInv, AccountsAssumption, NEW b \in Browser, NEW l \in Link, Present(b, l)
  PROVE  AccountsInv'
<1>1. /\ link[l].status = "LIVE" /\ link[l].purpose \in Purpose
      /\ link[l].customer \in Customer /\ account[link[l].customer].status # "NONE"
  BY RowsTyped DEF Present, AccountsInv, LinkIsGood
<1>2. PICK c \in Customer : c = link[l].customer
  BY <1>1
<1>3. PICK purpose \in Purpose : purpose = link[l].purpose
  BY <1>1
<1>4. Begin(b, "REDEEM", c, 0, purpose, l)
  BY <1>2, <1>3 DEF Present
<1>5. /\ task' \in [Browser -> Request]
      /\ \A d \in Browser : d # b => task'[d] = task[d]
      /\ task'[b].op = "REDEEM" /\ task'[b].customer = c
      /\ task'[b].purpose = purpose /\ task'[b].link = l
  <2>1. AccountsTypeOK
    BY DEF AccountsInv
  <2> QED
    BY <1>4, <2>1, RequestBegins
<1>6. UNCHANGED <<now, account, session, link, mailed, address, cookie, book>>
  BY DEF Present
<1>7. AccountsTypeOK'
  BY <1>5, <1>6 DEF AccountsInv, AccountsTypeOK, book
<1>8. RequestIsGood(b)'
  BY <1>1, <1>2, <1>3, <1>5, <1>6 DEF RequestIsGood
<1> QED
  BY <1>5, <1>6, <1>7, <1>8, QuietStep

(* A change of the address book.                                           *)
LEMMA AddressKeeps ==
  ASSUME AccountsInv, AccountsAssumption, NEW b \in Browser, NEW a \in AddressId,
         DeleteAddress(b, a) \/ \E d \in BOOLEAN : SaveAddress(b, a, d)
  PROVE  AccountsInv'
<1>1. Finish(b) /\ UNCHANGED <<now, account, session, link, mailed, cookie, book>>
  BY DEF DeleteAddress, SaveAddress
<1>2. mailed' \subseteq Link
  BY <1>1 DEF AccountsInv, AccountsTypeOK
<1>3. address \in [AddressId -> AddressRow] /\ task[b].customer \in Customer \cup {None}
  BY RowsTyped DEF AccountsInv, AccountsTypeOK
<1>4. CASE DeleteAddress(b, a)
  <2>1. NoAddress \in AddressRow /\ address' = [address EXCEPT ![a] = NoAddress]
    BY <1>4 DEF DeleteAddress, NoAddress, AddressRow
  <2>2. address' \in [AddressId -> AddressRow]
    BY <1>3, <2>1
  <2> QED
    BY <1>1, <1>2, <2>2, QuietEnd
<1>5. ASSUME NEW d \in BOOLEAN, SaveAddress(b, a, d) PROVE AccountsInv'
  <2>1. address' = Entry(a, task[b].customer, d)
    BY <1>5 DEF SaveAddress
  <2> PICK c \in Customer \cup {None} : c = task[b].customer
    BY <1>3
  <2>2. ASSUME NEW x \in AddressId PROVE address'[x] \in AddressRow
    <3> PICK row \in AddressRow : row = address[x]
      BY <1>3
    <3>1. address'[x] = IF x = a THEN [customer |-> c, default |-> d]
                        ELSE IF d /\ row.customer = c THEN [row EXCEPT !.default = FALSE]
                        ELSE row
      BY <2>1 DEF Entry
    <3>2. [customer |-> c, default |-> d] \in AddressRow
          /\ [row EXCEPT !.default = FALSE] \in AddressRow
      BY DEF AddressRow
    <3> QED
      BY <3>1, <3>2
  <2>3. address' \in [AddressId -> AddressRow]
    BY <2>1, <2>2 DEF Entry
  <2> QED
    BY <1>1, <1>2, <2>3, QuietEnd
<1> QED
  BY <1>4, <1>5
------------------------------------------------------------------------------
(* What a step shows when it lets no live session or link pass that was    *)
(* not live before, and keeps what their accounts say.                     *)
LEMMA FewerKept ==
  ASSUME AccountsInv, AccountsTypeOK', AccountsAssumption, AccountsStay, LinksStay,
         \A b \in Browser : task'[b] = task[b] \/ task'[b] = Idle \/ RequestIsGood(b)',
         \A c \in Customer : account'[c].password \in {1, account[c].password},
         \A s \in Session : session'[s].status = "LIVE" =>
           /\ session[s].status = "LIVE"
           /\ session'[s].customer = session[s].customer
           /\ session'[s].password = session[s].password
           /\ account'[session[s].customer].password = account[session[s].customer].password
           /\ account'[session[s].customer].status \notin {"NONE", "DISABLED"},
         \A l \in Link : link'[l].status # "UNUSED" => link[l].status # "UNUSED",
         \A l \in Link : link'[l].status = "LIVE" =>
           /\ link[l].status = "LIVE"
           /\ link'[l].password = link[l].password
           /\ account'[link[l].customer].password = account[link[l].customer].password
  PROVE  AccountsInv'
<1>1. \A b \in Browser : RequestIsGood(b)'
  BY RequestsKept
<1>2. ResetsUseLinks'
  BY ResetsKept
<1>3. \A s \in Session : SessionIsGood(s)'
  BY DEF SessionIsGood, AccountsInv
<1>4. \A l \in Link : LinkIsGood(l)'
  BY DEF LinkIsGood, AccountsInv, LinksStay, AccountsStay
<1> QED
  BY <1>1, <1>2, <1>3, <1>4 DEF AccountsInv

(* A logout.                                                               *)
LEMMA LogoutKeeps ==
  ASSUME AccountsInv, AccountsAssumption, NEW b \in Browser, Logout(b)
  PROVE  AccountsInv'
<1>1. session \in [Session -> SessionRow]
  BY DEF AccountsInv, AccountsTypeOK
<1>2. /\ session' \in [Session -> SessionRow]
      /\ \A s \in Session :
           /\ session'[s].status = IF s \in {cookie[b]} THEN "GONE" ELSE session[s].status
           /\ session'[s].customer = session[s].customer
           /\ session'[s].password = session[s].password
  BY <1>1, SessionsEnd DEF Logout
<1>3. cookie' \in [Browser -> Session \cup {None}]
  BY DEF Logout, AccountsInv, AccountsTypeOK
<1>4. UNCHANGED <<now, account, link, mailed, address, task, book>>
  BY DEF Logout
<1>5. AccountsTypeOK'
  BY <1>2, <1>3, <1>4 DEF AccountsInv, AccountsTypeOK, book
<1>6. AccountsStay /\ LinksStay
  BY <1>4 DEF AccountsStay, LinksStay
<1>7. \A s \in Session : SessionIsGood(s)
  BY DEF AccountsInv
<1> QED
  BY <1>2, <1>4, <1>5, <1>6, <1>7, FewerKept DEF SessionIsGood

(* The maintenance script.                                                 *)
LEMMA PurgeKeeps ==
  ASSUME AccountsInv, AccountsAssumption, Purge
  PROVE  AccountsInv'
<1> DEFINE old == {s \in Session : session[s].status = "LIVE" /\ session[s].expiresAt <= now}
           past == {l \in Link : link[l].status = "LIVE" /\ link[l].expiresAt <= now}
<1>1. session \in [Session -> SessionRow] /\ link \in [Link -> LinkRow]
  BY DEF AccountsInv, AccountsTypeOK
<1>2. /\ session' \in [Session -> SessionRow]
      /\ \A s \in Session :
           /\ session'[s].status = IF s \in old THEN "GONE" ELSE session[s].status
           /\ session'[s].customer = session[s].customer
           /\ session'[s].password = session[s].password
  <2>1. session' = Without(session, old)
    BY DEF Purge
  <2> HIDE DEF old
  <2> QED
    BY <1>1, <2>1, SessionsEnd
<1>3. /\ link' \in [Link -> LinkRow]
      /\ \A l \in Link :
           /\ link'[l].status = IF l \in past THEN "GONE" ELSE link[l].status
           /\ link'[l].customer = link[l].customer
           /\ link'[l].purpose = link[l].purpose
           /\ link'[l].password = link[l].password
  <2>1. link' = Without(link, past)
    BY DEF Purge
  <2> HIDE DEF past
  <2> QED
    BY <1>1, <2>1, LinksEnd
<1>4. window' \in [Rate -> [count : Nat, expiresAt : Nat]]
  BY DEF Purge, AccountsInv, AccountsTypeOK
<1>5. UNCHANGED <<now, account, mailed, address, cookie, task, passed>>
  BY DEF Purge
<1>6. AccountsTypeOK'
  BY <1>2, <1>3, <1>4, <1>5 DEF AccountsInv, AccountsTypeOK
<1>7. AccountsStay /\ LinksStay
  BY <1>3, <1>5 DEF AccountsStay, LinksStay
<1>8. \A s \in Session : SessionIsGood(s)
  BY DEF AccountsInv
<1> QED
  BY <1>2, <1>3, <1>5, <1>6, <1>7, <1>8, FewerKept DEF SessionIsGood

(* The decision of staff.                                                  *)
LEMMA SetCustomerDisabledKeeps ==
  ASSUME AccountsInv, AccountsAssumption, NEW c \in Customer, NEW disabled \in BOOLEAN,
         SetCustomerDisabled(c, disabled)
  PROVE  AccountsInv'
<1>1. session \in [Session -> SessionRow] /\ link \in [Link -> LinkRow]
  BY DEF AccountsInv, AccountsTypeOK
<1>2. /\ session' \in [Session -> SessionRow]
      /\ \A s \in Session :
           /\ session'[s].status = IF s \in Live(session, c) THEN "GONE" ELSE session[s].status
           /\ session'[s].customer = session[s].customer
           /\ session'[s].password = session[s].password
  BY <1>1, SessionsEnd DEF SetCustomerDisabled
<1>3. /\ link' \in [Link -> LinkRow]
      /\ \A l \in Link :
           /\ link'[l].status = IF l \in Live(link, c) THEN "GONE" ELSE link[l].status
           /\ link'[l].customer = link[l].customer
           /\ link'[l].purpose = link[l].purpose
           /\ link'[l].password = link[l].password
  BY <1>1, LinksEnd DEF SetCustomerDisabled
<1>4. UNCHANGED <<now, mailed, address, cookie, task, book>>
  BY DEF SetCustomerDisabled
<1> PICK row \in AccountRow : row = account[c]
  BY DEF AccountsInv, AccountsTypeOK
<1> PICK new \in AccountRow : new = [row EXCEPT !.status = StatusOf(c, disabled)]
  BY DEF AccountRow, StatusOf
<1>5. new.status # "NONE" /\ new.password = row.password
  BY DEF AccountRow, StatusOf
<1>6. account' = [account EXCEPT ![c] = new]
  BY DEF SetCustomerDisabled
<1>7. /\ account' \in [Customer -> AccountRow]
      /\ \A d \in Customer : account'[d] = IF d = c THEN new ELSE account[d]
  BY <1>6 DEF AccountsInv, AccountsTypeOK
<1>8. AccountsTypeOK'
  BY <1>2, <1>3, <1>4, <1>7 DEF AccountsInv, AccountsTypeOK, book
<1>9. AccountsStay /\ LinksStay
  BY <1>3, <1>5, <1>7 DEF AccountsStay, LinksStay
<1>10. \A d \in Customer : account'[d].password = account[d].password
  BY <1>5, <1>7
<1>11. ASSUME NEW s \in Session, session'[s].status = "LIVE"
       PROVE  /\ session[s].status = "LIVE" /\ session[s].customer \in Customer
              /\ account'[session[s].customer].status \notin {"NONE", "DISABLED"}
  <2>1. session[s].status = "LIVE" /\ session[s].customer # c
    BY <1>1, <1>2, <1>11 DEF Live
  <2>2. SessionIsGood(s)
    BY DEF AccountsInv
  <2> QED
    BY <1>7, <2>1, <2>2 DEF SessionIsGood
<1>12. ASSUME NEW l \in Link, link'[l].status = "LIVE"
       PROVE  link[l].status = "LIVE" /\ link[l].customer \in Customer
  BY <1>3, <1>12 DEF AccountsInv, LinkIsGood
<1>13. \A l \in Link : link'[l].status # "UNUSED" => link[l].status # "UNUSED"
  BY <1>1, <1>3 DEF Live
<1> QED
  BY <1>2, <1>3, <1>4, <1>8, <1>9, <1>10, <1>11, <1>12, <1>13, FewerKept

(* A link that was not delivered.                                          *)
LEMMA DropLinkKeeps ==
  ASSUME AccountsInv, AccountsAssumption, NEW b \in Browser, DropLink(b)
  PROVE  AccountsInv'
<1>1. link \in [Link -> LinkRow] /\ AccountsTypeOK
  BY DEF AccountsInv, AccountsTypeOK
<1>2. /\ link' \in [Link -> LinkRow]
      /\ \A l \in Link :
           /\ link'[l].status = IF l \in {task[b].link} THEN "GONE" ELSE link[l].status
           /\ link'[l].customer = link[l].customer
           /\ link'[l].purpose = link[l].purpose
           /\ link'[l].password = link[l].password
  BY <1>1, LinksEnd DEF DropLink
<1>3. UNCHANGED <<now, account, session, mailed, address, cookie, book>> /\ Finish(b)
  BY DEF DropLink
<1>4. /\ task' \in [Browser -> Request]
      /\ \A d \in Browser : task'[d] = IF d = b THEN Idle ELSE task[d]
  BY <1>1, <1>3, RequestEnds
<1>5. AccountsTypeOK'
  BY <1>1, <1>2, <1>3, <1>4 DEF AccountsTypeOK, book
<1>6. AccountsStay /\ LinksStay
  BY <1>2, <1>3 DEF AccountsStay, LinksStay
<1>7. \A l \in Link : link'[l].status # "UNUSED" => link[l].status # "UNUSED"
  BY <1>2 DEF DropLink, AccountsInv, RequestIsGood
<1>8. \A s \in Session : SessionIsGood(s)
  BY DEF AccountsInv
<1> QED
  BY <1>2, <1>3, <1>4, <1>5, <1>6, <1>7, <1>8, FewerKept DEF SessionIsGood

(* A verification under the lock.                                          *)
LEMMA RedeemVerifyKeeps ==
  ASSUME AccountsInv, AccountsAssumption, NEW b \in Browser, RedeemVerify(b)
  PROVE  AccountsInv'
<1> DEFINE l == task[b].link
           c == task[b].customer
<1>1. link \in [Link -> LinkRow] /\ AccountsTypeOK
  BY DEF AccountsInv, AccountsTypeOK
<1>2. /\ l \in Link /\ c \in Customer /\ link[l].customer = c
      /\ account[c].status \notin {"NONE", "DISABLED"}
  BY DEF AccountsInv, RequestIsGood, RedeemVerify, Redeemable
<1>3. /\ link' = Without(link, Siblings(l)) /\ Finish(b)
      /\ account' = [account EXCEPT ![c].verified = TRUE, ![c].status = "ACTIVE"]
      /\ UNCHANGED <<now, session, mailed, address, cookie, book>>
  BY DEF RedeemVerify
<1> HIDE DEF l, c
<1> PICK row \in AccountRow : row = account[c]
  BY <1>1, <1>2 DEF AccountsTypeOK
<1> PICK new \in AccountRow : new = [[row EXCEPT !.verified = TRUE] EXCEPT !.status = "ACTIVE"]
  BY RowVerified
<1>4. new.status = "ACTIVE" /\ new.password = row.password
  BY RowVerified
<1>5. account' = [account EXCEPT ![c] = new]
  BY <1>1, <1>2, <1>3 DEF AccountsTypeOK
<1>6. /\ account' \in [Customer -> AccountRow]
      /\ \A d \in Customer : account'[d] = IF d = c THEN new ELSE account[d]
  BY <1>1, <1>2, <1>5 DEF AccountsTypeOK
<1>7. /\ link' \in [Link -> LinkRow]
      /\ \A m \in Link :
           /\ link'[m].status = IF m \in Siblings(l) THEN "GONE" ELSE link[m].status
           /\ link'[m].customer = link[m].customer
           /\ link'[m].purpose = link[m].purpose
           /\ link'[m].password = link[m].password
  BY <1>1, <1>3, LinksEnd
<1>8. /\ task' \in [Browser -> Request]
      /\ \A d \in Browser : task'[d] = IF d = b THEN Idle ELSE task[d]
  BY <1>1, <1>3, RequestEnds
<1>9. AccountsTypeOK'
  BY <1>1, <1>3, <1>6, <1>7, <1>8 DEF AccountsTypeOK, book
<1>10. AccountsStay /\ LinksStay
  BY <1>4, <1>6, <1>7 DEF AccountsStay, LinksStay
<1>11. \A d \in Customer : account'[d].password = account[d].password
  BY <1>4, <1>6
<1>12. ASSUME NEW s \in Session, session[s].status = "LIVE"
       PROVE  /\ session[s].customer \in Customer
              /\ account'[session[s].customer].status \notin {"NONE", "DISABLED"}
  <2>1. SessionIsGood(s)
    BY DEF AccountsInv
  <2> QED
    BY <1>4, <1>6, <1>12, <2>1 DEF SessionIsGood
<1>13. ASSUME NEW m \in Link, link'[m].status = "LIVE"
       PROVE  link[m].status = "LIVE" /\ link[m].customer \in Customer
  BY <1>7, <1>13 DEF AccountsInv, LinkIsGood
<1>14. \A m \in Link : link'[m].status # "UNUSED" => link[m].status # "UNUSED"
  BY <1>1, <1>7 DEF Live, Siblings
<1> QED
  BY <1>3, <1>7, <1>8, <1>9, <1>10, <1>11, <1>12, <1>13, <1>14, FewerKept
------------------------------------------------------------------------------
(* A reset ends every session of its customer and every link that could    *)
(* reset the same password, one of which it has used up.                   *)
LEMMA RedeemResetKeeps ==
  ASSUME AccountsInv, AccountsAssumption, NEW b \in Browser, RedeemReset(b)
  PROVE  AccountsInv'
<1> DEFINE l == task[b].link
           c == task[b].customer
<1>1. /\ link \in [Link -> LinkRow] /\ session \in [Session -> SessionRow]
      /\ account \in [Customer -> AccountRow] /\ AccountsTypeOK
  BY DEF AccountsInv, AccountsTypeOK
<1>2. /\ l \in Link /\ c \in Customer /\ link[l].customer = c /\ link[l].purpose = "RESET"
      /\ link[l].status = "LIVE" /\ account[c].status \notin {"NONE", "DISABLED"}
  BY DEF AccountsInv, RequestIsGood, RedeemReset, Redeemable
<1>3. /\ link' = Without(link, Siblings(l)) /\ Finish(b)
      /\ session' = Without(session, Live(session, c))
      /\ account' = [account EXCEPT ![c].password = account[c].password + 1]
      /\ cookie' = [cookie EXCEPT ![b] = None]
      /\ UNCHANGED <<now, mailed, address, book>>
  BY DEF RedeemReset
<1> HIDE DEF l, c
<1> PICK row \in AccountRow : row = account[c]
  BY <1>1, <1>2
<1> PICK new \in AccountRow : new = [row EXCEPT !.password = row.password + 1]
  BY RowReset
<1>4. new.status = row.status /\ new.password = row.password + 1
  BY RowReset
<1>5. /\ account' \in [Customer -> AccountRow]
      /\ \A d \in Customer : account'[d] = IF d = c THEN new ELSE account[d]
  <2>1. account' = [account EXCEPT ![c] = new]
    BY <1>3
  <2> QED
    BY <1>1, <1>2, <2>1
<1>6. /\ link' \in [Link -> LinkRow]
      /\ \A m \in Link :
           /\ link'[m].status = IF m \in Siblings(l) THEN "GONE" ELSE link[m].status
           /\ link'[m].customer = link[m].customer
           /\ link'[m].purpose = link[m].purpose
           /\ link'[m].password = link[m].password
  BY <1>1, <1>3, LinksEnd
<1>7. /\ session' \in [Session -> SessionRow]
      /\ \A s \in Session :
           /\ session'[s].status = IF s \in Live(session, c) THEN "GONE" ELSE session[s].status
           /\ session'[s].customer = session[s].customer
           /\ session'[s].password = session[s].password
  BY <1>1, <1>3, SessionsEnd
<1>8. /\ task' \in [Browser -> Request]
      /\ \A d \in Browser : task'[d] = IF d = b THEN Idle ELSE task[d]
  BY <1>1, <1>3, RequestEnds
<1>9. cookie' \in [Browser -> Session \cup {None}]
  BY <1>1, <1>3 DEF AccountsTypeOK
<1>10. AccountsTypeOK'
  BY <1>1, <1>3, <1>5, <1>6, <1>7, <1>8, <1>9 DEF AccountsTypeOK, book
<1>11. AccountsStay /\ LinksStay
  BY <1>4, <1>5, <1>6 DEF AccountsStay, LinksStay
<1>12. \A d \in Browser : RequestIsGood(d)'
  BY <1>8, <1>11, RequestsKept
<1>13. ASSUME NEW s \in Session PROVE SessionIsGood(s)'
  <2>1. SessionIsGood(s)
    BY DEF AccountsInv
  <2>2. session'[s].status = "LIVE" => session[s].status = "LIVE" /\ session[s].customer # c
    BY <1>1, <1>7 DEF Live
  <2> QED
    BY <1>5, <1>7, <2>1, <2>2 DEF SessionIsGood
<1>14. ASSUME NEW m \in Link PROVE LinkIsGood(m)'
  <2>1. LinkIsGood(m)
    BY DEF AccountsInv
  <2>2. link'[m].status = "LIVE" /\ link[m].purpose = "RESET" =>
          link[m].status = "LIVE" /\ link[m].customer # c
    BY <1>1, <1>2, <1>6 DEF Live, Siblings
  <2>3. link'[m].status # "UNUSED" => link[m].status # "UNUSED"
    BY <1>1, <1>6 DEF Live, Siblings
  <2>4. ASSUME link'[m].status # "UNUSED"
        PROVE  link'[m].customer \in Customer /\ account'[link'[m].customer].status # "NONE"
    <3>1. link[m].customer \in Customer /\ account[link[m].customer].status # "NONE"
      BY <2>1, <2>3, <2>4 DEF LinkIsGood
    <3>2. account'[link[m].customer].status # "NONE"
      BY <1>11, <3>1 DEF AccountsStay
    <3> QED
      BY <1>6, <3>1, <3>2
  <2>5. ASSUME link'[m].status = "LIVE", link'[m].purpose = "RESET"
        PROVE  link'[m].password = account'[link'[m].customer].password
    BY <1>5, <1>6, <2>1, <2>2, <2>5 DEF LinkIsGood
  <2> QED
    BY <2>4, <2>5 DEF LinkIsGood
<1>15. ASSUME NEW d \in Customer
       PROVE  account'[d].password <= 1 + Cardinality(Used(d)')
  <2>1. Used(d) \subseteq Used(d)'
    BY <1>6 DEF Used
  <2>2. IsFiniteSet(Used(d)')
    BY FS_Subset DEF AccountsAssumption, Used
  <2>3. /\ Cardinality(Used(d)) <= Cardinality(Used(d)')
        /\ Cardinality(Used(d)) \in Nat /\ Cardinality(Used(d)') \in Nat
        /\ IsFiniteSet(Used(d))
    BY <2>1, <2>2, FS_Subset, FS_CardinalityType
  <2>4. account[d].password <= 1 + Cardinality(Used(d)) /\ account[d].password \in Nat
    BY RowsTyped DEF AccountsInv, ResetsUseLinks
  <2>5. CASE d # c
    BY <1>5, <2>3, <2>4, <2>5
  <2>6. CASE d = c
    <3>1. l \in Used(d)' /\ l \notin Used(d)
      <4>1. l \in Siblings(l)
        BY <1>1, <1>2 DEF Siblings, Live
      <4> QED
        BY <1>2, <1>6, <2>6, <4>1 DEF Used
    <3>2. Used(d) \cup {l} \subseteq Used(d)'
      BY <2>1, <3>1
    <3>3. Cardinality(Used(d) \cup {l}) = Cardinality(Used(d)) + 1
      BY <2>3, <3>1, FS_AddElement
    <3>4. Cardinality(Used(d) \cup {l}) <= Cardinality(Used(d)')
      BY <2>2, <3>2, FS_Subset
    <3>5. account'[d].password = account[d].password + 1
      BY <1>4, <1>5, <2>6
    <3> QED
      BY <2>2, <2>3, <2>4, <3>3, <3>4, <3>5
  <2> QED
    BY <2>5, <2>6
<1>16. ResetsUseLinks'
  BY <1>15 DEF ResetsUseLinks, Used
<1> QED
  BY <1>10, <1>12, <1>13, <1>14, <1>16 DEF AccountsInv
------------------------------------------------------------------------------
(* A registration.                                                         *)
LEMMA RegisterKeeps ==
  ASSUME AccountsInv, AccountsAssumption, NEW b \in Browser, NEW c \in Customer,
         NEW s \in Session, Register(b, c, s)
  PROVE  AccountsInv'
<1> DEFINE row == [status |-> "PENDING_VERIFICATION", verified |-> FALSE, password |-> 1]
<1>1. AccountsTypeOK /\ account[c].status = "NONE"
  BY DEF AccountsInv, Register
<1>2. row \in AccountRow /\ row.status = "PENDING_VERIFICATION" /\ row.password = 1
  BY DEF AccountRow
<1>3. /\ account' = [account EXCEPT ![c] = row] /\ OpenSession(b, s, c, 1)
      /\ Begin(b, "ISSUE", c, 0, "VERIFY", None)
      /\ UNCHANGED <<now, link, mailed, address, book>>
  BY DEF Register
<1> HIDE DEF row
<1>4. /\ account' \in [Customer -> AccountRow]
      /\ \A d \in Customer : account'[d] = IF d = c THEN row ELSE account[d]
  BY <1>1, <1>2, <1>3 DEF AccountsTypeOK
<1>5. /\ session' \in [Session -> SessionRow]
      /\ cookie' \in [Browser -> Session \cup {None}]
      /\ \A t \in Session :
           \/ session'[t].status # "LIVE"
           \/ session'[t].customer = c /\ session'[t].password = 1
           \/ /\ session[t].status = "LIVE"
              /\ session'[t].customer = session[t].customer
              /\ session'[t].password = session[t].password
  BY <1>1, <1>3, SessionOpened
<1>6. /\ task' \in [Browser -> Request]
      /\ \A d \in Browser : d # b => task'[d] = task[d]
      /\ task'[b].op = "ISSUE" /\ task'[b].customer = c
  BY <1>1, <1>3, RequestBegins DEF Purpose
<1>7. AccountsTypeOK'
  BY <1>1, <1>3, <1>4, <1>5, <1>6 DEF AccountsTypeOK, book
<1>8. AccountsStay /\ LinksStay
  BY <1>2, <1>3, <1>4 DEF AccountsStay, LinksStay
<1>9. \A d \in Customer : account'[d].password \in {1, account[d].password}
  BY <1>2, <1>4
<1>10. RequestIsGood(b)'
  BY <1>2, <1>4, <1>6 DEF RequestIsGood
<1>11. \A d \in Browser : RequestIsGood(d)'
  BY <1>6, <1>8, <1>10, RequestsKept
<1>12. ASSUME NEW t \in Session PROVE SessionIsGood(t)'
  <2>1. SessionIsGood(t)
    BY DEF AccountsInv
  <2> QED
    BY <1>1, <1>2, <1>4, <1>5, <2>1 DEF SessionIsGood
<1>13. ASSUME NEW l \in Link PROVE LinkIsGood(l)'
  <2>1. LinkIsGood(l)
    BY DEF AccountsInv
  <2> QED
    BY <1>1, <1>2, <1>3, <1>4, <2>1 DEF LinkIsGood
<1>14. ResetsUseLinks'
  BY <1>7, <1>8, <1>9, ResetsKept
<1> QED
  BY <1>7, <1>11, <1>12, <1>13, <1>14 DEF AccountsInv

(* The second half of a login, under the lock.                             *)
LEMMA LoginKeeps ==
  ASSUME AccountsInv, AccountsAssumption, NEW b \in Browser, NEW s \in Session, Login(b, s)
  PROVE  AccountsInv'
<1> DEFINE c == task[b].customer
           password == task[b].password
<1>1. AccountsTypeOK /\ c \in Customer /\ account[c].status # "NONE" /\ password \in Nat
  BY RowsTyped DEF AccountsInv, RequestIsGood, Login
<1>2. Finish(b) /\ UNCHANGED <<now, account, link, mailed, address, book>>
  BY DEF Login
<1>3. CASE UNCHANGED <<session, cookie>>
  <2>1. mailed' \subseteq Link /\ address' \in [AddressId -> AddressRow]
    BY <1>1, <1>2 DEF AccountsTypeOK
  <2> QED
    BY <1>2, <1>3, <2>1, QuietEnd
<1>4. CASE StillValid(c, password) /\ OpenSession(b, s, c, password)
  <2>1. account[c].status \notin {"NONE", "DISABLED"} /\ account[c].password = password
    BY <1>1, <1>4 DEF StillValid
  <2> HIDE DEF c, password
  <2>2. /\ session' \in [Session -> SessionRow]
        /\ cookie' \in [Browser -> Session \cup {None}]
        /\ \A t \in Session :
             \/ session'[t].status # "LIVE"
             \/ session'[t].customer = c /\ session'[t].password = password
             \/ /\ session[t].status = "LIVE"
                /\ session'[t].customer = session[t].customer
                /\ session'[t].password = session[t].password
    BY <1>1, <1>4, SessionOpened
  <2>3. /\ task' \in [Browser -> Request]
        /\ \A d \in Browser : task'[d] = IF d = b THEN Idle ELSE task[d]
    BY <1>1, <1>2, RequestEnds
  <2>4. AccountsTypeOK'
    BY <1>1, <1>2, <2>2, <2>3 DEF AccountsTypeOK, book
  <2>5. AccountsStay /\ LinksStay
    BY <1>2 DEF AccountsStay, LinksStay
  <2>6. \A d \in Browser : RequestIsGood(d)'
    BY <2>3, <2>5, RequestsKept
  <2>7. ASSUME NEW t \in Session PROVE SessionIsGood(t)'
    <3>1. SessionIsGood(t)
      BY DEF AccountsInv
    <3> QED
      BY <1>1, <1>2, <2>1, <2>2, <3>1 DEF SessionIsGood
  <2>8. \A l \in Link : LinkIsGood(l)'
    BY <1>2 DEF LinkIsGood, AccountsInv
  <2>9. ResetsUseLinks'
    BY <1>2, <2>4, <2>5, ResetsKept
  <2> QED
    BY <2>4, <2>6, <2>7, <2>8, <2>9 DEF AccountsInv
<1> QED
  BY <1>3, <1>4 DEF Login

(* A link that is stored.                                                  *)
LEMMA StoreLinkKeeps ==
  ASSUME AccountsInv, AccountsAssumption, NEW b \in Browser, NEW l \in Link, StoreLink(b, l)
  PROVE  AccountsInv'
<1> PICK t \in Request : t = task[b]
  BY DEF AccountsInv, AccountsTypeOK
<1>1. /\ AccountsTypeOK /\ link[l].status = "UNUSED"
      /\ t.customer \in Customer /\ account[t.customer].status # "NONE"
  BY DEF AccountsInv, RequestIsGood, StoreLink
<1> DEFINE row == [status |-> "LIVE", customer |-> t.customer, purpose |-> t.purpose,
                   expiresAt |-> now + LinkTime[t.purpose],
                   password |-> account[t.customer].password]
<1>2. row \in LinkRow
  <2>1. t.purpose \in Purpose /\ now \in Nat /\ account[t.customer].password \in Nat
    BY <1>1, RowsTyped DEF Request, AccountsTypeOK
  <2>2. now + LinkTime[t.purpose] \in Nat
    BY <2>1 DEF AccountsAssumption
  <2> QED
    BY <1>1, <2>1, <2>2 DEF LinkRow
<1>3. /\ row.status = "LIVE" /\ row.customer = t.customer
      /\ row.password = account[t.customer].password
  OBVIOUS
<1>4. link' = [link EXCEPT ![l] = row]
  BY DEF StoreLink
<1> HIDE DEF row
<1>5. /\ link' \in [Link -> LinkRow]
      /\ \A m \in Link : link'[m] = IF m = l THEN row ELSE link[m]
  BY <1>1, <1>2, <1>4 DEF AccountsTypeOK
<1>6. UNCHANGED <<now, account, session, mailed, address, cookie, book>>
  BY DEF StoreLink
<1> PICK new \in Request : new = [[t EXCEPT !.op = "DELIVER"] EXCEPT !.link = l]
  BY DEF Request
<1>7. new.op = "DELIVER" /\ new.customer = t.customer /\ new.link = l
  BY DEF Request
<1>8. task' = [task EXCEPT ![b] = new]
  BY <1>1 DEF StoreLink, AccountsTypeOK
<1>9. task' \in [Browser -> Request] /\ \A d \in Browser : task'[d] = IF d = b THEN new ELSE task[d]
  BY <1>1, <1>8 DEF AccountsTypeOK
<1>10. AccountsTypeOK'
  BY <1>1, <1>5, <1>6, <1>9 DEF AccountsTypeOK, book
<1>11. AccountsStay /\ LinksStay
  BY <1>1, <1>5, <1>6 DEF AccountsStay, LinksStay
<1>12. RequestIsGood(b)'
  BY <1>1, <1>3, <1>5, <1>6, <1>7, <1>9, ZenonT(40) DEF RequestIsGood
<1>13. \A d \in Browser : RequestIsGood(d)'
  BY <1>9, <1>11, <1>12, RequestsKept
<1>14. ASSUME NEW m \in Link PROVE LinkIsGood(m)'
  <2>1. LinkIsGood(m)
    BY DEF AccountsInv
  <2> QED
    BY <1>1, <1>3, <1>5, <1>6, <2>1 DEF LinkIsGood
<1>15. \A s \in Session : SessionIsGood(s)'
  BY <1>6 DEF SessionIsGood, AccountsInv
<1>16. ResetsUseLinks'
  BY <1>6, <1>10, <1>11, ResetsKept
<1> QED
  BY <1>10, <1>13, <1>14, <1>15, <1>16 DEF AccountsInv
------------------------------------------------------------------------------
(* The first state.                                                        *)
LEMMA AccountsInit ==
  ASSUME Init, AccountsAssumption
  PROVE  AccountsInv
<1>1. AccountsTypeOK
  BY DEF Init, AccountsTypeOK, AccountsAssumption, NoAccount, NoSession, NoLink, NoAddress,
         Idle, AccountRow, SessionRow, LinkRow, AddressRow, Request, Purpose
<1>2. \A s \in Session : SessionIsGood(s)
  BY DEF Init, SessionIsGood, NoSession
<1>3. \A l \in Link : LinkIsGood(l)
  BY DEF Init, LinkIsGood, NoLink
<1>4. \A b \in Browser : RequestIsGood(b)
  BY DEF Init, RequestIsGood, Idle
<1>5. ASSUME NEW c \in Customer PROVE account[c].password <= 1 + Cardinality(Used(c))
  <2>1. Cardinality(Used(c)) \in Nat
    BY FS_Subset, FS_CardinalityType DEF AccountsAssumption, Used
  <2> QED
    BY <2>1 DEF Init, NoAccount
<1> QED
  BY <1>1, <1>2, <1>3, <1>4, <1>5 DEF AccountsInv, ResetsUseLinks

(* Each step.                                                              *)
LEMMA AccountsStep ==
  ASSUME AccountsInv, AccountsAssumption, [Next]_vars
  PROVE  AccountsInv'
<1>1. CASE UNCHANGED vars
  <2>1. UNCHANGED <<now, account, session, link, mailed, address, cookie, task, window, passed>>
    BY <1>1 DEF vars, book
  <2>2. AccountsTypeOK'
    BY <2>1 DEF AccountsInv, AccountsTypeOK
  <2> QED
    BY <2>1, <2>2, QuietStep
<1>2. CASE Tick
  <2>1. AccountsTypeOK'
    BY <1>2 DEF AccountsInv, AccountsTypeOK, AccountsAssumption, Tick, book
  <2> QED
    BY <1>2, <2>1, QuietStep DEF Tick
<1>3. ASSUME NEW b \in Browser, Die(b) \/ RedeemRefused(b) PROVE AccountsInv'
  <2>1. Finish(b) /\ UNCHANGED <<now, account, session, link, mailed, address, cookie, book>>
    BY <1>3 DEF Die, RedeemRefused
  <2>2. mailed' \subseteq Link /\ address' \in [AddressId -> AddressRow]
    BY <2>1 DEF AccountsInv, AccountsTypeOK
  <2> QED
    BY <2>1, <2>2, QuietEnd
<1>4. ASSUME NEW b \in Browser, BrowserNext(b) PROVE AccountsInv'
  <2>1. ASSUME NEW c \in Customer,
               ReadLogin(b, c) \/ RequestReset(b, c) \/ RequestVerification(b, c) \/ OpenBook(b, c)
        PROVE  AccountsInv'
    BY <2>1, ReadLoginKeeps, RequestResetKeeps, RequestVerificationKeeps, OpenBookKeeps
  <2>2. ASSUME NEW c \in Customer, NEW s \in Session, Register(b, c, s) PROVE AccountsInv'
    BY <2>2, RegisterKeeps
  <2>3. ASSUME NEW s \in Session, Login(b, s) PROVE AccountsInv'
    BY <2>3, LoginKeeps
  <2>4. ASSUME NEW l \in Link, StoreLink(b, l) \/ Present(b, l) PROVE AccountsInv'
    BY <2>4, StoreLinkKeeps, PresentKeeps
  <2>5. CASE Logout(b) \/ MailAccepted(b) \/ MailFailed(b) \/ DropLink(b)
    BY <2>5, LogoutKeeps, MailKeeps, DropLinkKeeps
  <2>6. CASE RedeemReset(b) \/ RedeemVerify(b) \/ RedeemRefused(b) \/ Die(b)
    BY <1>3, <2>6, RedeemResetKeeps, RedeemVerifyKeeps
  <2>7. ASSUME NEW a \in AddressId, DeleteAddress(b, a) \/ \E d \in BOOLEAN : SaveAddress(b, a, d)
        PROVE  AccountsInv'
    BY <2>7, AddressKeeps
  <2> QED
    BY <1>4, <2>1, <2>2, <2>3, <2>4, <2>5, <2>6, <2>7 DEF BrowserNext
<1>5. ASSUME NEW c \in Customer, NEW disabled \in BOOLEAN, SetCustomerDisabled(c, disabled)
      PROVE  AccountsInv'
  BY <1>5, SetCustomerDisabledKeeps
<1>6. CASE Purge
  BY <1>6, PurgeKeeps
<1> QED
  BY <1>1, <1>2, <1>4, <1>5, <1>6 DEF Next

(* The inductive invariant.                                                *)
THEOREM AccountsInvariant ==
  AccountsSpec => []AccountsInv
<1>1. Init => AccountsInv
  BY AccountsInit, AccountsAssumption
<1>2. AccountsInv /\ [Next]_vars => AccountsInv'
  BY AccountsStep, AccountsAssumption
<1> QED
  BY <1>1, <1>2, PTL DEF AccountsSpec

(* Accounts, sessions, links, requests and counts are what the schema says *)
(* (prisma/schema.prisma, models Customer to CustomerRateLimit).           *)
THEOREM AccountsTypes ==
  AccountsSpec => []AccountsTypeOK
<1>1. AccountsInv => AccountsTypeOK
  BY DEF AccountsInv
<1> QED
  BY <1>1, AccountsInvariant, PTL

(* Nobody is signed in under a password that was replaced or while the     *)
(* account is disabled (login, redeem, setCustomerDisabled).               *)
THEOREM SessionsCurrent ==
  AccountsSpec => []SessionsAreCurrent
<1>1. AccountsInv => SessionsAreCurrent
  BY DEF AccountsInv, AccountsTypeOK, SessionIsGood, SessionsAreCurrent, Live
<1> QED
  BY <1>1, AccountsInvariant, PTL

(* A link resets the password it was made for, and every reset has used up *)
(* a link (redeem).                                                        *)
THEOREM LinksCurrent ==
  AccountsSpec => []LinksAreCurrent
<1>1. ASSUME AccountsInv PROVE LinksAreCurrent
  <2> SUFFICES ASSUME NEW c \in Customer
               PROVE  /\ \A l \in Live(link, c) :
                           link[l].purpose = "RESET" => link[l].password = account[c].password
                      /\ account[c].password <= 1 + Cardinality(Used(c))
    BY DEF LinksAreCurrent
  <2>1. account[c].password <= 1 + Cardinality(Used(c))
    BY <1>1 DEF AccountsInv, ResetsUseLinks
  <2>2. ASSUME NEW l \in Live(link, c), link[l].purpose = "RESET"
        PROVE  link[l].password = account[c].password
    <3>1. l \in Link /\ link[l].status = "LIVE" /\ link[l].customer = c
      BY <1>1 DEF AccountsInv, AccountsTypeOK, Live
    <3>2. LinkIsGood(l)
      BY <1>1, <3>1 DEF AccountsInv
    <3> QED
      BY <2>2, <3>1, <3>2 DEF LinkIsGood
  <2> QED
    BY <2>1, <2>2
<1> QED
  BY <1>1, AccountsInvariant, PTL
------------------------------------------------------------------------------
(* The account of a step is that of a registration, of a link that was     *)
(* followed, or of a decision of staff.                                    *)
LEMMA AccountChanges ==
  ASSUME [Next]_vars
  PROVE  \/ UNCHANGED account
         \/ \E b \in Browser, c \in Customer, s \in Session : Register(b, c, s)
         \/ \E b \in Browser : RedeemReset(b) \/ RedeemVerify(b)
         \/ \E c \in Customer, disabled \in BOOLEAN : SetCustomerDisabled(c, disabled)
  BY DEF Next, BrowserNext, vars, ReadLogin, RequestReset, RequestVerification, OpenBook, Login,
         StoreLink, Present, Logout, MailAccepted, MailFailed, DropLink, RedeemRefused,
         DeleteAddress, SaveAddress, Die, Purge, Tick

(* While an account is disabled nothing that is under way gets through,    *)
(* and it comes back without sessions and links (redeem, login,            *)
(* setCustomerDisabled).                                                   *)
THEOREM FreshReturn ==
  AccountsSpec => ReturnIsFresh
<1> DEFINE A == \A c \in Customer : account[c].status = "DISABLED" =>
                  /\ account'[c].password = account[c].password
                  /\ account'[c].verified = account[c].verified
                  /\ account'[c].status # "DISABLED" =>
                       Live(session', c) = {} /\ Live(link', c) = {}
<1>1. ASSUME AccountsInv, [Next]_vars PROVE A
  <2> SUFFICES ASSUME NEW c \in Customer, account[c].status = "DISABLED"
               PROVE  /\ account'[c].password = account[c].password
                      /\ account'[c].verified = account[c].verified
                      /\ account'[c].status # "DISABLED" =>
                           Live(session', c) = {} /\ Live(link', c) = {}
    OBVIOUS
  <2>1. account \in [Customer -> AccountRow] /\ session \in [Session -> SessionRow]
        /\ link \in [Link -> LinkRow]
    BY <1>1 DEF AccountsInv, AccountsTypeOK
  <2>2. CASE account'[c] = account[c]
    BY <2>2
  <2>3. ASSUME NEW b \in Browser, NEW d \in Customer, NEW s \in Session, Register(b, d, s)
        PROVE  account'[c] = account[c]
    BY <2>1, <2>3 DEF Register
  <2>4. ASSUME NEW b \in Browser, RedeemReset(b) \/ RedeemVerify(b)
        PROVE  account'[c] = account[c]
    <3>1. task[b].customer \in Customer /\ account[task[b].customer].status # "DISABLED"
      BY <1>1, <2>4 DEF AccountsInv, RequestIsGood, RedeemReset, RedeemVerify, Redeemable
    <3> PICK d \in Customer : d = task[b].customer
      BY <3>1
    <3> QED
      BY <2>1, <2>4, <3>1 DEF RedeemReset, RedeemVerify
  <2>5. ASSUME NEW d \in Customer, NEW disabled \in BOOLEAN, SetCustomerDisabled(d, disabled)
        PROVE  /\ account'[c].password = account[c].password
               /\ account'[c].verified = account[c].verified
               /\ account'[c] # account[c] => Live(session', c) = {} /\ Live(link', c) = {}
    <3> PICK row \in AccountRow : row = account[d]
      BY <2>1
    <3>1. account' = [account EXCEPT ![d] = [row EXCEPT !.status = StatusOf(d, disabled)]]
      BY <2>5 DEF SetCustomerDisabled
    <3>2. [row EXCEPT !.status = StatusOf(d, disabled)].password = row.password
          /\ [row EXCEPT !.status = StatusOf(d, disabled)].verified = row.verified
      BY DEF AccountRow
    <3>3. CASE c # d
      BY <2>1, <3>1, <3>3
    <3>4. CASE c = d
      <4>1. account'[c].password = account[c].password
            /\ account'[c].verified = account[c].verified
        BY <2>1, <3>1, <3>2, <3>4
      <4>2. session' = Without(session, Live(session, c)) /\ link' = Without(link, Live(link, c))
        BY <2>5, <3>4 DEF SetCustomerDisabled
      <4>3. \A s \in Session : s \in Live(session, c) \/ ~(session[s].status = "LIVE"
                                                           /\ session[s].customer = c)
        BY <2>1 DEF Live
      <4>4. \A l \in Link : l \in Live(link, c) \/ ~(link[l].status = "LIVE"
                                                     /\ link[l].customer = c)
        BY <2>1 DEF Live
      <4>5. \A s \in Session : session'[s].status = "LIVE" => session'[s].customer # c
        BY <2>1, <4>2, <4>3, SessionsEnd
      <4>6. \A l \in Link : link'[l].status = "LIVE" => link'[l].customer # c
        BY <2>1, <4>2, <4>4, LinksEnd
      <4>7. DOMAIN session' = Session /\ DOMAIN link' = Link
        BY <2>1, <4>2 DEF Without
      <4> QED
        BY <4>1, <4>5, <4>6, <4>7 DEF Live
    <3> QED
      BY <3>3, <3>4
  <2> QED
    BY <1>1, <2>2, <2>3, <2>4, <2>5, AccountChanges
<1>2. AccountsInv /\ [Next]_vars => [A]_vars
  BY <1>1
<1>3. ReturnIsFresh <=> [][A]_vars
  BY DEF ReturnIsFresh
<1> HIDE DEF A
<1> QED
  BY <1>2, <1>3, AccountsInvariant, PTL DEF AccountsSpec
------------------------------------------------------------------------------
(* The attempts of one kind and customer that passed at some times.        *)
PassedIn(q, r, T) ==
  {p \in T \X (1 .. (2 * Limit[r[1]] + 1)) : p[1] <= MaxTime /\ p[2] <= q[<<r, p[1]>>]}

Since(s) == {x \in 0..MaxTime : s <= x}
Before(s) == {x \in 0..MaxTime : s - WindowTime < x /\ x < s}

(* The last window started at s: what passed in it fits into the limit and *)
(* is counted while it lasts, and nothing passed after it.                 *)
WindowIsKept(r, s) ==
  /\ s <= now
  /\ window[r].expiresAt \in {0, s + WindowTime}
  /\ window[r].expiresAt = 0 => s + WindowTime <= now
  /\ Cardinality(PassedIn(passed, r, Since(s))) <= Limit[r[1]]
  /\ window[r].expiresAt > now =>
       Cardinality(PassedIn(passed, r, Since(s))) <= window[r].count
  /\ Cardinality(PassedIn(passed, r, Before(s))) <= Limit[r[1]]
  /\ \A x \in 0..MaxTime : x > now \/ x >= s + WindowTime => passed[<<r, x>>] = 0

SpansAreKept(r) ==
  \A t \in 0..MaxTime :
    Cardinality(PassedIn(passed, r, t .. (t + WindowTime - 1))) <= 2 * Limit[r[1]]

WindowsInv ==
  /\ AccountsTypeOK
  /\ \A r \in Rate : (\E s \in Int : WindowIsKept(r, s)) /\ SpansAreKept(r)

(* The parts of a pair.                                                    *)
LEMMA Pairs ==
  ASSUME NEW T, NEW R, NEW p \in T \X R
  PROVE  p[1] \in T /\ p[2] \in R /\ p = <<p[1], p[2]>>
  OBVIOUS

(* What an attempt is that passed.                                         *)
LEMMA PassedMembers ==
  ASSUME AccountsAssumption, NEW q, NEW r \in Rate, NEW T \in SUBSET Nat,
         NEW p \in PassedIn(q, r, T)
  PROVE  /\ p \in T \X (1 .. (2 * Limit[r[1]] + 1)) /\ p = <<p[1], p[2]>>
         /\ p[1] \in T /\ p[1] \in 0..MaxTime /\ p[1] <= MaxTime
         /\ p[2] \in 1 .. (2 * Limit[r[1]] + 1) /\ p[2] <= q[<<r, p[1]>>]
<1> DEFINE R == 1 .. (2 * Limit[r[1]] + 1)
<1>1. MaxTime \in Nat
  BY DEF AccountsAssumption
<1>2. p \in T \X R /\ p[1] <= MaxTime /\ p[2] <= q[<<r, p[1]>>]
  BY DEF PassedIn
<1> HIDE DEF R
<1>3. p[1] \in T /\ p[2] \in R /\ p = <<p[1], p[2]>>
  <2>1. p \in T \X R
    BY <1>2
  <2> QED
    BY <2>1, Pairs
<1>4. p[1] \in 0..MaxTime
  <2>1. p[1] \in T
    BY <1>3
  <2>2. p[1] \in Nat
    BY <2>1
  <2>3. p[1] <= MaxTime
    BY <1>2
  <2> QED
    BY <1>1, <2>2, <2>3
<1> QED
  BY <1>2, <1>3, <1>4 DEF R

(* The attempts that passed are finitely many.                             *)
LEMMA PassedFinite ==
  ASSUME AccountsAssumption, NEW q, NEW r \in Rate, NEW T \in SUBSET Nat
  PROVE  IsFiniteSet(PassedIn(q, r, T)) /\ Cardinality(PassedIn(q, r, T)) \in Nat
<1>1. Limit[r[1]] \in Nat
  BY DEF AccountsAssumption, Rate
<1> DEFINE N == 2 * Limit[r[1]] + 1
<1>2. N \in Nat
  BY <1>1
<1> HIDE DEF N
<1>3. IsFiniteSet(0..MaxTime) /\ IsFiniteSet(1..N)
  BY <1>2, FS_Interval DEF AccountsAssumption
<1>4. IsFiniteSet((0..MaxTime) \X (1..N))
  BY <1>3, FS_Product
<1>5. PassedIn(q, r, T) \subseteq (0..MaxTime) \X (1..N)
  <2> SUFFICES ASSUME NEW p \in PassedIn(q, r, T) PROVE p \in (0..MaxTime) \X (1..N)
    OBVIOUS
  <2>1. p = <<p[1], p[2]>> /\ p[1] \in 0..MaxTime /\ p[2] \in 1..N
    BY PassedMembers DEF N
  <2> QED
    BY <2>1
<1> QED
  BY <1>4, <1>5, FS_Subset, FS_CardinalityType

(* One element more, and a part of the rest.                               *)
LEMMA OneMore ==
  ASSUME NEW A, NEW B, NEW x, IsFiniteSet(A), B \subseteq A \cup {x}
  PROVE  IsFiniteSet(B) /\ Cardinality(B) \in Nat /\ Cardinality(B) <= Cardinality(A) + 1
<1>1. IsFiniteSet(A \cup {x}) /\ Cardinality(A) \in Nat
      /\ Cardinality(A \cup {x}) <= Cardinality(A) + 1 /\ Cardinality(A \cup {x}) \in Nat
  BY FS_AddElement, FS_CardinalityType
<1>2. IsFiniteSet(B) /\ Cardinality(B) <= Cardinality(A \cup {x}) /\ Cardinality(B) \in Nat
  BY <1>1, FS_Subset, FS_CardinalityType
<1> QED
  BY <1>1, <1>2

(* The attempts q2 are the attempts q and one more at the time n.          *)
Passed(q2, q, r, n) ==
  \A o \in Rate, x \in 0..MaxTime :
    q2[<<o, x>>] = IF o = r /\ x = n THEN q[<<r, n>>] + 1 ELSE q[<<o, x>>]

(* One more attempt at a time adds one at most, and none to other times.   *)
LEMMA OneMorePassed ==
  ASSUME AccountsAssumption, NEW q, NEW q2, NEW r \in Rate, NEW n \in 0..MaxTime,
         q[<<r, n>>] \in Nat, NEW T \in SUBSET Nat, Passed(q2, q, r, n)
  PROVE  Cardinality(PassedIn(q2, r, T)) <= Cardinality(PassedIn(q, r, T)) + 1
<1> PICK m \in Nat : m = q[<<r, n>>]
  OBVIOUS
<1>1. PassedIn(q2, r, T) \subseteq PassedIn(q, r, T) \cup {<<n, m + 1>>}
  <2> SUFFICES ASSUME NEW p \in PassedIn(q2, r, T), p # <<n, m + 1>>
               PROVE  p \in PassedIn(q, r, T)
    OBVIOUS
  <2>1. /\ p \in T \X (1 .. (2 * Limit[r[1]] + 1)) /\ p = <<p[1], p[2]>>
        /\ p[1] \in 0..MaxTime /\ p[1] <= MaxTime
        /\ p[2] \in 1 .. (2 * Limit[r[1]] + 1) /\ p[2] <= q2[<<r, p[1]>>]
    BY PassedMembers
  <2>2. p[2] \in Nat
    <3>1. Limit[r[1]] \in Nat
      BY DEF AccountsAssumption, Rate
    <3> QED
      BY <2>1, <3>1
  <2>3. PICK x \in 0..MaxTime, y \in Nat : x = p[1] /\ y = p[2]
    BY <2>1, <2>2
  <2>4. y <= q2[<<r, x>>] /\ (x = n => y # m + 1)
    BY <2>1, <2>3
  <2>5. q2[<<r, x>>] = IF x = n THEN m + 1 ELSE q[<<r, x>>]
    BY DEF Passed
  <2>6. y <= q[<<r, x>>]
    BY <2>4, <2>5
  <2>7. p[2] <= q[<<r, p[1]>>]
    BY <2>3, <2>6
  <2> QED
    BY <2>1, <2>7 DEF PassedIn
<1>2. IsFiniteSet(PassedIn(q, r, T))
  BY PassedFinite
<1> QED
  BY <1>1, <1>2, OneMore

(* Other attempts stay.                                                    *)
LEMMA SamePassed ==
  ASSUME AccountsAssumption, NEW q, NEW q2, NEW r, NEW n, Passed(q2, q, r, n),
         NEW o \in Rate, NEW T \in SUBSET Nat, o # r \/ n \notin T
  PROVE  PassedIn(q2, o, T) = PassedIn(q, o, T)
<1>1. \A x \in T : x <= MaxTime => q2[<<o, x>>] = q[<<o, x>>]
  <2> SUFFICES ASSUME NEW x \in T, x <= MaxTime PROVE q2[<<o, x>>] = q[<<o, x>>]
    OBVIOUS
  <2>1. x \in 0..MaxTime
    BY DEF AccountsAssumption
  <2> QED
    BY <2>1 DEF Passed
<1> QED
  BY <1>1, Pairs DEF PassedIn

(* Fewer times, fewer attempts.                                            *)
LEMMA FewerTimes ==
  ASSUME AccountsAssumption, NEW q, NEW r \in Rate, NEW T \in SUBSET Nat, NEW U \in SUBSET Nat,
         \A x \in T : x <= MaxTime => x \in U
  PROVE  Cardinality(PassedIn(q, r, T)) <= Cardinality(PassedIn(q, r, U))
<1>1. PassedIn(q, r, T) \subseteq PassedIn(q, r, U)
  BY DEF PassedIn
<1> QED
  BY <1>1, PassedFinite, FS_Subset

(* A span is covered by the last window and the time before it.            *)
LEMMA SpanInTwoWindows ==
  ASSUME AccountsAssumption, NEW q, NEW r \in Rate, NEW s \in Int, NEW t \in 0..MaxTime,
         s - WindowTime < t,
         Cardinality(PassedIn(q, r, Since(s))) <= Limit[r[1]],
         Cardinality(PassedIn(q, r, Before(s))) <= Limit[r[1]]
  PROVE  Cardinality(PassedIn(q, r, t .. (t + WindowTime - 1))) <= 2 * Limit[r[1]]
<1> DEFINE S == t .. (t + WindowTime - 1)
           A == PassedIn(q, r, Since(s))
           B == PassedIn(q, r, Before(s))
<1>1. S \in SUBSET Nat /\ Since(s) \in SUBSET Nat /\ Before(s) \in SUBSET Nat
  BY DEF Since, Before, AccountsAssumption
<1>2. IsFiniteSet(A) /\ IsFiniteSet(B) /\ Cardinality(A) \in Nat /\ Cardinality(B) \in Nat
      /\ IsFiniteSet(PassedIn(q, r, S)) /\ Cardinality(PassedIn(q, r, S)) \in Nat
  BY <1>1, PassedFinite
<1>3. \A x \in S : x <= MaxTime => x \in Since(s) \/ x \in Before(s)
  BY DEF Since, Before, AccountsAssumption
<1>4. PassedIn(q, r, S) \subseteq A \cup B
  BY <1>3 DEF PassedIn
<1>5. Limit[r[1]] \in Nat
  BY DEF AccountsAssumption, Rate
<1> HIDE DEF S, A, B
<1>6. IsFiniteSet(A \cup B)
      /\ Cardinality(A \cup B) = Cardinality(A) + Cardinality(B) - Cardinality(A \cap B)
  BY <1>2, FS_Union
<1>7. Cardinality(A \cap B) \in Nat
  <2>1. IsFiniteSet(A \cap B)
    BY <1>2, FS_Intersection
  <2> QED
    BY <2>1, FS_CardinalityType
<1>8. Cardinality(PassedIn(q, r, S)) <= Cardinality(A \cup B)
  BY <1>4, <1>6, FS_Subset
<1>9. Cardinality(A) <= Limit[r[1]] /\ Cardinality(B) <= Limit[r[1]]
  BY DEF A, B
<1>10. Cardinality(PassedIn(q, r, S)) <= 2 * Limit[r[1]]
  BY <1>2, <1>5, <1>6, <1>7, <1>8, <1>9
<1> QED
  BY <1>10 DEF S

(* Time passes, and windows that are over may be forgotten.                *)
LEMMA WindowsQuiet ==
  ASSUME WindowsInv, AccountsTypeOK', AccountsAssumption, UNCHANGED passed,
         now' \in {now, now + 1},
         \A r \in Rate : \/ window'[r] = window[r]
                        \/ /\ window[r].expiresAt <= now /\ now' = now
                           /\ window'[r].expiresAt = 0
  PROVE  WindowsInv'
<1> SUFFICES ASSUME NEW r \in Rate
             PROVE  (\E s \in Int : WindowIsKept(r, s)') /\ SpansAreKept(r)'
  BY DEF WindowsInv
<1>1. SpansAreKept(r)'
  BY DEF WindowsInv, SpansAreKept, PassedIn
<1> PICK s \in Int : WindowIsKept(r, s)
  BY DEF WindowsInv
<1>2. window[r].expiresAt \in Nat /\ now \in Nat /\ WindowTime \in Nat
  BY DEF WindowsInv, AccountsTypeOK, AccountsAssumption
<1>3. passed' = passed
  OBVIOUS
<1>4. Cardinality(PassedIn(passed', r, Since(s))) <= Limit[r[1]]
      /\ Cardinality(PassedIn(passed', r, Before(s))) <= Limit[r[1]]
  BY <1>3 DEF WindowIsKept
<1>5. \A x \in 0..MaxTime : x > now' \/ x >= s + WindowTime => passed'[<<r, x>>] = 0
  BY <1>2, <1>3 DEF WindowIsKept, AccountsAssumption
<1>6. s <= now' /\ window'[r].expiresAt \in {0, s + WindowTime}
      /\ (window'[r].expiresAt = 0 => s + WindowTime <= now')
  BY <1>2 DEF WindowIsKept
<1>7. window'[r].expiresAt > now' =>
        Cardinality(PassedIn(passed', r, Since(s))) <= window'[r].count
  BY <1>2, <1>3 DEF WindowIsKept
<1>8. WindowIsKept(r, s)'
  BY <1>4, <1>5, <1>6, <1>7 DEF WindowIsKept
<1> QED
  BY <1>1, <1>8

(* An attempt that passes is counted in its window, or starts a new one.   *)
LEMMA AttemptIsCounted ==
  ASSUME WindowsInv, AccountsAssumption, NEW r \in Rate, now' = now,
         Counted(r).count <= Limit[r[1]],
         window' = [window EXCEPT ![r] = Counted(r)],
         passed' = [passed EXCEPT ![<<r, now>>] = passed[<<r, now>>] + 1]
  PROVE  \E s \in Int :
           /\ WindowIsKept(r, s)'
           /\ s <= now
           /\ Cardinality(PassedIn(passed', r, Since(s))) <= Limit[r[1]]
           /\ Cardinality(PassedIn(passed', r, Before(s))) <= Limit[r[1]]
<1> PICK s \in Int : WindowIsKept(r, s)
  BY DEF WindowsInv
<1> PICK w \in [count : Nat, expiresAt : Nat] : w = window[r]
  BY DEF WindowsInv, AccountsTypeOK
<1>1. /\ now \in Nat /\ now \in 0..MaxTime /\ WindowTime \in Nat \ {0} /\ MaxTime \in Nat
      /\ Limit[r[1]] \in Nat \ {0} /\ w.expiresAt \in Nat /\ w.count \in Nat
      /\ passed \in [Rate \X (0..MaxTime) -> Nat]
      /\ window \in [Rate -> [count : Nat, expiresAt : Nat]]
  BY DEF WindowsInv, AccountsTypeOK, AccountsAssumption, Rate
<1>2. window'[r] = Counted(r)
  BY <1>1
<1>3. \A x \in 0..MaxTime : x # now => passed'[<<r, x>>] = passed[<<r, x>>]
  BY <1>1
<1> PICK q, q2, n : q = passed /\ q2 = passed' /\ n = now
  OBVIOUS
<1>3a. Passed(q2, q, r, n) /\ q[<<r, n>>] \in Nat /\ n \in 0..MaxTime
  BY <1>1 DEF Passed
<1>4. \A z \in Int : Since(z) \in SUBSET Nat /\ Before(z) \in SUBSET Nat
  BY DEF Since, Before
<1>5. \A T \in SUBSET Nat :
        /\ Cardinality(PassedIn(passed', r, T)) <= Cardinality(PassedIn(passed, r, T)) + 1
        /\ now \notin T => PassedIn(passed', r, T) = PassedIn(passed, r, T)
        /\ Cardinality(PassedIn(passed, r, T)) \in Nat
        /\ Cardinality(PassedIn(passed', r, T)) \in Nat
  <2> SUFFICES ASSUME NEW T \in SUBSET Nat
               PROVE  /\ Cardinality(PassedIn(q2, r, T)) <= Cardinality(PassedIn(q, r, T)) + 1
                      /\ n \notin T => PassedIn(q2, r, T) = PassedIn(q, r, T)
                      /\ Cardinality(PassedIn(q, r, T)) \in Nat
                      /\ Cardinality(PassedIn(q2, r, T)) \in Nat
    OBVIOUS
  <2>1. Cardinality(PassedIn(q2, r, T)) <= Cardinality(PassedIn(q, r, T)) + 1
    BY <1>3a, OneMorePassed
  <2>3. n \notin T => PassedIn(q2, r, T) = PassedIn(q, r, T)
    BY <1>3a, SamePassed
  <2>2. Cardinality(PassedIn(q, r, T)) \in Nat /\ Cardinality(PassedIn(q2, r, T)) \in Nat
    BY PassedFinite
  <2> QED
    BY <2>1, <2>2, <2>3
<1>6. CASE w.expiresAt <= now
  <2>1. Counted(r) = [count |-> 1, expiresAt |-> now + WindowTime]
    BY <1>6 DEF Counted
  <2>2. s + WindowTime <= now
    BY <1>1, <1>6 DEF WindowIsKept
  <2>3. PassedIn(passed, r, Since(now)) = {}
    <3>1. \A x \in Since(now) : passed[<<r, x>>] = 0
      BY <1>1, <2>2 DEF Since, WindowIsKept
    <3> QED
      BY <3>1 DEF PassedIn
  <2>4. Cardinality(PassedIn(passed', r, Since(now))) <= 1
    <3>1. Cardinality({}) = 0
      BY FS_EmptySet
    <3>2. Since(now) \in SUBSET Nat
      BY DEF Since
    <3>3. Cardinality(PassedIn(passed', r, Since(now))) <=
            Cardinality(PassedIn(passed, r, Since(now))) + 1
      BY <1>5, <3>2
    <3>4. Cardinality(PassedIn(passed, r, Since(now))) = 0
      BY <2>3, <3>1
    <3> QED
      BY <3>3, <3>4
  <2>5. Cardinality(PassedIn(passed', r, Before(now))) <= Limit[r[1]]
    <3>1. Before(now) \in SUBSET Nat /\ Since(s) \in SUBSET Nat /\ now \notin Before(now)
      BY <1>1 DEF Since, Before
    <3>2. \A x \in Before(now) : x <= MaxTime => x \in Since(s)
      BY <1>1, <2>2 DEF Since, Before
    <3>3. Cardinality(PassedIn(passed, r, Before(now))) <= Cardinality(PassedIn(passed, r, Since(s)))
      BY <3>1, <3>2, FewerTimes
    <3>4. Cardinality(PassedIn(passed, r, Since(s))) <= Limit[r[1]]
      BY DEF WindowIsKept
    <3>5. PassedIn(passed', r, Before(now)) = PassedIn(passed, r, Before(now))
          /\ Cardinality(PassedIn(passed, r, Before(now))) \in Nat
          /\ Cardinality(PassedIn(passed, r, Since(s))) \in Nat
      BY <1>5, <3>1
    <3>6. Cardinality(PassedIn(passed, r, Before(now))) <= Limit[r[1]]
      BY <1>1, <3>3, <3>4, <3>5
    <3> QED
      BY <3>5, <3>6
  <2>6. \A x \in 0..MaxTime : x > now \/ x >= now + WindowTime => passed'[<<r, x>>] = 0
    BY <1>1, <1>3 DEF WindowIsKept
  <2>7. /\ now \in Int /\ now <= now
        /\ Cardinality(PassedIn(passed', r, Since(now))) <= Limit[r[1]]
    <3>1. Since(now) \in SUBSET Nat
      BY DEF Since
    <3>2. Cardinality(PassedIn(passed', r, Since(now))) \in Nat
      BY <1>5, <3>1
    <3> PICK a \in Nat : a = Cardinality(PassedIn(passed', r, Since(now)))
      BY <3>2
    <3> PICK limit \in Nat \ {0} : limit = Limit[r[1]]
      BY <1>1
    <3>3. a <= limit
      BY <2>4
    <3> QED
      BY <1>1, <3>3
  <2>8. window'[r].expiresAt = now + WindowTime /\ window'[r].count = 1
    BY <1>2, <2>1
  <2> PICK z \in Int : z = now
    BY <1>1
  <2>9. WindowIsKept(r, z)'
    BY <1>1, <2>4, <2>5, <2>6, <2>7, <2>8 DEF WindowIsKept
  <2> QED
    BY <2>5, <2>7, <2>9
<1>7. CASE w.expiresAt > now
  <2>1. Counted(r) = [w EXCEPT !.count = w.count + 1]
    BY <1>1, <1>7 DEF Counted
  <2>2. Counted(r).count = w.count + 1 /\ Counted(r).expiresAt = w.expiresAt
    BY <2>1
  <2>3. s <= now /\ w.expiresAt = s + WindowTime
    BY <1>1, <1>7 DEF WindowIsKept
  <2>4. Cardinality(PassedIn(passed', r, Since(s))) <= w.count + 1
    <3>1. Cardinality(PassedIn(passed, r, Since(s))) <= w.count
      BY <1>7 DEF WindowIsKept
    <3>2. Since(s) \in SUBSET Nat
      BY DEF Since
    <3>3. /\ Cardinality(PassedIn(passed', r, Since(s))) <=
               Cardinality(PassedIn(passed, r, Since(s))) + 1
          /\ Cardinality(PassedIn(passed, r, Since(s))) \in Nat
          /\ Cardinality(PassedIn(passed', r, Since(s))) \in Nat
      BY <1>5, <3>2
    <3> QED
      BY <1>1, <3>1, <3>3
  <2>5. Cardinality(PassedIn(passed', r, Before(s))) <= Limit[r[1]]
    <3>1. Before(s) \in SUBSET Nat /\ now \notin Before(s)
      BY <1>1, <2>3 DEF Before
    <3> QED
      BY <1>5, <3>1 DEF WindowIsKept
  <2>6. \A x \in 0..MaxTime : x > now \/ x >= s + WindowTime => passed'[<<r, x>>] = 0
    BY <1>1, <1>3, <1>7, <2>3 DEF WindowIsKept
  <2>7. Cardinality(PassedIn(passed', r, Since(s))) <= Limit[r[1]]
    <3>1. Cardinality(PassedIn(passed', r, Since(s))) \in Nat
      BY <1>4, <1>5
    <3> QED
      BY <1>1, <2>2, <2>4, <3>1
  <2>8. window'[r].expiresAt = s + WindowTime /\ window'[r].count = w.count + 1
    BY <1>2, <2>2, <2>3
  <2>9. WindowIsKept(r, s)'
    BY <1>1, <2>3, <2>4, <2>5, <2>6, <2>7, <2>8 DEF WindowIsKept
  <2> QED
    BY <2>3, <2>5, <2>7, <2>9
<1>8. w.expiresAt <= now \/ w.expiresAt > now
  BY <1>1
<1> QED
  BY <1>6, <1>7, <1>8

(* An attempt, whatever becomes of it.                                     *)
LEMMA AttemptKeeps ==
  ASSUME WindowsInv, AccountsTypeOK', AccountsAssumption, now' = now, NEW kind,
         NEW c \in Customer, Passes(kind, c)
  PROVE  WindowsInv'
<1> DEFINE r == <<kind, c>>
<1>1. CASE r \notin Rate
  <2>1. UNCHANGED <<window, passed>>
    BY <1>1 DEF Passes, book
  <2>2. now' \in {now, now + 1}
    OBVIOUS
  <2> QED
    BY <2>1, <2>2, WindowsQuiet
<1>2. CASE r \in Rate
  <2>1. /\ Counted(r).count <= Limit[r[1]]
        /\ window' = [window EXCEPT ![r] = Counted(r)]
        /\ passed' = [passed EXCEPT ![<<r, now>>] = passed[<<r, now>>] + 1]
    BY <1>2 DEF Passes
  <2> HIDE DEF r
  <2>2. /\ passed \in [Rate \X (0..MaxTime) -> Nat] /\ now \in 0..MaxTime
        /\ window \in [Rate -> [count : Nat, expiresAt : Nat]]
    BY DEF WindowsInv, AccountsTypeOK
  <2> PICK q, q2 : q = passed /\ q2 = passed'
    OBVIOUS
  <2>2a. Passed(q2, q, r, now)
    BY <1>2, <2>1, <2>2 DEF Passed
  <2>3. ASSUME NEW o \in Rate, o # r
        PROVE  (\E s \in Int : WindowIsKept(o, s)') /\ SpansAreKept(o)'
    <3>1. window'[o] = window[o]
      BY <2>1, <2>2, <2>3
    <3>2. \A x \in 0..MaxTime : passed'[<<o, x>>] = passed[<<o, x>>]
      BY <1>2, <2>1, <2>2, <2>3
    <3>3. \A T \in SUBSET Nat : PassedIn(passed', o, T) = PassedIn(passed, o, T)
      BY <2>2a, <2>3, SamePassed
    <3>4. PICK s \in Int : WindowIsKept(o, s)
      BY DEF WindowsInv
    <3>5. Since(s) \in SUBSET Nat /\ Before(s) \in SUBSET Nat
      BY DEF Since, Before
    <3>6. WindowIsKept(o, s)'
      BY <3>1, <3>2, <3>3, <3>4, <3>5 DEF WindowIsKept
    <3>7. SpansAreKept(o)'
      <4>1. \A t \in 0..MaxTime : t .. (t + WindowTime - 1) \in SUBSET Nat
        BY DEF AccountsAssumption
      <4>2. SpansAreKept(o)
        BY DEF WindowsInv
      <4> QED
        BY <3>3, <4>1, <4>2 DEF SpansAreKept
    <3> QED
      BY <3>6, <3>7
  <2>4. PICK s \in Int :
           /\ WindowIsKept(r, s)'
           /\ s <= now
           /\ Cardinality(PassedIn(passed', r, Since(s))) <= Limit[r[1]]
           /\ Cardinality(PassedIn(passed', r, Before(s))) <= Limit[r[1]]
    BY <1>2, <2>1, AttemptIsCounted
  <2>5. ASSUME NEW t \in 0..MaxTime
        PROVE  Cardinality(PassedIn(passed', r, t .. (t + WindowTime - 1))) <= 2 * Limit[r[1]]
    <3>1. CASE now \in t .. (t + WindowTime - 1)
      <4>1. s - WindowTime < t
        BY <2>2, <2>4, <3>1 DEF AccountsAssumption
      <4>2. Cardinality(PassedIn(q2, r, Since(s))) <= Limit[r[1]]
            /\ Cardinality(PassedIn(q2, r, Before(s))) <= Limit[r[1]]
        BY <2>4
      <4>3. Cardinality(PassedIn(q2, r, t .. (t + WindowTime - 1))) <= 2 * Limit[r[1]]
        BY <1>2, <4>1, <4>2, SpanInTwoWindows
      <4> QED
        BY <4>3
    <3>2. CASE now \notin t .. (t + WindowTime - 1)
      <4>1. t .. (t + WindowTime - 1) \in SUBSET Nat
        BY DEF AccountsAssumption
      <4>2. PassedIn(passed', r, t .. (t + WindowTime - 1)) =
              PassedIn(passed, r, t .. (t + WindowTime - 1))
        BY <1>2, <2>2a, <3>2, <4>1, SamePassed
      <4>3. SpansAreKept(r)
        BY <1>2 DEF WindowsInv
      <4> QED
        BY <4>2, <4>3 DEF SpansAreKept
    <3> QED
      BY <3>1, <3>2
  <2>6. SpansAreKept(r)'
    BY <2>5 DEF SpansAreKept
  <2> QED
    BY <2>3, <2>4, <2>6 DEF WindowsInv
<1> QED
  BY <1>1, <1>2

(* The windows of each step.                                               *)
LEMMA WindowsStep ==
  ASSUME WindowsInv, AccountsInv, AccountsAssumption, [Next]_vars
  PROVE  WindowsInv'
<1>1. AccountsTypeOK'
  BY AccountsStep DEF AccountsInv
<1>2. CASE UNCHANGED <<now, book>>
  BY <1>1, <1>2, WindowsQuiet DEF book
<1>3. CASE Tick
  BY <1>1, <1>3, WindowsQuiet DEF Tick, book
<1>4. CASE Purge
  <2>1. now' = now /\ passed' = passed
    BY <1>4 DEF Purge
  <2>2. \A r \in Rate : window'[r] = window[r] \/ (window[r].expiresAt <= now
                                                  /\ window'[r].expiresAt = 0)
    BY <1>4 DEF Purge
  <2> QED
    BY <1>1, <2>1, <2>2, WindowsQuiet
<1>5. ASSUME NEW b \in Browser, NEW c \in Customer,
             ReadLogin(b, c) \/ RequestReset(b, c) \/ RequestVerification(b, c)
      PROVE  WindowsInv'
  <2>1. now' = now /\ \E kind \in Attempt : Passes(kind, c)
    BY <1>5 DEF ReadLogin, RequestReset, RequestVerification, Attempt
  <2> QED
    BY <1>1, <2>1, AttemptKeeps
<1>6. \/ UNCHANGED <<now, book>> \/ Tick \/ Purge
      \/ \E b \in Browser, c \in Customer :
           ReadLogin(b, c) \/ RequestReset(b, c) \/ RequestVerification(b, c)
  BY ZenonT(60) DEF Next, BrowserNext, vars, OpenBook, Login, Register, RedeemReset, RedeemVerify,
         SetCustomerDisabled, StoreLink, Present, Logout, MailAccepted, MailFailed, DropLink,
         RedeemRefused, DeleteAddress, SaveAddress, Die
<1> QED
  BY <1>2, <1>3, <1>4, <1>5, <1>6

(* The windows of the first state: as if one had just ended.               *)
LEMMA WindowsInit ==
  ASSUME Init, AccountsAssumption
  PROVE  WindowsInv
<1>1. AccountsTypeOK
  BY AccountsInit DEF AccountsInv
<1> SUFFICES ASSUME NEW r \in Rate
             PROVE  (\E s \in Int : WindowIsKept(r, s)) /\ SpansAreKept(r)
  BY <1>1 DEF WindowsInv
<1>2. \A x \in 0..MaxTime : passed[<<r, x>>] = 0
  BY DEF Init
<1>3. ASSUME NEW T \in SUBSET Nat PROVE PassedIn(passed, r, T) = {}
  <2> SUFFICES ASSUME NEW p \in PassedIn(passed, r, T) PROVE FALSE
    OBVIOUS
  <2>1. p[1] \in 0..MaxTime /\ p[2] \in 1 .. (2 * Limit[r[1]] + 1) /\ p[2] <= passed[<<r, p[1]>>]
    BY PassedMembers
  <2>2. p[2] >= 1
    BY <2>1 DEF AccountsAssumption, Rate
  <2> QED
    BY <1>2, <2>1, <2>2
<1>4. Limit[r[1]] \in Nat /\ WindowTime \in Nat
  BY DEF AccountsAssumption, Rate
<1>5. Cardinality({}) = 0
  BY FS_EmptySet
<1>6. PICK s \in Int : s = 0 - WindowTime
  BY <1>4
<1>7. Since(s) \in SUBSET Nat /\ Before(s) \in SUBSET Nat
  BY DEF Since, Before
<1>8. window[r].expiresAt = 0 /\ window[r].count = 0 /\ now = 0
  BY DEF Init
<1>7a. Cardinality(PassedIn(passed, r, Since(s))) = 0
       /\ Cardinality(PassedIn(passed, r, Before(s))) = 0
  BY <1>3, <1>5, <1>7
<1>8a. s <= now /\ window[r].expiresAt \in {0, s + WindowTime} /\ s + WindowTime <= now
  BY <1>4, <1>6, <1>8
<1>9. WindowIsKept(r, s)
  BY <1>2, <1>4, <1>7a, <1>8, <1>8a DEF WindowIsKept
<1>10. SpansAreKept(r)
  <2>1. \A t \in 0..MaxTime : t .. (t + WindowTime - 1) \in SUBSET Nat
    BY DEF AccountsAssumption
  <2>2. \A t \in 0..MaxTime :
          Cardinality(PassedIn(passed, r, t .. (t + WindowTime - 1))) = 0
    BY <1>3, <1>5, <2>1
  <2> QED
    BY <1>4, <2>2 DEF SpansAreKept
<1> QED
  BY <1>9, <1>10

(* No span as long as a window lets more than two windows of attempts pass *)
(* (customerRateLimit).                                                    *)
THEOREM AttemptsCounted ==
  AccountsSpec => []AttemptsBounded
<1>1. Init => AccountsInv /\ WindowsInv
  BY AccountsInit, WindowsInit, AccountsAssumption
<1>2. (AccountsInv /\ WindowsInv) /\ [Next]_vars => (AccountsInv /\ WindowsInv)'
  BY AccountsStep, WindowsStep, AccountsAssumption
<1>3. WindowsInv => AttemptsBounded
  BY DEF WindowsInv, SpansAreKept, PassedIn, AttemptsBounded
<1> QED
  BY <1>1, <1>2, <1>3, PTL DEF AccountsSpec
==============================================================================
