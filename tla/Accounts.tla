------------------------------- MODULE Accounts -------------------------------
(***************************************************************************)
(* Customer accounts: passwords, sessions, the single-use links sent by    *)
(* mail, and saved addresses (src/modules/customers/service.ts).           *)
(*                                                                         *)
(* A request reads the account, computes a hash or calls the mail provider *)
(* outside any transaction, and then writes under the lock of the customer *)
(* row: the task of a browser is what such a request has read.  A process  *)
(* can die between its steps.                                              *)
(***************************************************************************)
EXTENDS Naturals, FiniteSets

CONSTANTS
  Customer,      \* customers, by normalised email
  Session,       \* session secrets
  Link,          \* secrets of links
  AddressId,     \* rows of the address book
  Browser,       \* browsers, each with one cookie and one request at a time
  None,
  SessionTime,   \* lifetime of a session (30 days)
  LinkTime,      \* lifetime of a link by purpose (1 hour, 24 hours)
  Limit,         \* attempts in a window by kind of request, where they are counted
  WindowTime,    \* length of a window
  MaxAddresses,  \* saved addresses of a customer (20)
  MaxTime        \* bound of the model on the clock

VARIABLES
  now,           \* the clock
  account,       \* customers
  session,       \* customer_sessions
  link,          \* customer_tokens
  mailed,        \* links that arrived in the mailbox of their customer
  address,       \* customer_addresses
  cookie,        \* the session a browser presents
  task,          \* what the request of a browser has read
  window,        \* customer_rate_limits
  passed         \* history: attempts that passed, by kind, customer and time

book == <<window, passed>>
vars == <<now, account, session, link, mailed, address, cookie, task, book>>

Purpose == {"RESET", "VERIFY"}
Attempt == {"LOGIN", "RESET", "VERIFY"}
Rate == (DOMAIN Limit) \X Customer

ASSUME AccountsAssumption ==
  /\ None \notin Customer \cup Session \cup Link
  /\ IsFiniteSet(Link)
  /\ SessionTime \in Nat \ {0} /\ WindowTime \in Nat \ {0}
  /\ LinkTime \in [Purpose -> Nat \ {0}]
  /\ DOMAIN Limit \subseteq Attempt /\ \A kind \in DOMAIN Limit : Limit[kind] \in Nat \ {0}
  /\ MaxAddresses \in Nat \ {0} /\ MaxTime \in Nat

(* A password is the number of the hash that is stored: a salted hash is   *)
(* never the same twice.  Rows that are deleted are "GONE".                *)
NoAccount == [status |-> "NONE", verified |-> FALSE, password |-> 0]
NoSession == [status |-> "UNUSED", customer |-> None, expiresAt |-> 0, password |-> 0]
NoLink ==
  [status |-> "UNUSED", customer |-> None, purpose |-> "RESET", expiresAt |-> 0, password |-> 0]
NoAddress == [customer |-> None, default |-> FALSE]
Idle == [op |-> "IDLE", customer |-> None, password |-> 0, purpose |-> "RESET", link |-> None]

AccountRow ==
  [status : {"NONE", "PENDING_VERIFICATION", "ACTIVE", "DISABLED"}, verified : BOOLEAN,
   password : Nat]
SessionRow ==
  [status : {"UNUSED", "LIVE", "GONE"}, customer : Customer \cup {None}, expiresAt : Nat,
   password : Nat]
LinkRow ==
  [status : {"UNUSED", "LIVE", "GONE"}, customer : Customer \cup {None}, purpose : Purpose,
   expiresAt : Nat, password : Nat]
AddressRow == [customer : Customer \cup {None}, default : BOOLEAN]
Request ==
  [op : {"IDLE", "LOGIN", "ISSUE", "DELIVER", "UNDELIVERED", "REDEEM", "ADDRESS"},
   customer : Customer \cup {None}, password : Nat, purpose : Purpose, link : Link \cup {None}]

AccountsTypeOK ==
  /\ now \in 0..MaxTime
  /\ account \in [Customer -> AccountRow]
  /\ session \in [Session -> SessionRow]
  /\ link \in [Link -> LinkRow]
  /\ mailed \subseteq Link
  /\ address \in [AddressId -> AddressRow]
  /\ cookie \in [Browser -> Session \cup {None}]
  /\ task \in [Browser -> Request]
  /\ window \in [Rate -> [count : Nat, expiresAt : Nat]]
  /\ passed \in [Rate \X (0..MaxTime) -> Nat]
------------------------------------------------------------------------------
Init ==
  /\ now = 0
  /\ account = [c \in Customer |-> NoAccount]
  /\ session = [s \in Session |-> NoSession]
  /\ link = [l \in Link |-> NoLink]
  /\ mailed = {}
  /\ address = [a \in AddressId |-> NoAddress]
  /\ cookie = [b \in Browser |-> None]
  /\ task = [b \in Browser |-> Idle]
  /\ window = [r \in Rate |-> [count |-> 0, expiresAt |-> 0]]
  /\ passed = [p \in Rate \X (0..MaxTime) |-> 0]

Live(rows, c) == {r \in DOMAIN rows : rows[r].status = "LIVE" /\ rows[r].customer = c}
Without(rows, gone) ==
  [r \in DOMAIN rows |-> IF r \in gone THEN [rows[r] EXCEPT !.status = "GONE"] ELSE rows[r]]

(* requireCustomer: the customer of the session that the browser presents. *)
SignedIn(b, c) ==
  /\ cookie[b] # None
  /\ session[cookie[b]].status = "LIVE"
  /\ session[cookie[b]].customer = c
  /\ session[cookie[b]].expiresAt > now
  /\ account[c].status # "DISABLED"

(* Mutant of Counted: a window that is over is reset but not prolonged.    *)
CountedInOldWindow(r) ==
  IF window[r].expiresAt <= now
  THEN [count |-> 1,
        expiresAt |-> IF window[r].expiresAt = 0 THEN now + WindowTime ELSE window[r].expiresAt]
  ELSE [window[r] EXCEPT !.count = @ + 1]

(* customerRateLimit: one upsert counts the attempt, also one it refuses.  *)
Counted(r) ==
  IF window[r].expiresAt <= now
  THEN [count |-> 1, expiresAt |-> now + WindowTime]
  ELSE [window[r] EXCEPT !.count = @ + 1]

(* An attempt that the window lets pass.  A refused one changes nothing    *)
(* but a count that is already above the limit.                            *)
Passes(kind, c) ==
  LET r == <<kind, c>>
  IN \/ /\ r \in Rate
        /\ Counted(r).count <= Limit[kind]
        /\ window' = [window EXCEPT ![r] = Counted(r)]
        /\ passed' = [passed EXCEPT ![<<r, now>>] = @ + 1]
     \/ r \notin Rate /\ UNCHANGED book

(* session(): the session that the browser had is replaced.                *)
OpenSession(b, s, c, password) ==
  /\ session[s].status = "UNUSED"
  /\ session' = [Without(session, {cookie[b]}) EXCEPT
       ![s] = [status |-> "LIVE", customer |-> c, expiresAt |-> now + SessionTime,
               password |-> password]]
  /\ cookie' = [cookie EXCEPT ![b] = s]

Begin(b, op, c, password, purpose, l) ==
  /\ task[b] = Idle
  /\ task' = [task EXCEPT ![b] = [op |-> op, customer |-> c, password |-> password,
                                  purpose |-> purpose, link |-> l]]

Finish(b) == task' = [task EXCEPT ![b] = Idle]
------------------------------------------------------------------------------
(* register, and the verification mail that follows it.                    *)
Register(b, c, s) ==
  /\ account[c].status = "NONE"
  /\ account' = [account EXCEPT
       ![c] = [status |-> "PENDING_VERIFICATION", verified |-> FALSE, password |-> 1]]
  /\ OpenSession(b, s, c, 1)
  /\ Begin(b, "ISSUE", c, 0, "VERIFY", None)
  /\ UNCHANGED <<now, link, mailed, address, book>>

(* login, first part: the password is verified against the row as read.    *)
ReadLogin(b, c) ==
  /\ account[c].status \in {"PENDING_VERIFICATION", "ACTIVE"}
  /\ Passes("LOGIN", c)
  /\ Begin(b, "LOGIN", c, account[c].password, "RESET", None)
  /\ UNCHANGED <<now, account, session, link, mailed, address, cookie>>

(* Mutant of StillValid: the password is not compared again.               *)
StillEnabled(c, password) == account[c].status # "DISABLED"

StillValid(c, password) ==
  account[c].status # "DISABLED" /\ account[c].password = password

(* login, second part, under the lock of the customer.                     *)
Login(b, s) ==
  /\ task[b].op = "LOGIN"
  /\ \/ /\ StillValid(task[b].customer, task[b].password)
        /\ OpenSession(b, s, task[b].customer, task[b].password)
     \/ /\ ~StillValid(task[b].customer, task[b].password)
        /\ UNCHANGED <<session, cookie>>
  /\ Finish(b)
  /\ UNCHANGED <<now, account, link, mailed, address, book>>

Logout(b) ==
  /\ task[b] = Idle
  /\ cookie[b] # None
  /\ session' = Without(session, {cookie[b]})
  /\ cookie' = [cookie EXCEPT ![b] = None]
  /\ UNCHANGED <<now, account, link, mailed, address, task, book>>
------------------------------------------------------------------------------
(* requestReset, for anyone; requestVerification, for who is signed in.    *)
RequestReset(b, c) ==
  /\ account[c].status \in {"PENDING_VERIFICATION", "ACTIVE"}
  /\ Passes("RESET", c)
  /\ Begin(b, "ISSUE", c, 0, "RESET", None)
  /\ UNCHANGED <<now, account, session, link, mailed, address, cookie>>

RequestVerification(b, c) ==
  /\ SignedIn(b, c)
  /\ ~account[c].verified
  /\ Passes("VERIFY", c)
  /\ Begin(b, "ISSUE", c, 0, "VERIFY", None)
  /\ UNCHANGED <<now, account, session, link, mailed, address, cookie>>

(* issue: the link is stored for the account as it was read.               *)
StoreLink(b, l) ==
  LET t == task[b]
  IN /\ t.op = "ISSUE"
     /\ link[l].status = "UNUSED"
     /\ link' = [link EXCEPT
          ![l] = [status |-> "LIVE", customer |-> t.customer, purpose |-> t.purpose,
                  expiresAt |-> now + LinkTime[t.purpose],
                  password |-> account[t.customer].password]]
     /\ task' = [task EXCEPT ![b].op = "DELIVER", ![b].link = l]
     /\ UNCHANGED <<now, account, session, mailed, address, cookie, book>>

(* The provider accepts; or the call fails, whether or not the mail goes   *)
(* out, and the link is deleted.                                           *)
MailAccepted(b) ==
  /\ task[b].op = "DELIVER"
  /\ mailed' = mailed \cup {task[b].link}
  /\ Finish(b)
  /\ UNCHANGED <<now, account, session, link, address, cookie, book>>

MailFailed(b) ==
  /\ task[b].op = "DELIVER"
  /\ mailed' \in {mailed, mailed \cup {task[b].link}}
  /\ task' = [task EXCEPT ![b].op = "UNDELIVERED"]
  /\ UNCHANGED <<now, account, session, link, address, cookie, book>>

DropLink(b) ==
  /\ task[b].op = "UNDELIVERED"
  /\ link' = Without(link, {task[b].link})
  /\ Finish(b)
  /\ UNCHANGED <<now, account, session, mailed, address, cookie, book>>
------------------------------------------------------------------------------
(* redeem, first part: the row of the link names the customer to lock.     *)
Present(b, l) ==
  /\ l \in mailed
  /\ link[l].status = "LIVE"
  /\ Begin(b, "REDEEM", link[l].customer, 0, link[l].purpose, l)
  /\ UNCHANGED <<now, account, session, link, mailed, address, cookie, book>>

(* Mutants of Redeemable: what was read before the lock is believed; a     *)
(* disabled customer may follow a link.                                    *)
RedeemableAsRead(l) ==
  link[l].expiresAt > now /\ account[link[l].customer].status # "DISABLED"

RedeemableByAnyone(l) == link[l].status = "LIVE" /\ link[l].expiresAt > now

Redeemable(l) ==
  /\ link[l].status = "LIVE"
  /\ link[l].expiresAt > now
  /\ account[link[l].customer].status # "DISABLED"

(* Mutant of Siblings: only the link itself is consumed.                   *)
LinkAlone(l) == {l}

(* The links of the same customer and purpose.                             *)
Siblings(l) ==
  {m \in Live(link, link[l].customer) : link[m].purpose = link[l].purpose}

(* redeem, second part, under the lock of the customer.                    *)
RedeemReset(b) ==
  LET l == task[b].link
      c == task[b].customer
  IN /\ task[b].op = "REDEEM" /\ task[b].purpose = "RESET"
     /\ Redeemable(l)
     /\ account' = [account EXCEPT ![c].password = @ + 1]
     /\ link' = Without(link, Siblings(l))
     /\ session' = Without(session, Live(session, c))
     /\ cookie' = [cookie EXCEPT ![b] = None]
     /\ Finish(b)
     /\ UNCHANGED <<now, mailed, address, book>>

RedeemVerify(b) ==
  LET l == task[b].link
      c == task[b].customer
  IN /\ task[b].op = "REDEEM" /\ task[b].purpose = "VERIFY"
     /\ Redeemable(l)
     /\ account' = [account EXCEPT ![c].verified = TRUE, ![c].status = "ACTIVE"]
     /\ link' = Without(link, Siblings(l))
     /\ Finish(b)
     /\ UNCHANGED <<now, session, mailed, address, cookie, book>>

RedeemRefused(b) ==
  /\ task[b].op = "REDEEM"
  /\ ~Redeemable(task[b].link)
  /\ Finish(b)
  /\ UNCHANGED <<now, account, session, link, mailed, address, cookie, book>>
------------------------------------------------------------------------------
(* saveAddress and deleteAddress: the session is read before the lock.     *)
OpenBook(b, c) ==
  /\ SignedIn(b, c)
  /\ Begin(b, "ADDRESS", c, 0, "RESET", None)
  /\ UNCHANGED <<now, account, session, link, mailed, address, cookie, book>>

(* One default address at most.                                            *)
Entry(a, c, default) ==
  [x \in AddressId |->
     IF x = a THEN [customer |-> c, default |-> default]
     ELSE IF default /\ address[x].customer = c THEN [address[x] EXCEPT !.default = FALSE]
     ELSE address[x]]

SaveAddress(b, a, default) ==
  LET c == task[b].customer
  IN /\ task[b].op = "ADDRESS"
     /\ \/ address[a].customer = c
        \/ /\ address[a].customer = None
           /\ Cardinality({x \in AddressId : address[x].customer = c}) < MaxAddresses
     /\ address' = Entry(a, c, default)
     /\ Finish(b)
     /\ UNCHANGED <<now, account, session, link, mailed, cookie, book>>

DeleteAddress(b, a) ==
  /\ task[b].op = "ADDRESS"
  /\ address[a].customer = task[b].customer
  /\ address' = [address EXCEPT ![a] = NoAddress]
  /\ Finish(b)
  /\ UNCHANGED <<now, account, session, link, mailed, cookie, book>>
------------------------------------------------------------------------------
StatusOf(c, disabled) ==
  CASE disabled -> "DISABLED"
    [] ~disabled /\ account[c].verified -> "ACTIVE"
    [] OTHER -> "PENDING_VERIFICATION"

SetCustomerDisabled(c, disabled) ==
  /\ account[c].status # "NONE"
  /\ account' = [account EXCEPT ![c].status = StatusOf(c, disabled)]
  /\ session' = Without(session, Live(session, c))
  /\ link' = Without(link, Live(link, c))
  /\ UNCHANGED <<now, mailed, address, cookie, task, book>>

(* The maintenance script deletes what has expired.                        *)
Purge ==
  /\ session' = Without(session, {s \in Session : session[s].status = "LIVE" /\
                                                  session[s].expiresAt <= now})
  /\ link' = Without(link, {l \in Link : link[l].status = "LIVE" /\ link[l].expiresAt <= now})
  /\ window' = [r \in Rate |-> IF window[r].expiresAt <= now
                               THEN [count |-> 0, expiresAt |-> 0] ELSE window[r]]
  /\ UNCHANGED <<now, account, mailed, address, cookie, task, passed>>

(* The process that serves a request dies: the request is not heard of.    *)
Die(b) ==
  /\ task[b] # Idle
  /\ Finish(b)
  /\ UNCHANGED <<now, account, session, link, mailed, address, cookie, book>>

Tick ==
  /\ now < MaxTime
  /\ now' = now + 1
  /\ UNCHANGED <<account, session, link, mailed, address, cookie, task, book>>

BrowserNext(b) ==
  \/ \E c \in Customer :
       \/ ReadLogin(b, c) \/ RequestReset(b, c) \/ RequestVerification(b, c) \/ OpenBook(b, c)
       \/ \E s \in Session : Register(b, c, s)
  \/ \E s \in Session : Login(b, s)
  \/ \E l \in Link : StoreLink(b, l) \/ Present(b, l)
  \/ Logout(b) \/ MailAccepted(b) \/ MailFailed(b) \/ DropLink(b)
  \/ RedeemReset(b) \/ RedeemVerify(b) \/ RedeemRefused(b)
  \/ \E a \in AddressId : DeleteAddress(b, a) \/ \E d \in BOOLEAN : SaveAddress(b, a, d)
  \/ Die(b)

Next ==
  \/ \E b \in Browser : BrowserNext(b)
  \/ \E c \in Customer, disabled \in BOOLEAN : SetCustomerDisabled(c, disabled)
  \/ Purge
  \/ Tick

AccountsSpec == Init /\ [][Next]_vars
------------------------------------------------------------------------------
(***************************************************************************)
(* Properties.                                                             *)
(***************************************************************************)

Used(c) ==
  {l \in Link : link[l].status = "GONE" /\ link[l].customer = c /\ link[l].purpose = "RESET"}

(* Nobody is signed in under a password that was replaced since, or while  *)
(* the account is disabled, however a login overlaps a reset or the        *)
(* decision of staff (login, redeem, setCustomerDisabled).                 *)
SessionsAreCurrent ==
  \A c \in Customer : \A s \in Live(session, c) :
    session[s].password = account[c].password /\ account[c].status # "DISABLED"

(* A password that was just reset cannot be reset by a link that was there *)
(* before, and every reset has used up a link, however two uses of a link  *)
(* overlap (redeem).                                                       *)
LinksAreCurrent ==
  \A c \in Customer :
    /\ \A l \in Live(link, c) :
         link[l].purpose = "RESET" => link[l].password = account[c].password
    /\ account[c].password <= 1 + Cardinality(Used(c))

(* While an account is disabled nothing that is under way gets through:    *)
(* its password and verification stay, and when staff enable it again it   *)
(* has neither a session nor a link (redeem, login, setCustomerDisabled).  *)
ReturnIsFresh ==
  [][\A c \in Customer : account[c].status = "DISABLED" =>
       /\ account'[c].password = account[c].password
       /\ account'[c].verified = account[c].verified
       /\ account'[c].status # "DISABLED" =>
            Live(session', c) = {} /\ Live(link', c) = {}]_vars

(* No span as long as a window lets more than two windows of attempts      *)
(* pass, also when windows end, are purged and start again                 *)
(* (customerRateLimit).                                                    *)
AttemptsBounded ==
  \A r \in Rate, t \in 0..MaxTime :
    Cardinality({p \in (t .. (t + WindowTime - 1)) \X (1 .. (2 * Limit[r[1]] + 1)) :
                   p[1] <= MaxTime /\ p[2] <= passed[<<r, p[1]>>]}) <= 2 * Limit[r[1]]
==============================================================================
