------------------------------- MODULE Rewards -------------------------------
(***************************************************************************)
(* Prize draws by customers, and the delivery of what they win             *)
(* (src/modules/gacha/customer-service.ts and fulfillment.ts).             *)
(*                                                                         *)
(* Staff allow a customer a number of free draws of a banner; a draw made  *)
(* under such an allowance is an award of module Gacha with a reward, which*)
(* the customer claims for delivery and staff dispatch.  A draw or a claim *)
(* is one transaction under the lock of the customer and of the banner;    *)
(* reading a receipt again changes nothing.                                *)
(***************************************************************************)
EXTENDS Gacha

CONSTANTS
  Customer,          \* customer accounts
  RequestKey,        \* request keys of draws
  Authorization,     \* ids of allowances
  AuthorizationKey,  \* operation keys submitted with an allowance
  MaxPulls,          \* the largest allowance
  AllowedTime,       \* how far ahead an allowance may expire (30 days)
  ClaimKey,          \* operation keys submitted with a claim
  Address            \* delivery addresses

ASSUME RewardsAssumption ==
  /\ None \notin Customer \cup RequestKey \cup Authorization \cup AuthorizationKey
                   \cup ClaimKey \cup Address
  /\ MaxPulls \in Nat /\ AllowedTime \in Nat

VARIABLES
  enabled,        \* customers whose account and session are valid
  opened,         \* banners with customer_enabled
  authorization,  \* gacha_authorizations
  request,        \* customer, request key and allowance of gacha_pulls
  reward,         \* status of gacha_rewards, one per customer pull
  claim,          \* claim key and address of a claimed reward
  delivery        \* status of its fulfillment_requests row

rewardVars == <<enabled, opened, authorization, request, reward, claim, delivery>>
rewardsVars == <<drawVars, rewardVars>>

RewardStatus ==
  {"NONE", "AWARDED", "CLAIMED", "PREPARING", "SHIPPED", "DELIVERED", "CANCELLED"}
DeliveryStatus == {"NONE", "READY", "SHIPPED", "DELIVERED", "CANCELLED"}

NoAuthorization ==
  [customer |-> None, banner |-> None, key |-> None, maxPulls |-> 0, expiresAt |-> 0]
NoRequest == [customer |-> None, key |-> None, authorization |-> None]
NoClaim == [key |-> None, address |-> None]

AuthorizationRecord ==
  [customer : Customer \cup {None}, banner : Banner \cup {None},
   key : AuthorizationKey \cup {None}, maxPulls : 0..MaxPulls, expiresAt : Nat]
RequestRecord ==
  [customer : Customer \cup {None}, key : RequestKey \cup {None},
   authorization : Authorization \cup {None}]
ClaimRecord == [key : ClaimKey \cup {None}, address : Address \cup {None}]

RewardsTypeOK ==
  /\ GachaTypeOK
  /\ enabled \subseteq Customer
  /\ opened \subseteq Banner
  /\ authorization \in [Authorization -> AuthorizationRecord]
  /\ request \in [Pull -> RequestRecord]
  /\ reward \in [Pull -> RewardStatus]
  /\ claim \in [Pull -> ClaimRecord]
  /\ delivery \in [Pull -> DeliveryStatus]

RewardsInit ==
  /\ GachaInit
  /\ enabled = Customer
  /\ opened = {}
  /\ authorization = [a \in Authorization |-> NoAuthorization]
  /\ request = [p \in Pull |-> NoRequest]
  /\ reward = [p \in Pull |-> "NONE"]
  /\ claim = [p \in Pull |-> NoClaim]
  /\ delivery = [p \in Pull |-> "NONE"]
------------------------------------------------------------------------------
(***************************************************************************)
(* Accounts and allowances.                                                *)
(***************************************************************************)

(* Disabling an account ends its sessions; it may be enabled again.        *)
SetDisabled(g) ==
  /\ enabled' = IF g \in enabled THEN enabled \ {g} ELSE enabled \cup {g}
  /\ UNCHANGED <<drawVars, opened, authorization, request, reward, claim, delivery>>

(* enable: the banner admits customers, or no longer does.                 *)
Enable(b) ==
  /\ banner[b].configuration # None
  /\ opened' = IF b \in opened THEN opened \ {b} ELSE opened \cup {b}
  /\ UNCHANGED <<drawVars, enabled, authorization, request, reward, claim, delivery>>

(* authorize: an operation key allows once, whatever is submitted again.   *)
Authorize(b, g, key, maxPulls, expiresAt, a) ==
  /\ banner[b].configuration # None
  /\ \A x \in Authorization : authorization[x].key # key
  /\ g \in enabled
  /\ now < expiresAt /\ expiresAt <= now + AllowedTime
  /\ authorization[a] = NoAuthorization
  /\ authorization' = [authorization EXCEPT ![a] =
       [customer |-> g, banner |-> b, key |-> key, maxPulls |-> maxPulls,
        expiresAt |-> expiresAt]]
  /\ UNCHANGED <<drawVars, enabled, opened, request, reward, claim, delivery>>

(* Mutant of Uses: a cancelled award gives its draw back.                  *)
UsesLeft(a) ==
  {p \in Pull : request[p].authorization = a /\ pull[p].status # "CANCELLED"}

(* The draws made under an allowance, whatever became of them.             *)
Uses(a) == {p \in Pull : request[p].authorization = a}

(* allowances.                                                             *)
Allowances(g, b) ==
  {a \in Authorization :
     /\ authorization[a].customer = g /\ authorization[a].banner = b
     /\ authorization[a].expiresAt > now
     /\ Cardinality(Uses(a)) < authorization[a].maxPulls}

(* The allowance a draw is charged to: the first to expire.                *)
Charged(g, b) ==
  {a \in Allowances(g, b) :
     \A x \in Allowances(g, b) : authorization[a].expiresAt <= authorization[x].expiresAt}
------------------------------------------------------------------------------
(***************************************************************************)
(* Draws and claims.                                                       *)
(***************************************************************************)

(* Mutant of Requested: a draw is forgotten once its award is closed.      *)
RequestedOpen(g, key) ==
  \E p \in Pull : request[p].customer = g /\ request[p].key = key /\ Open(p)

(* The key was used by this customer: a retry is answered with the receipt *)
(* of the first draw, or refused when its content differs.                 *)
Requested(g, key) == \E p \in Pull : request[p].customer = g /\ request[p].key = key

(* pull: the allowance, the award and the reward, or nothing.              *)
CustomerPull(g, key, b, asked, p) ==
  /\ g \in enabled
  /\ ~Requested(g, key)
  /\ b \in opened
  /\ Draw(b, asked, p)
  /\ \E a \in Charged(g, b) :
       request' = [request EXCEPT ![p] = [customer |-> g, key |-> key, authorization |-> a]]
  /\ reward' = [reward EXCEPT ![p] = "AWARDED"]
  /\ UNCHANGED <<enabled, opened, authorization, claim, delivery>>

Claimable(p) ==
  /\ claim[p] = NoClaim
  /\ reward[p] = "AWARDED" /\ pull[p].status = "RESERVED"
  /\ \E u \in AwardUnits(p) : Places(u, {"CONFIRMED"}) # {}

KeyFree(g, key) == \A q \in Pull : request[q].customer = g => claim[q].key # key

(* claimGachaReward: a delivery request with a copy of the address.  A     *)
(* retried claim is answered, any other claim of the reward refused.       *)
ClaimReward(g, p, key, address) ==
  /\ g \in enabled
  /\ request[p].customer = g
  /\ KeyFree(g, key)
  /\ Claimable(p)
  /\ reward' = [reward EXCEPT ![p] = "CLAIMED"]
  /\ claim' = [claim EXCEPT ![p] = [key |-> key, address |-> address]]
  /\ delivery' = [delivery EXCEPT ![p] = "READY"]
  /\ UNCHANGED <<drawVars, enabled, opened, authorization, request>>
------------------------------------------------------------------------------
(***************************************************************************)
(* Dispatch and cancellation by staff.                                     *)
(***************************************************************************)
PrepareReward(p) ==
  /\ claim[p] # NoClaim /\ reward[p] = "CLAIMED"
  /\ reward' = [reward EXCEPT ![p] = "PREPARING"]
  /\ UNCHANGED <<drawVars, enabled, opened, authorization, request, claim, delivery>>

(* The unit leaves, the award is consumed and the shipment recorded in one *)
(* transaction.                                                            *)
ShipReward(p) ==
  /\ claim[p] # NoClaim /\ reward[p] = "PREPARING"
  /\ ConsumeAward(p)
  /\ delivery[p] = "READY"
  /\ reward' = [reward EXCEPT ![p] = "SHIPPED"]
  /\ delivery' = [delivery EXCEPT ![p] = "SHIPPED"]
  /\ UNCHANGED <<enabled, opened, authorization, request, claim>>

DeliverReward(p) ==
  /\ claim[p] # NoClaim /\ reward[p] = "SHIPPED"
  /\ delivery[p] = "SHIPPED"
  /\ reward' = [reward EXCEPT ![p] = "DELIVERED"]
  /\ delivery' = [delivery EXCEPT ![p] = "DELIVERED"]
  /\ UNCHANGED <<drawVars, enabled, opened, authorization, request, claim>>

CancelReward(p) ==
  /\ reward[p] \in {"AWARDED", "CLAIMED", "PREPARING"}
  /\ CancelAward(p)
  /\ reward' = [reward EXCEPT ![p] = "CANCELLED"]
  /\ delivery' = [delivery EXCEPT ![p] = IF claim[p] = NoClaim THEN @ ELSE "CANCELLED"]
  /\ UNCHANGED <<enabled, opened, authorization, request, claim>>

(* Mutant of OfStaff: claimed rewards can be finalised past the queue.     *)
OfAnybody(p) == TRUE

(* finalize leaves claimed rewards to the queue.                           *)
OfStaff(p) == claim[p] = NoClaim

(* finalize: an award granted by staff is handed over.                     *)
HandOver(p) ==
  /\ request[p] = NoRequest
  /\ ConsumeAward(p)
  /\ UNCHANGED rewardVars

(* Mutant of TakeBack: the unit is given up, the award stays open.         *)
TakeBackUnit(p) ==
  /\ OfStaff(p)
  /\ Open(p)
  /\ \E u \in AwardUnits(p) : reservation' = Released(u)
  /\ reward' = [reward EXCEPT ![p] = IF @ = "NONE" THEN @ ELSE "CANCELLED"]
  /\ UNCHANGED <<now, balance, movement, receiving, gachaVars, enabled, opened,
                 authorization, request, claim, delivery>>

(* finalize: an award, or a reward nobody claimed, is taken back.          *)
TakeBack(p) ==
  /\ OfStaff(p)
  /\ CancelAward(p)
  /\ reward' = [reward EXCEPT ![p] = IF @ = "NONE" THEN @ ELSE "CANCELLED"]
  /\ UNCHANGED <<enabled, opened, authorization, request, claim, delivery>>
------------------------------------------------------------------------------
AllowNext ==
  \/ \E g \in Customer : SetDisabled(g)
  \/ \E b \in Banner : Enable(b)
  \/ \E b \in Banner, g \in Customer, key \in AuthorizationKey, maxPulls \in 1..MaxPulls,
        expiresAt \in 0..MaxTime+1, a \in Authorization :
       Authorize(b, g, key, maxPulls, expiresAt, a)

CustomerNext ==
  \E g \in Customer, p \in Pull :
    \/ \E key \in RequestKey, b \in Banner, c \in Configuration : CustomerPull(g, key, b, c, p)
    \/ \E key \in ClaimKey, address \in Address : ClaimReward(g, p, key, address)

QueueNext ==
  \E p \in Pull :
    \/ PrepareReward(p) \/ ShipReward(p) \/ DeliverReward(p) \/ CancelReward(p)
    \/ HandOver(p) \/ TakeBack(p)

RewardsNext ==
  \/ (WorldNext \/ BannerNext \/ GrantNext) /\ UNCHANGED rewardVars
  \/ AllowNext \/ CustomerNext \/ QueueNext

RewardsSpec == RewardsInit /\ [][RewardsNext]_rewardsVars
------------------------------------------------------------------------------
(***************************************************************************)
(* Properties.                                                             *)
(***************************************************************************)

(* Reward, award and delivery agree whoever finalises the award: nothing   *)
(* is packed for an award that was taken back, and a unit has left exactly *)
(* for what was dispatched (validate_customer_gacha_award,                 *)
(* assert_reward_fulfillment).                                             *)
RewardFollowsAward ==
  \A p \in Pull :
    /\ request[p] # NoRequest <=> reward[p] # "NONE"
    /\ reward[p] \in {"AWARDED", "CLAIMED", "PREPARING"} => pull[p].status = "RESERVED"
    /\ reward[p] \in {"SHIPPED", "DELIVERED"} => pull[p].status = "CONSUMED"
    /\ reward[p] = "CANCELLED" => pull[p].status = "CANCELLED"
    /\ delivery[p] = "READY" <=> reward[p] \in {"CLAIMED", "PREPARING"}
    /\ delivery[p] \in {"SHIPPED", "DELIVERED"} => delivery[p] = reward[p]
    /\ delivery[p] = "CANCELLED" => reward[p] = "CANCELLED"

(* An allowance is spent at most once per draw it allows, by its customer  *)
(* on its banner; cancelling an award gives no draw back.                  *)
AllowanceKept ==
  \A a \in Authorization :
    /\ Cardinality({p \in Pull : request[p].authorization = a}) <= authorization[a].maxPulls
    /\ \A p \in Pull : request[p].authorization = a =>
         /\ request[p].customer = authorization[a].customer
         /\ pull[p].banner = authorization[a].banner

(* A grant or a draw repeated after a lost answer awards once, whatever    *)
(* became of the first award in the meantime.                              *)
OneAwardPerRequest ==
  \A p, q \in Pull : p # q =>
    /\ pull[p].key # None => pull[p].key # pull[q].key
    /\ request[p] # NoRequest =>
         <<request[p].customer, request[p].key>> # <<request[q].customer, request[q].key>>

(* Customers and the queue do nothing to stock, pools and awards that      *)
(* module Gacha does not allow.                                            *)
DrawContract == GachaSpec
==============================================================================
