# kokono: a TLA+ verification of the shop

kokono is a shop for merchandise: a Next.js application over PostgreSQL with an
administration, a public storefront, a checkout paid through Stripe, and prize
draws (gacha). This directory models how the shop keeps its promises about
stock, money, accounts and records: TLA+ modules, the TLC configurations that
check them on small instances, and theorems that TLAPS proves for every
instance.

`PROJECT.json` lists the components, the runs, the source lines behind every
definition, the hazards of the code with the properties that watch them, the
findings and the theorems.

## The system

Almost every operation of `src/src/modules` is one PostgreSQL transaction that
first locks what it is about (the order row, the merchandise rows in the order
of their ids, an advisory lock) and reads afterwards. The models therefore take
**one transaction as one step**. Where a handler is several transactions, calls
a provider or computes a hash between them, it is split into one step per
transaction and per call; where a batch commits row by row, a row is a step;
where a page in the browser keeps what was loaded, the page is state.

| Component | State | Operations | What makes it correct | Modules |
|---|---|---|---|---|
| Stock ledger (`inventory/operations.ts`) | balance per item and location; append-only movements with a unique key | acquire, transfer, adjust, damage, sell under a key; reconcile | a key moves stock once; balances equal what the ledger says | Inventory |
| Reservations (`inventory/reservations.ts`, the guards of migration `20260909120000_customer_checkout`) | a row per holder, item and location: held until a time, confirmed, released, consumed | hold, confirm, release, consume | active rows never exceed the physical stock; a consumed row has its sale | Inventory |
| Form for one movement (`inventory/commands.ts`, `inventory-command-form.tsx`) | the typed command, its operation key, requests under way | open, type, submit, answer, lose the answer, start anew | what is shown as recorded is in the ledger, once | StockForms |
| Storage locations (`locations/service.ts`) | a tree of locations, open or closed, in transit, in a country | create, edit, move in the tree | no cycle; which locations may receive or fulfil | Places |
| Quotes and checkout (`commerce/service.ts`) | quotes with prices and an expiry; orders with lines | quote, requote, checkout, expire, cancel | one order per submission, at accepted prices, wholly reserved or not made | Commerce |
| Order administration (`commerce/service.ts`, `fulfillment/shipping.ts`) | order status, fulfilment request | prepare, ship, deliver, cancel | goods leave only for an order paid in time, whole | Commerce |
| Payments (`commerce/payments.ts`, `commerce/stripe.ts`) | payment attempt per order, processed event ids | start a payment, apply a verified event, refund, reconcile | books follow the money; no payment, refund or open session is lost | Commerce, Payments |
| Maintenance job (`scripts/commerce-maintenance.ts`) | none of its own | expire overdue orders, reconcile up to 100 attempts | abandoned work ends | Payments |
| Gacha (`gacha/service.ts`) | banner, immutable configuration versions, prize pools, awards | configure, pause, resume, release the pool, grant, award, finalise | an awarded unit is reserved; a grant or a draw counts once | Gacha |
| Customer gacha (`gacha/customer-service.ts`, `gacha/fulfillment.ts`) | allowances, request keys, rewards, claims | authorise, pull, claim, dispatch, cancel | a retried draw spends one allowance; a reward is shipped once | Rewards |
| Customer accounts (`customers/service.ts`) | customers, sessions, single-use links, addresses, rate windows | register, sign in and out, issue and redeem links, disable, purge | a link is redeemed once; a reset or a disabled account ends its sessions | Accounts |
| Purchases, shipments (`purchases/service.ts`, `shipments/service.ts`) | purchases and international shipments with lines and receipts | draft, edit, order, receive; ship and deliver through a transit location | a receipt moves stock once; goods of a shipment leave and arrive together | Supply, Consignment |
| Landed costs (`landed-costs/`) | settings, recorded costs, calculations by version | preview, finalise, revise | a unit is charged once; shares add up to the cost | LandedCosts |
| Catalogue, lineups, publication, watchlist | items, listings, addresses, images, watches | edit, publish, withdraw, delete | what an edit replaces is what its author saw | Catalogue |
| CSV and bulk management (`catalog-csv/`, `bulk-management/`) | signed reviews, dialogs | review, execute row by row, retry | a row acts on what was reviewed; stock moves as shown | Catalogue, BulkStock |
| Pages for new items (`bulk-item-editor.tsx`, `assisted-importer.tsx`, `csv-import.tsx`) | rows in the browser, confirmations, requests under way | edit, check, confirm, save, import | possible duplicates are created only as confirmed | Entry |
| Lists (`catalog/queries.ts`, `watchlist/`, `catalog-filters.tsx`, `pagination.tsx`, the movements page) | what an address asks for, the page that is loaded statement by statement | filter, sort, turn the page, while staff change what is listed | a page is its part of the order, as the filters promise; following Next misses nothing that stayed | Browse |
| Pages of one record (`purchase-form.tsx`, `shipment-form.tsx`, `marketplace-candidate-form.tsx`, `watch-controls.tsx`) | the record, the page loaded from it | load, edit, save, convert an offer, quick actions | a save replaces only what its page had loaded | Paperwork |
| Mail, media, HTTP routes, staff accounts, odds for display, scripts | none the rest depends on | | | not modelled |

How they interact. Orders and prize pools hold stock through the same
reservation rows. Checkout reads publication (price, visibility) and the tree
(eligible locations). Dispatch writes sale movements into the ledger; receipts,
shipments, bulk reviews and the stock form write theirs, each under keys of its
own. Payment events come from webhook requests, from the answer to a refund
call and from the job; all three call `applyEvent`. Landed costs read the lines
of purchases and shipments. Forms and reviews of staff read rows that other
staff change before they are sent. Lists join items with their listing, watch
and stock, which five other components write.

What is hard. Holds lapse by the clock without a write. Staff, guests, three
sources of payment events, the job and the provider interleave between the
transactions of a handler. Notices are lost, repeated and reordered; processes
die between a call and the transaction that records it; the provider answers a
repeated call from a cache that may be stale or forgotten. Requests hash a
password or send a mail between reading an account and writing it. Batches
stop in the middle and are repeated while the first request is still at work.
Edits of the tree move whole subtrees in or out of a country. Pages stay open
while the records they show, or their own confirmations, change. A list is read
in several statements, and followed through several pages, each of which sees
the catalog of its own moment.

## The modules

    Inventory  <-  Commerce  <-  Payments        shop and payments
        |      <-  Gacha     <-  Rewards         prize draws
        |      <-  Places    <-  Supply          locations, purchases, shipments
        |      <-  BulkStock <-  StockForms      pages that move stock
    Consignment                                  what a shipment promises
    Desk       <-  LandedCosts, Catalogue, Paperwork       the back office
    Accounts                                     customers
    Entry                                        pages for new items
    Browse                                       lists and their pages

    MC_Commerce  MC_Payments  MC_Gacha  MC_Rewards  MC_Supply  MC_Accounts  MC_Office
                                                 instances for TLC
    InventoryProofs  ShopProofs  AllocationProofs  PaymentsProofs  RewardsProofs
    SupplyProofs  AccountsProofs  OfficeProofs   theorems for TLAPS

**Inventory.** `balance`, `movement` and `reservation` are the three tables.
`ApplyInventoryOperation` is `applyInventoryOperation` with its replay check,
the test of the destination's path, the overflow of the integer column, and the
test of the source against what is reserved there. Quantities are counted unit
by unit: a sum in SQL is the cardinality of a set of units. `Hold`, `Confirm`,
`Release` and `Consume` state what the database guards permit any module to do
to reservations; this is the **abstract specification of a holder of stock**.
`Sale(a)` is the movement under the operation key of an allocation.

**Commerce.** Extends Inventory; a holder is an order. One action per
transaction: `RequestQuote`, `Checkout` and `CheckoutRequoted`, `Expire`,
`CancelByGuest`, `CancelByStaff`, `Prepare`, `Ship`, `Deliver`,
`PrepareSession`, `SaveSession`, `RequestRefund`, `SaveRefund` and
`ApplyEvent`, whose seven branches (`EventContradicts` ... `EventPaidLate`) are
those of `applyEvent` in their order. `Share` is the allocation loop of
checkout over the locations in the order of their ids. Here the provider is
arbitrary: any verified event about an order with an attempt may be applied at
any time, also one that is foreign or carries another amount.
`StockContract` says that the detailed specification implements module
Inventory: the refinement mapping is the identity on its five variables.

**Payments.** Extends Commerce; replaces the arbitrary provider by one that
creates sessions and refunds under idempotency keys, settles refunds when it
decides, forgets keys and sends notices; and replaces the transactions of
payments by the handlers that perform them. `ensureSession` is the steps
`Start...` for guests and `JobStart`, `JobCreate`, `JobSave`, `JobClose` for
the job; `refundOrder` is `Refund...` and `JobRefund`, `JobRecord`,
`JobSettle`; `webhook` is `HookVerify` (verification, and the load of the
refund a notice names) and `HookApply`; `reconcile` is the `Job...` steps over
what it read before its turn. `Crash` ends any handler between two steps; it
also stands for a call that gets no answer.

**Gacha.** Extends Inventory with the prize draws. A `Unit` is the n-th row of
the pool of a prize (an item of one configuration version) and a holder of one
unit of stock; the other holders are orders, which compete with the pools
(`OrderStep`). `Configure` releases the pool of the current version and reserves
that of the new one, going through the locations in the order of their ids
(`PlacedAt`), or changes nothing. `Pause`, `Resume` and `ReleasePool` are
`control`; `Award` is `awardInTransaction` for whatever ticket came up, reached
by `Grant` and by `Draw` of a customer; `ConsumeAward` and `CancelAward` are
`finalizeAwardInTransaction`. Archived items (`offered`), closed locations
(`eligible`) and the clock change around them; the switch `GACHA_DRAWS_ENABLED`
is set when the program starts, hence a constant.

**Rewards.** Extends Gacha with the customers: `Authorize` gives an allowance,
`CustomerPull` is a `Draw` charged to the allowance that expires first, with its
reward; `ClaimReward`, `PrepareReward`, `ShipReward`, `DeliverReward` and
`CancelReward` are the reward queue; `HandOver` and `TakeBack` the older
`finalize`. `DrawContract` says that all of it implements module Gacha, whose
variables it shares.

**Places, Supply, Consignment.** Places extends Inventory with the tree of
locations: `EditPlace` is an edit under the advisory lock of the hierarchy, with
its cycle check; `Transit` and `CountryOf` are what `locationPaths` computes
from a location and its ancestors, and decide which locations may receive.
Supply adds purchases and shipments: `Receive` books the lines it names,
each under a key of its own, in one transaction; `ShipShipment` makes the
dedicated transit location and moves the goods into it, `DeliverShipment` moves
them on. `Surroundings` is what others do meanwhile: staff work on stock, the
clock, holders of stock, or an edit of the tree. **Consignment** is the abstract
specification of a shipment: goods leave together, exactly as packed, arrive
together, and make each leg once. `ConsignmentContract` shows that Supply
implements it through `INSTANCE Consignment WITH`, where the legs of a shipment
are **counted in the ledger** (`Carried`), and only its stage is read off its row
by way of `Stage`.

**BulkStock, StockForms.** The browser's half of two ways to move stock, with
the server's. A bulk review is executed row by row under keys made of its nonce
and the item; the dialog of a review stays after a lost answer and may be edited
and sent again while the first request is still at work. The form of a movement
keeps its key while its command is refused, edited and sent again; after a lost
answer the page is rebuilt under the key the server rendered. `ShownIsBooked` is
about what either shows its user.

**Entry.** The grid, the assisted import and the CSV import of new items, with
what each shows, asks to be confirmed, sends and forgets. A transaction that
creates rows is two steps: `CheckRows` or `CheckChosen` takes the lock of the
lineup and looks for duplicates, `SaveRows` or `ImportChosen` creates what
passed; `saving` is the transaction between them. It is READ COMMITTED and the
lock keeps out other items of that lineup only, while JANs, sources and images
are compared with every lineup and categories and sources change without the
lock: designs of which this is true are `Wide`, and `Elsewhere` and the rows of
a CSV file may add them in between (`MayEnter`). The page may be left, or an
import interrupted, while its transaction goes on. That a check looks at known
items, names and addresses in several queries is not told apart.

**Browse.** `catalog` is the items with what the lists join to them: listing,
watch, stock at two places, number of movements. `listing` is the page that is
loaded or shown, `walk` a history variable: the pages that were read one after
the other from the first. `Passes` is the WHERE clause, `SortKey` and `Precedes`
the ORDER BY with its tie-break on the id; `RowNumbers` are the numberings SQL
may give the rows, of which there is one because of the tie-break (without it
the mutant `PrecedesInSort` shows what happens). A load is one step per
statement: `ReadRows` takes the rows of the page with their total, `ReadTotal`
and `ReadAgain` are the second pass for a page beyond the last, `ReadCards` and
`ReadStock` what the cards tell, `ReadCount` and `ReadHistory` the page of
movements, which is counted first. Between any two of them `ChangeCatalog` may
save, archive, delete, restore, publish or watch an item or move a unit.
`OpenAddress`, `SubmitFilters` and `Turn` are what the browser asks for.

**Accounts.** Requests of browsers are tasks that read an account, compute
outside any transaction and write under the lock of the customer row; links are
made, mailed, redeemed; staff disable, the clock expires, processes die.

**LandedCosts, Catalogue, Paperwork** extend **Desk**, the clerks. Landed costs:
`ConvertMinor` at a rational rate and allocation with remainders
(`AllocateMinor`, `UnitSlice`); `Total` is a sum, counted unit by unit; preview, and finalisation in two steps between
which its locks keep others out. Catalogue: forms and signed reviews with the
times of update they were made from, executed row by row. Paperwork: one record
of four kinds and the page in front of it.

Definitions whose comment says *Mutant of X* are not part of the model. Each is
a mistake that could be made in the code behind X, kept to show that a property
notices it; `PROJECT.json` says which property each of them breaks.

## The runs

Every run is exhaustive for its bounds. `CHECK_DEADLOCK FALSE` is set because
every model really may stop: clocks and ids are bounded, orders may all be
closed, staff may all go home.

| Run | What it asks | Bounds, and why they suffice |
|---|---|---|
| `shop_stock` | Two orders compete for stock spread over two locations while stock moves and locations close. | Lines of up to two units with one unit per location, so that an order needs both locations; two keys to bring the units in or take them away; one event; one tick, enough for a hold to lapse. |
| `shop` | Repeated submissions of quotes while prices change, and any two events on the order between the steps of guests and staff. | Two keys, two quotes, two prices: the smallest in which a quote is spent twice, a key reused, a price changed between quote and checkout; two events with amounts below and at the total, so that a partial refund can precede its payment. |
| `payments` | Starting, settling and refunding one payment, with dispatch and a partial refund made at the provider. | One guest request and the job race for one session, one webhook request, one refund id, one death of any handler. |
| `payments_fair` | What must eventually happen, and that goods and money do not both leave. | No notice is ever delivered; one tick; two refund ids, so that the provider can forget a refund that was made; one death. |
| `gacha` | Pools, awards and an order compete for stock while versions replace each other. | Two prizes of one unit each, so that one runs out while the other has stock; two versions, two awards, a grant key that is submitted again; one order that may hold a unit until the first tick, with which the schedule of the banner ends as well. |
| `rewards` | Draws of customers and of staff, allowances, rewards. | One prize of up to two units at two locations with one unit each, so that an allocation needs both; two customers, of whom one has an allowance of up to two draws; two request keys and a grant key. One version, as `gacha` has the changes of version; no tick, so that no allowance lapses (no property is about it); one allowance, so that which of several is charged first is not told apart. |
| `supply` | Each behaviour is one of five: a purchase and a shipment beside an edit of the tree or other stock work; a bulk review; a form for one movement; a page for new items; lists that are paged through while the catalog changes. | Four locations (Japan, a transit group below it, France, the location of the shipment), a purchase of two lines, two items to ship, one piece of work of others: a line can be received alone, a leg can fail for one item, the tree can change under either. Two moves in the tree at once are left to `PlacesAcyclic`. Two submissions of a review (transfers name two pairs of locations, adjustments one) and two commands of a form under way, so that an abandoned request and its retry overlap; four keys of the form, one for each way it takes a new one (one command under way once a third is drawn). Two designs, of which one is `Wide`, two rows, two candidates: a row can match another or the catalogue, and either kind of item can appear while rows wait to be created; one row of the grid at a time waits for a character or an image, none while the rows are saved. The grid, which does not look at imports, is opened before any import and stays as it is from a check to the end of its transaction; no page is opened beside an import that was interrupted. `DuplicatesConfirmed` has none of these limits. For the lists, three items (two that sort alike, one without stock) on pages of two, so that there is a second page and a tie across it; two changes, the second while a list is being paged through, so that a row can leave before one page and another enter before the next; an address may ask for a page that does not exist; two lineups of which a filter offers one; five views, with each list and each kind of filter among them: `PagesExact` and `WalkMissesNone` are for any views, catalogs and sizes. |
| `accounts` | Registration, sign-in, links, addresses, disabling, expiry, lost mail, deaths. | Two browsers with a request each, two sessions, two links: a link is redeemed twice or beside another of its purpose, a sign-in overlaps a reset. The cases `AttemptsBounded` tells apart need one counted kind of request, the others are not limited. |
| `office` | Each behaviour is one of three: two clerks and the costs of two shipments; two clerks and the catalogue; two clerks and one record with its pages. | Two purchase lines of which a shipment takes parts, so that ranges can overlap; three ids for three calculations. One stored item and two new ones, two texts, two addresses, three forms or rows. Two requests of the pages and one change made without them. Of three forms or changes, or requests and changes, the third comes while one clerk has a page open: with two, one of them can make the other's page stale. |
| `refund_failure`, `refund_order`, `partial_review` | What `docs/customer-checkout.md` says and the code does not do; see *Findings*. | The smallest instances that show them. |

The behaviours inside `supply` and inside `office` share a run because their
modules share no state, or stock only (what is known of stock is part of a list's
own `catalog`); a variable `part` of the instance says
which one a behaviour is. In `supply`, beside a bulk review or a form nobody
else moves stock except what the instance starts from; the theorem
`ShownBooked` has no such limit (any step of the ledger may come in between).

Symmetry is used in runs of safety properties only. Locations are never
symmetric, because checkout goes through them in order. In `office` the words
of a record share the model values of the calculation ids, which never meet in
one behaviour. In `supply`, the items are symmetric, and the rows of the
grid and the candidates share theirs; designs are not symmetric, as one of them
is `Wide`. A record of `office`
starts with one of two goods and origins, because the others only differ in
name.

### What the properties say

Stock. `StockBacked`: no unit is promised twice. `LedgerReconciles`: what
`reconcileInventory` compares is equal in every state.

Orders. `PaidIsAllocated`, `OpenIsHeld`: a paid or open order keeps its whole
allocation. `ClosedHoldsNothing`: a closed one keeps none. `GoodsLeavePaid`:
goods leave once, whole, for an order confirmed in time. `FulfillmentFollows`:
nothing waits to be packed for a closed order. `OneOrderPerSubmission`: one
order per submission.
`StockContract`: refinement of Inventory.

Payments. `BooksFollowMoney`: confirmed only if paid at the provider, written
off only if it can no longer be, and nobody can pay a session the shop does not
know. `RefundedIsNotShippable`: goods and money do not both
leave. `RefundedIsCovered`: overlapping reports of refunds are not added up.

Draws. `AwardKeepsUnit`: an award has one unit of its prize, in the state of the
award, whatever is reconfigured or released. `PoolIsCurrent`: reserved prize
stock always belongs to the version its banner has now, so it is never lost.
`WholeAllocation`: a version is published with its whole pool. `OddsAreReal`: an
award is drawn from the version its requester reviewed, while every prize of it
has stock.

Rewards. `AllowanceKept`, `OneAwardPerRequest`: an allowance and a key are spent
once. `RewardFollowsAward`: reward, award and delivery agree, whoever finalises.
`DrawContract`: refinement of Gacha.

Supply. `TreeIsAcyclic`: no edit closes a cycle. `ReceiptsAreBooked`: a line is
received exactly when its one movement is in the ledger. `ConsignmentContract`:
refinement of Consignment. `ShownIsBooked`: what a dialog or form shows as done
is in the ledger as shown, once.

New items. `DuplicatesAreConfirmed`: what looks like the catalogue or like
another row passes the check only as the administrator confirmed it, and what is
created is what passed. By then it may look like one more item only if the lock
of the lineup did not keep that item out: the property says `Wide`, and not that
this is confirmed.

Lists. `PageIsExact`: a page that was read while nothing changed is the page
asked for, or the last one: the right total, exactly its part of the order, each
card described as the filters promise, and a form that keeps the lineup it
filters by. `WalkSeesEach`: who follows Next to the end misses nothing that was
there at the start unless a row left or was sorted elsewhere, and meets nothing
twice unless one was added or sorted elsewhere.

Accounts. `SessionsAreCurrent`: nobody is signed in under a password that was
replaced since, or while disabled. `LinksAreCurrent`: a reset link that works is
for the password as it is, and every reset has used up a link (links sent
earlier stay usable until then). `ReturnIsFresh`:
while an account is disabled nothing under way gets through, and when it is
enabled again it has neither a session nor a link. `AttemptsBounded`: no span as
long as a window lets more than two windows of attempts pass, which is what
fixed windows can promise.

Back office. `UnitsChargedOnce`: a purchased unit is charged by one row of one
shipment. `ChargesAddUp`: no minor unit is lost or made by rounding, neither in
the shares of a cost nor in the prices and fees charged over several shipments.
`ReviewStillHolds`: when a form or review is carried out, the rows it compares
are as its author was shown, and a list of sources is saved only while every
source that was shown is still there. It does not say that nothing unseen is
overwritten: see below for characters and sources. `ImportIsWhole`: a commit makes all the items of its review or none,
once. `SavesFollowThePage`: a save replaces only what its page had loaded, and
an offer is bought once.

Progress. `AbandonedIsClosed`, `PaymentIsNoticed`, `ClosedSessionCloses`,
`RefundIsMade`.

Some facts are theorems only, as the proof says more than a run could:
`OneMovementPerKey`, `ConsumedIsSold` and `HistoryKept` of the ledger,
`OpenOrdersBounded`, `AcceptedTerms`, `RefundKept` and `ClosedIsFinal` (no event
revives a closed order) of orders,
`CostsInForce` of landed costs, `PublicAddressKept` of the catalogue.

### Fairness

`FairPayments` assumes that time passes; that the maintenance job runs again
and again with one job at a time (`docs/customer-checkout.md`), expires overdue
orders and takes every candidate in turn (`updatedAt` ascending, hence strong
fairness of `JobTake` per order); that a pending refund settles; and, for the
kinds of notices a configuration delivers, that the provider sends a notice
until it is answered. Nothing is assumed of guests, of staff, of the expiry of
sessions at the provider, or of a handler started by a request: any of them may
stop for ever. The job may die at any step, as often as `MaxCrashes` allows.
Everything else is safety and assumes no fairness.

### Findings

* `refund_failure` (`RefundFailureReviewed`). After a refund has failed and the order is under review, a
  second request records the provider's cached answer, the failed refund, and
  leaves the order in `REFUND_PENDING`; the failure has already been processed
  under the same event id, so nobody is told. The document says that a refund
  failure requires review.
* `refund_order` (`RefundedIsReturned`). `verify` loads the refund before the order is locked. Two
  webhook requests can apply what they loaded in the other order; the order
  stays `REFUNDED` with nothing returned.
* `partial_review` (`PartialRefundStaysInReview`). A partial refund processed before its paid event puts the
  order under review; the paid event then confirms the order and clears the
  review, which the document says later paid events do not do.

## The proofs

TLAPS checks every theorem from the assumptions that the modules name, which TLC
evaluates in the runs of those modules. Nothing else is said of the constants:
there may be any number of items, locations, orders, guests, keys, events,
customers, shipments, rows, clerks, items in a list or pages. Every safety
property a passing run checks is a theorem.

* `InventoryAssumption`, `CommerceAssumption`: items, locations and holders are
  finite sets, locations are numbers (for the order of their ids), an operation
  key is not an allocation, `None` is apart, and the bounds are at least one.
* `PaymentsAssumption`: the ids under which facts are stored are event ids, the
  amounts up to the total are amounts, and `None` is no order.
* `GachaAssumption`, `RewardsAssumption`: the rows of pools are holders, `None`
  is no id.
* `PlacesAssumption`, `SupplyAssumption`: the tree to start with has no cycle
  and knows the parents it names; the keys of receipts and legs are keys, apart
  from those of staff; each shipment has a box of its own, not made yet.
* `BulkAssumption`, `FormAssumption`: the keys of reviews and of forms are keys;
  a transfer is not from a place to itself.
* `AccountsAssumption`, `CatalogueAssumption`, `CostsAssumption`,
  `DeskAssumption`, `PaperAssumption`: types of the constants, and that `None`
  is none of them; what a clerk may choose has finitely many rows.
* `BrowseAssumption`: items and lineups are finite sets of numbers (for the order
  of their ids and names), a page has at least one row, and views and first
  catalogs are of their types.

**Stock** (`InventoryProofs`). `InventoryTypes`, `StockBacksReservations`,
`KeysMoveOnce`, `SalesMatchConsumption`, `LedgerAgrees`, `HistoryIsKept`.
`TypeInv` adds to the types that an active row has at least one unit: the sale
of a row moves its quantity, and a movement of nothing is refused. That
reservations are backed is inductive with it; what is reserved is a cardinality
of units, so the lemmas say what a new, a longer, an ended or an expired row
does to that set. For the ledger the set of movements is finite and every change
of a balance is one movement more, in or out.

**The shop** (`ShopProofs`, `AllocationProofs`). The argument has four layers:

1. `RecordOK` says which payment status, refund and delivery request go with
   each status of an order, and `Moves` what one step may do to an order.
   Every action moves every order that way. `ClosedStaysClosed`,
   `RefundIsKept`, `FulfillmentAgrees`, `OpenOrdersLimited`, `SubmittedOnce`
   and `TermsAreAccepted` follow; for the last two, only a checkout makes an
   order (`StepBirth`).
2. `RowsInv` adds which reservation rows an order of each status may have
   (`RowOK`): none before it exists, held ones that expire with the order while
   it is open, confirmed ones once it is bought, no active ones when it is
   closed, consumed ones when it has left. `AttemptsFollow` is needed because
   an event is about an attempt, and nothing may be confirmed or released for
   an order that does not exist. `ClosedOrdersHoldNothing` follows.
3. `ShopInv` adds `StockInv` of module Inventory. With both, every transaction
   is a step of `InventoryNext` or leaves stock alone: a row is confirmed only
   while it is active because it expires with its order. This is
   `ShopImplementsInventory`; the theorems of Inventory hold of the shop.
4. `AllocInv` says that open, paid and dispatched orders have their whole
   quantity in rows. The base of it is the allocation loop: what `Share` takes
   from the locations in the order of their ids adds up to the line whenever
   the free units suffice. It is proved without induction over the locations: a
   unit of the line that no location serves would leave a least location at
   which the need exceeds what was free before it. A payment in time finds every
   row active and keeps it so. `OpenOrdersAreHeld`, `PaidOrdersAreAllocated` and
   `OnlyPaidGoodsLeave` follow.

**Payments** (`PaymentsProofs`). `PaymentsImplementShop`: every step of a handler
or of the provider is a transaction of module Commerce or leaves its variables
alone, so that all theorems of the shop hold with crashes, retries and notices
in the model. The inductive invariant is `PaymentsInv`, which is `AllocInv` with
`ProviderInv` (what the provider has is consistent), `BooksInv` (the properties,
with what the shop knows and asked for) and `HandlersInv`: **every fact under
way is true and lasting**. A notice, a loaded refund, the answer a handler
holds or the cached answer of the provider may be old, but what it states
(`FactOK`) was settled at the provider and stays so (`SessionsOnward`,
`RefundsOnward`), so it does not matter in which order facts are applied.
`BooksFollowProvider`, `RefundsCovered` and `RefundedNotShipped` follow, and `PaidGoodsLeaveOnly` from the refinement.

**Draws** (`RewardsProofs`). `GachaInv` is `GachaTypeOK`, `RowsReserve` and
`PoolInv`: the rows of a pool are one unit each (`PoolRows`), each unit is at one
place (`OnePlace`), versions follow one another (`VersionsLead`), what is held
is of the version its banner leads with (`PoolLed`), an award has its unit
(`AwardsHold`) and an allocation was placed whole (`AllPlaced`). The last rests
on the loop over the locations, by the least-number argument used for orders. A
configuration releases one pool and reserves another in one step, which is not a
step of Inventory: stock is shown to be backed after it by counting
(`PrizesAreBacked`, `PrizesReconcile`). `AwardsKeepUnits`, `PoolsAreCurrent`,
`AllocationsAreWhole` and `OddsHold` follow. `RewardsImplementDraws` is the
refinement `DrawContract`; so the theorems on draws hold of Rewards. `RewardsInv`
says what a reward in each state goes with (`Follows`), that a key has one award,
and that the draws charged to an allowance are counted once (`ChargesKept`,
`UsesKept`): `RewardsFollowAwards`, `RequestsAwardOnce`, `AllowancesAreKept`.

**Supply** (`SupplyProofs`). `SupplyInv` has these parts, none inductive alone:

* `StoreInv`: the ledger and what it backs. A receipt of several lines and a
  leg of several items are several movements in one transaction; `Batch` says
  when a set of operations may be booked at once, and the lemmas about it that
  doing so keeps stock backed and the ledger balanced.
* `Forest`: parents exist and no set of locations is closed under parents.
  A move under a new parent could close a cycle only through that parent, and
  what is above the parent would then be closed before the move, which the check
  of the code excludes (`PlacesAcyclic`). The nearest ancestor with a country
  exists by the same property, without induction on the depth.
* `receiving = Open(tree)`: what the ledger takes for open destinations is what
  the tree says, also below a location that was edited.
* `Expected`: which statuses and lines a purchase or shipment may have, and
  `ReceiptsAreBooked`, `LegsBooked`: which keys the ledger has for them.

`ReceiptsBooked`, `SupplyIsBacked`, `SupplyReconciles` follow, and
`ConsignmentKept`: Supply implements Consignment. `LedgerCarries` turns what is
counted in the ledger for a leg into the cargo of the row, and each step into
packing, sending, arriving, giving up or a stutter.

`ShownBooked` is about the pages that move stock, under `PagesSpec`: **any** step
of Inventory may come between two steps of the pages. `PagesInv` joins the
ledger (`RecordInv`), what is true of dialogs, of requests under way and of
answers on their way (`ReviewsInv`) and of forms and their posts (`FormsInv`).
That a key moves once does the rest: an answer is true of the ledger for ever,
so a row shown as done by an abandoned request is what the retry finds.

`DuplicatesConfirmed`: `PageFine` says of the grid that what is sent as confirmed
is what was confirmed, of the import that what was validated is what is chosen,
of a CSV file that what was found is asked for only if it was decided on.
`SavingFine` is what the lock gives: between the check and the creation, rows look
like what the check found or like something `Wide`, since nothing else could
enter (`LockHolds`, `LockTaken`).

`PagesExact` and `WalkMissesNone` are about the lists. The lemmas under both say
of an order without ties on a finite set that the rows can be numbered in one way
only, so that the number of a row is how many come before it, and that pages cut
these numbers into runs of `PageSize`. `StepsFit` says what is known after each
statement of a load; with it, while nothing was written, what was read is what
the catalog has (`ReadSoFar`), and `PageIsExact` follows. For the walk the
difficulty is that the catalog changes between pages and no two pages see the
same order. `WalkInv` relates what was seen to the catalog **as it is now**: while
no row left or changed its place in the order, a row of the start that was not
seen has at least as many rows before it as the pages read have places, so it is
on a page to come; while no row was added or changed its place, a row that was
seen has fewer before it, so it is on none. A row that is added pushes seen rows
onto the next page, one that leaves pulls unseen rows onto a page that was read;
the halves do not depend on each other, which is why the property has two.

**Accounts** (`AccountsProofs`). `AccountsInv`: every session and link is of the
password and status its account has now (`SessionIsGood`, `LinkIsGood`), every
request under way holds at most what was true when it read (`RequestIsGood`), and
each reset has used up a link (`ResetsUseLinks`). `SessionsCurrent`,
`LinksCurrent` and the action property `FreshReturn` follow. `WindowsInv`, for
`AttemptsCounted`, says that the attempts since a window began are those it
counts and that any span meets at most two windows.

**Back office** (`OfficeProofs`). `CostsInv`: stored calculations, those under way
and the locks that separate them charge disjoint ranges (`ChargedOnce`);
`StoredInForce` is the action property `CostsInForce`.

`NothingLostOrMade` is `ChargesAddUp`. `Total` counts a set of units, so sums are
cardinalities, and what is needed of them (`CountMore`, `CountPlus`,
`CountScaled`, `CountDisjoint`) holds of every finite set of rows by one lemma
(`Growing`): a family of subsets that has the empty set and with each member the
members with one more element has the whole set. It replaces an induction: a
smallest subset outside of the family would have a smaller one outside. For
the shares of a cost (`AllocateAddsUp`) the rows are in a strict order, so
exactly as many rows come first as minor units are left over (`Ranked`). For
prices and fees (`SlicesCover`), the ranges charged by different rows are apart
(`CostsInv`) and together have as many units as there are, so they are all the
units, and the units that bear one more minor unit are counted once. For the
fees the ranges of all lines of a purchase lie one after another
(`LinesInOrder`).

`CatalogueInv` is `CatalogueTypeOK`, `FormsPoint` (forms and reviews
name existing rows), `SeenIsCurrent` (what is seen with the time of update a row
still has is what the row has), `SourcesRemain` (the sources seen with it are
still there, because removing one moves the time and adding one does not) and
`GoneIsEmpty`; `ReviewsHold`, `ImportsAreWhole`
and `AddressesKept` follow. `PaperInv`: pages and requests that carry the record's
own stamp have its content, and only an offer that was purchased is bought;
`PagesFollowed` follows.

Only model-checked:

* everything that must eventually happen (`AbandonedIsClosed`,
  `PaymentIsNoticed`, `ClosedSessionCloses`, `RefundIsMade`): liveness under
  fairness is beyond the prover;
* the three findings, which are counterexamples.

Nothing in the modules is RECURSIVE.

## What is not modelled

In the modelled components: money is one total per order (all orders cost the
same; an event's amount is at, below or above it), VAT and shipping charges,
names and addresses, notes, tracking numbers, signatures and live-mode checks,
the notices of delayed payment methods (`checkout.session.async_payment_*`,
`stripe.ts:214`, `stripe.ts:221`), as cards are the only method offered
(`docs/customer-checkout.md:41`), the throttle of 60 quotes an hour, the purge of old quotes, the limit of 100
refunds the provider lists. The dashboard, the pages of one item, text search
and the HTTP layer change no state. In Browse a filter that compares a column is
like the one on the lineup, an order by a column like the one on the release.
Draws leave out the weights of prizes and the ticket (any prize with stock may
come up), the content of receipts, the hourly rate limits, and the e-mail
verification that makes an account valid; `simulate` changes nothing. Staff
authorisation is a refusal, so it is an operation that does not happen. Landed
costs have one rate and two of the seven costs. In Paperwork, between two loads
staff change one field, or for a shipment the origin and then the goods; stock at
origins is constant; statuses after a draft are one. The number of commands of
a stock form under way is bounded, and the reviews of a batch do not expire.

Locks are not modelled as such, but for the lineup's in Entry: a transaction is a
step because of them. The
order in which they are taken is a hazard without a property (`authorize` takes
a banner before a customer row, `pull` the other way round; PostgreSQL ends such
a cycle by failing one of the two).

The job takes the 100 attempts that were updated longest ago (`payments.ts:418`)
and does not touch those that fail; a hundred that fail for ever would keep it
from the others. The model gives every candidate its turn.

### What the models showed and what they leave to a reader of the code

These were seen while modelling. They are behaviour of the code that no document
contradicts, or they lie outside the properties; the models follow the code.

* An operation key of the stock form is drawn in the browser for every operation
  after the first. After "Start new operation" and a lost answer the page is
  rebuilt under the key the server rendered: the retry is a new operation.
  `ShownIsBooked` holds, as the page shows nothing as done.
* The key of a staff grant is a property of the page and changes when the page is
  revalidated, so a grant whose answer was lost can be granted again.
* Saving the grid for new items is not idempotent: after a lost answer the same
  rows can be saved again, as confirmed duplicates. What is confirmed is "there
  are duplicates", not which ones: others found meanwhile pass as well.
* The tick of the import stays when one review with duplicates replaces another.
  A CSV import does not look again for duplicates that appear after its preview.
* Two saves of one JAN in two lineups can both be created without a confirmation,
  although `docs/admin-lineups.md:42` says that an exact match anywhere in the
  catalog blocks saving until it is confirmed. Each transaction locks its own
  lineup (`bulk-entry.ts:37`, `assisted-import/service.ts:380`) and reads what is
  committed, but JANs, sources and images are compared over all lineups
  (`duplicates.ts:100`, `assisted-import/service.ts:151`), so an item saved
  between the check and the creation is not seen. No index keeps JANs unique.
* `saveItem` replaces the characters of an item (`catalog/service.ts:484`) and
  `saveItemSources` removes the sources that are not on its list
  (`lineups/service.ts:212`). Both compare the item's time of update only, which
  does not move when a source is added or a CSV row sets characters: what was
  added unseen is overwritten. In the model this happens as well;
  `ReviewStillHolds` leaves it out, but says that no source that was shown and
  removed since comes back.
* Edits typed while a save is under way are lost with the redirection.
* Pages that refresh beside a form (offers, franchise lists) hand it a new time of
  update while fields typed before remain; `SavesFollowThePage` is about fields
  that the page loads.
* The statements of a list are READ COMMITTED: when the first pass finds a page
  beyond the last, the count finds rows and the second pass none again, the page
  is empty although rows match. `PageIsExact` is about pages that were read while
  nothing changed.
* A page of movements is counted before its rows are read. A movement recorded
  between the two pushes the oldest off the last page, which then offers no Next;
  `WalkSeesEach` says so (`torn`).
* A filter form keeps the lineup and the character it filters by when its options
  are cut off (`catalog/queries.ts:508`: the option applied must never be
  dropped). Franchises, categories, locations and manufacturers are cut at 500
  and years at 200 without that; the model has the lineup.
* Times of update have the resolution of a millisecond; in the models no two
  writes share one.
* `setImageApproval` checks without a lock what it then writes; Catalogue has it
  in two steps.

Component by component, `PROJECT.json` says what is left out and why.

## What is left to do

1. Type theorems for Entry, and for BulkStock and StockForms from `PagesInv`.
2. An abstract `Selling` specification (an order is open, bought, delivered,
   returned) implemented by Payments.
3. A model of the order in which transactions take their row and advisory locks.
4. Tickets and the odds shown for them, as operators over bounded weights.
