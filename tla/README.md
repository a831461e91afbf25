# GreenCity in TLA+

GreenCity is a NestJS API on PostgreSQL (through Prisma) with a Next.js front end. Sellers
offer scrap, administrators quote a price, accepted offers become listings, and buyers with a
pass reserve them; a completed sale and a verified cleanup report earn points; passes are
bought through payOS or granted. Several API instances may run: the database is the only shared
state, and almost every rule of the program is a conditional `UPDATE` whose row count decides
what happens next. The first half of these modules is about that: they say, statement by
statement, what the calls do to the rows, let calls of all kinds interleave and fail between
any two statements, and check and prove that the rows always tell one story. The second half
puts the browser's pages on top: a page keeps a copy of what the server once said, sends calls
it may not hear from again, and must still show its user something true.

All paths below are relative to the repository's root; `api/` stands for `apps/api/src/`.

## 1. Inventory

| Component | State | Operations | Interacts with |
|---|---|---|---|
| Scrap requests and quotes, `api/marketplace/scrap-request.service.ts` | ScrapRequest, Quote rows | submit, accept, reject, adminQuote (mine, adminList read) | accept creates a listing; audit |
| Listings and reservations, `api/marketplace/listing.service.ts` | MarketplaceListing, Reservation rows | reserve, adminSchedule, adminComplete, adminCancel (list, getPhoto, getReservation read) | asks for eligibility, awards points, audit |
| Points, `api/points/points.service.ts` | PointEntry ledger | awardListingCompleted, awardCleanupVerified (getBalance reads) | runs in the caller's transaction |
| Passes, `api/marketplace/subscription.service.ts` | Subscription windows | grantByAdmin (me, isEligible read) | read by reserve, written by the webhook |
| Checkout, `api/payment/` | SubscriptionPayment row, payOS payment link | startCheckout, webhook (getPaymentStatus reads) | payOS over HTTP, Passes |
| Cleanup, `api/cleanup/cleanup.service.ts` | CleanupReport rows | submit, adminVerify, adminReject | awards points, audit |
| Sign-in, `api/auth/` | User, Session, GoogleOAuthAttempt rows | register, login, logout, logoutAll, Google start and callback | every guarded call resolves a session |
| Media, `api/media/`, `api/storage/` | stored object, MediaAsset row | upload, getAuthorized | requests and reports name an asset |
| Geocoding, `api/location/geocoding.service.ts` | one promise chain and a timestamp | schedule | public geocoder |
| Pagination, `api/common/pagination.ts` | none (a cursor) | encode, decode, keyset | every list call |
| Audit, `api/audit/audit.service.ts` | AuditLog rows | record | called after a commit, errors swallowed |
| Buyer pass panel, `apps/web/src/components/buyer-pass-panel.tsx` | checkout key and payment id in browser storage, poll, subscription load | checkout, poll, recheck, retry | Checkout, Passes |
| Sign-in pages, `apps/web/src/components/auth-provider.tsx` | the user a tab shows | fetchMe, login, register, logout, expiry | Sign-in |
| Contribution pages, `sell-scrap-view.tsx`, `cleanup-report-view.tsx` | a form with a photo, one's own list and its cursor | upload, submit, load, load more | Media, Quotes, Cleanup, Pagination |
| Quote pages, `sell-scrap-view.tsx`, `admin-quote-queue.tsx` | the quote that is shown, the queue of an administrator | accept, reject, quote | Quotes |
| Listing pages, `marketplace-listings.tsx`, `account-dashboard.tsx`, `admin-reservation-queue.tsx` | a buyer's market, order list and order, an administrator's queue, their pages | reserve, view, schedule, complete, cancel, load more | Reservations, Passes |
| Grant page, `admin-pass-grant.tsx` | a form and its pending call | grant | Passes |
| Location of a report, `location-picker.tsx` in `cleanup-report-view.tsx` | pin, device position, lookups, address fields | locate, drop a pin, edit, submit | Geocoding |

What makes each correct, and where it is hard:

- Quotes: at most one pending quote; one decision; the listing carries the quote that was
  accepted. Hard because a decision locks the request first and an administrator's quote locks
  the old quote first, and because a quote may be superseded while it is being decided.
- Reservations: a listing is held by one reservation at a time, and only that reservation
  releases or completes it. Hard because a cancelled listing is booked again, so a late call
  may be about an old reservation, and because the guard on the reservation is a subquery that
  PostgreSQL does not evaluate again after waiting for a lock.
- Points: one award for one sale, worth what the sale was settled for.
- Passes: paid windows extend each other; a paid order is activated once. Hard because webhooks
  repeat and race, and a grant is checked and created in two statements.
- Checkout: one order for one key; an order the provider took is never lost. Hard because a
  create call may time out with the link made, and a retry may run beside it.
- Cleanup: one outcome, points only for a verified report.
- Sign-in: an attempt is used once; no session outlives a sign-out everywhere that came later.
- Media: no row without its object.
- Geocoding: calls are spaced, a failure does not stall the chain.
- Pagination: no row that was there whenever a page was read is skipped or repeated.
- Buyer pass panel: one payment page for one wish to pay, over reloads, other visits and lost
  answers; a payment that was shown is not forgotten before it is known to be paid.
- Listing pages: an error on a card means that nothing was reserved; rows leave a list once.
- Location of a report: the address that was looked up is that of the place reported.
- Other pages: what they show and confirm is what the server does. Hard because answers of
  requests overtake each other and nothing in a request names what its user was looking at.

`PROJECT.json` lists the hazards line by line, with the properties that cover them.

## 2. Plan

| | Modules | Composes | Abstract specification | Status |
|---|---|---|---|---|
| 1 | `Quoting` | | `QuoteBook` | done, proved |
| 2 | `Reservations` | | `Market` | done, proved |
| 3 | `Passes` | | `PassLedger` | done, proved |
| 4 | `Checkout` | Passes' webhook in one step, payOS | `Sale` | done, proved |
| 5 | `BuyerPassPanel` | one tab on `Checkout` | | done, proved |
| 6 | `Sessions` | password and Google sign-in, two cookies | | done, proved |
| 7 | `AuthProvider` | one tab on `Sessions` | | done, proved |
| 8 | `MediaUpload` | object store and database | | done, proved with 9 |
| 9 | `Contributions` | requests and reports on `MediaUpload`, verdicts with points | `Evidence` | done, proved |
| 10 | `ContributionPage` | one tab on `Contributions`, with pagination | | done, proved |
| 11 | `QuotePages` | one seller's tab and the administrators' on `Quoting` | | done, proved |
| 12 | `Trade` | Quoting's accept puts the listing of Reservations on the market | | left: the one row they share is `List` of Reservations already |
| 13 | `Geocoding` | | | done, proved |
| 14 | `LocationForm` | one report's form on `Geocoding` | | done, its types and spacing proved |
| 15 | `ListingPages` | one buyer's tab and an administrator's on `Reservations` | | done, proved |
| 16 | `GrantPage` | one administrator's tab on `Passes` | | done, proved |

## 3. How the database is modelled

The calls run at READ COMMITTED, Prisma's and PostgreSQL's default, except where a module says
otherwise. Prisma's `updateMany` is one `UPDATE`, which PostgreSQL runs in two steps:

- *Find*: the WHERE clause selects rows in a snapshot taken as the statement starts;
- *Lock*: the row is locked, waiting for the transaction that has written it, and the WHERE
  clause is evaluated again on the newest version of that row. A row that no longer matches is
  skipped. A subquery on another table keeps its snapshot's answer.

A transaction's writes appear at its commit, so the row variables are the committed rows and a
call carries only its place (`stage`), the row its update selected and the rows it has locked.
A rollback needs no undo. `Fail` ends a transaction at any statement (lost connection,
Prisma's interactive transaction timeout, a stopped process). These definitions are mapped as
external, since PostgreSQL is not part of the repository; what it is asked to do is.

## 4. Modules

### Quoting

One scrap request per photo (`mediaAssetId` is unique), and a quote row is named after the call
that created it. `Submit` is submit; `BeginDecision` is findOwned, outside the transaction;
`FindRequest`, `LockRequest`, `FindQuote`, `LockQuote` are the two `updateMany` of accept,
reject and adminQuote in the order each has them; `Accept`, `Reject` and `Publish` are the
last statement and the commit; `Audit` writes some of the entries that follow the commit,
because `AuditService.record` swallows its errors. `Publish` waits for a call that is changing
a clashing pending quote, as an insert under the partial unique index does. `DeadlockVictim`
is the database aborting one of two calls that wait for each other. (`Submit` is one step here;
its two statements and the photo are in `Contributions`.)

`QuoteBook` is what the quotes promise: an offer may replace an offer while nothing is decided,
and one decision about the offer that stands ends the book. `Quoting` implements it, the offer
being the PENDING quote.

### Reservations

A reservation is named after the call that made it. `List` is the insert at the end of accept.
`BeginReserve` is the eligibility query and the ownership check (their answer is a free
choice); `BeginFinish` and `BeginSchedule` start adminComplete, adminCancel and
adminSchedule; Find and Lock are as above, and `FindListing` alone evaluates the relation guard
on the listing's reservations; `Reserve`, `Complete`, `Cancel` and `Schedule` are the last
statements and the commit. The audit entry is inside the transaction for the last three and
behind it for reserve. `Points` is the award's rule.

`Market` is what the listings promise: a reservation takes a free listing; its holder alone
gives it back or completes it, and then the points are worth the settlement. `Reservations`
implements it, the holder being the RESERVED or COMPLETED reservation.

### Passes

The webhook runs at SERIALIZABLE and so differs from the rest. `Read` takes the snapshot (the
passes there are, and whether the order is PENDING) and answers a mismatch or a duplicate.
`Claim` is the first UPDATE: it waits for the row and for the bank reference in the unique
index, answers a reference that is recorded already (P2002), and fails with P2034 when the
order's row was written after the snapshot. `Window` is `now`, which is taken after that wait
and may be later than the snapshot. `Activate` commits the paid order and its pass, `Record` the
code of an order that is not paid; in both the answer may be lost, which payOS takes for a
fault. `Crossed` is PostgreSQL's check: another webhook has committed a pass of the same user
that this one has not read, although both looked for the latest, so neither could have been
first; `CommitConflict` also lets the check fail for passes of other users, as its page locks
may. `Conflict` is `executeWithRetry`: a new run, or an error after the last one. `Redeliver` is
payOS, which asks for a 2XX (`payment-webhook.controller.ts:60-63`).

`BeginGrant`, `Create` and `Audit` are the three statements of grantByAdmin, without a
transaction: a grant is not part of any serializable conflict, since PostgreSQL checks
serializable transactions only against each other. `Place` and `Touch` are what startCheckout
writes to an order, without the values, because for a webhook it matters only that the row is
newer than its snapshot.

What is abstracted: a notification says "paid", another code, or does not match the order (its
amount or its link); an order has one link; time is in days. The FAILED status is left to
Checkout: it is written to orders that payOS refused, for which it sends nothing, and the model
delivers nothing for them.

`PassLedger` is what a buyer is promised for money: each paid order adds one full pass that
starts when all bought before have run out. `Passes` implements it, the entry of an order being
the start of the pass that its delivery made. Grants are not in the ledger.

### Checkout

The order of an idempotency key is named after the key. `Find`, `Insert`, `Recover`, `Claim`,
`Send`, `Save` and `Refuse` are the statements and requests of startCheckout in their order;
`Recover` is also the check of a rejected retry, and `fresh` tells the call that inserted the
order from its retries, as the code's two branches do. A request to payOS is `flying` from
`Send` on, whether its call still waits or not: `Arrive` is payOS, which makes one link for an
order code or refuses, `Lose` a request that never arrives. `Fail` is a timeout, an answer that
cannot be trusted, or a fault of the server. `Find` and `Recover` let a new call meet an order
anybody is or was creating. `Notify` is the webhook in one step; `Passes` says how it comes
about. `Refuse` writes FAILED whatever the row has become, as `payment.service.ts:179-182`.

The clock counts half minutes. A call works on an order at most `MaxLife` after it inserted or
leased it (`Tick` waits for it; the request has a timeout of 20 seconds), and payOS finds an
order at most `Lag` after it accepted it. `TimeAssumption` says that the lease of a minute is
longer than a call's life, and no shorter than both together: the code relies on it and nothing enforces it. Without it a first
call that stalls beyond the lease can write FAILED over an order that a retry was given a link
for.

`Sale` is what a key promises: an order is open, offered, charged, settled; or it is refused,
which happens only while nobody can pay it. `Checkout` implements it (`ImplementsSale`).

### BuyerPassPanel

One tab of one buyer on `Checkout`. `Mount` is a page load, the return from payOS, or coming
back within the application: the panel's own state is new, `stored` and `pending` (in
sessionStorage) are kept. `OnCheckout`, `Leave` and `CheckoutFailed` are onCheckout before and
after its await; a call of a panel that is gone is still waited for and may still move the page
or clear what is stored. `Poll` is one tick, where an error and PENDING count alike;
`ReadSubscription` and `LandSubscription` are the two ends of the load that `marketplace-listings.tsx`
makes. `SignedInBody` and `Body` are the branches of its markup: they
decide which buttons there are, so `OnCheckout`, `Retry` and `Recheck` are guarded by them.
`Server` lets the user pay what the tab has shown. No pass expires within the model's
span, since the clock of `Checkout` covers minutes and a pass days.

### Sessions

A session is named after the call that created it, an attempt of Google's sign-in is a model
value. Every step is one query of `auth.service.ts`, `session.service.ts` or
`google-auth.service.ts`: `Insert`, `Verify` and `CreateSession` for register and login, `Guard`
and `Revoke` for the two sign-outs, `Start`, `FindAttempt`, `DeleteAttempt`, `Exchange`,
`Resolve`, `Link`, `BySubject`, `ByEmail` and `Create` for Google, whose callback chooses
between linking (the attempt is bound to a session) and signing in. `Land` is the answer with
its cookies; all tabs of a browser share them, so calls may carry an old cookie. `Expire`,
`Lapse` and `Disable` are time and an operator. A password that does not match changes nothing
and is left out, so `Verify` stands for calls that know it.

### AuthProvider

One tab on `Sessions`. `Load`, `Serve` and `Me` are fetchMe: it carries the cookie of the
moment it is sent, the server reads that session later, the answer lands later still. `Visit` is
a link within the application, which keeps the provider mounted; `LoginForm`, `RegisterForm`,
`GoogleButton` and `HeaderLogout` say which pages and which states of the tab have which
controls. `Submit` and `Logout` send, `TabLand` is the answer: `SignedIn`, `Refused`, `LoggedOut`.
`ToGoogle` leaves the application and comes back as a page load. `Expiry` is a 401 of any other
request; `Drop` is a connection that fails while the call goes on. `Rest` are other tabs and the
server.

### MediaUpload, Contributions, ContributionPage

`MediaUpload` is `MediaService.upload`: the object is put, then the row is inserted, and a row
that failed takes the object away. A put that timed out may arrive later (`Store`), an insert
may commit although it is reported as failed, deletion may fail, the server may stop.

`Contributions` are the two statements of submit, which scrap requests and cleanup reports
share, and adminVerify and adminReject on the reports. `kind` tells the two tables apart. The
rows are kept in the order of (createdAt, id): a row's createdAt lies between the begin and the
commit of its insert, so `InsertRow` may put it before rows that were committed while it was
under way. `Award` is the points entry and the commit, in one transaction.

`ContributionPage` is the form and the list of one's own. The photo, the button and the submission
exclude each other as the code's disabled conditions do. `AskFor`, `ReadLoad` and `LandLoad` are
a load, which nothing cancels; `LoadMore`, `ReadMore` and `LandMore` a page, which is
dropped unless the list still ends where it was asked to continue. `PageAfter` is the keyset
query and its cursor. `PhotoInput`, `SubmitButton` and `MoreButton` are the conditions under which
the page offers its controls.

A photo is `Readable` when its row and its object are there, which is what `getAuthorized` needs.

`Evidence` is what a photo stands for: it is kept, sent in once, judged once, and credited in the
same step that verifies it. `Contributions` implements it (`ImplementsEvidence`): a photo is kept
once its upload is answered with success and it is `Readable`, so that nothing the storage or the
database does later may take it away; it is sent in when a row has it, verified or rejected as that
row is, and credited when the row has points.

### QuotePages

The seller's list and the administrators' queues on `Quoting`. A page shows what it once read.
`Offered` and `FormOffered` are the rows that have buttons or a form; `Decide` disables a row's
buttons until the answer, `OnAccept` remembers the quote whose price was confirmed; nothing of
that is in the request. `InBand` is the form's own check of the price.

### ListingPages

Three pages on `Reservations`. The market and the queue are lists in pages: `PageOf` is the keyset
query, `LoadMore`, `MoreLoaded` and `LoadMoreQueue`, `MoreQueueLoaded` append a page to the rows
shown, `MoreButton` and `QueueMoreButton` are offered while there is a cursor. `OnReserve` and its
three answers `Reserved`, `Conflicted` and `NotReserved` are a card's reservation: a success goes
to the account page (`GoToAccount`), a conflict reloads the market, any other error, a lost
answer among them, stays on the card. `ViewOrder` and `OrderLoaded` are the order's private
details. `OnAction` and `ActionAnswered` are an administrator's schedule, complete or cancel on a
row of the queue, `Due` the rows the queue's query selects. Loads are counted by `MaxLoad`.

### GrantPage

One administrator's form on `Passes`: `Fill`, `OnSubmit`, which disables the form, and the answer
as `Granted` or `NotGranted`. A lost answer frees the form although the grant goes on, and
`Mount` forgets it; `Rest` are the server and the other calls of `Passes`.

### Geocoding, LocationForm

`Geocoding` is the gate. The promise chain is the sequence `chain` of lookups that have not
settled; `BeginSleep`, `BeginFetch`, `EndFetch` and `ReadBody` are the body of reverse between its
awaits, and a fetch that fails or times out lets the chain go on as one that succeeds does. `since`
is the time since the last fetch began, counted up to the interval of 1.1 seconds, which is as much
as the code can tell of it.

`LocationForm` is the picker and the form it is part of. `UseMyLocation`, `Located` and `NotLocated`
are the device's position, which is looked up; `PlacePin` is a click on the map or a drag, which
is not. `LookedUp` lands an answer, late or after the form was cleared, and fills the blank fields.
`ToReverseGeocodeResult` is the mapping from the keys of an address to ward, district and city,
where an address is a function from keys to values of which only matters how they read; it is
evaluated for the 64 addresses of `MCLocationForm`, whose assumption `CommuneIsWard` is what
`geocoding.service.ts` says of it.

## 5. Runs

| Run | Shows | Bounds |
|---|---|---|
| `quoting` | `Inv`, `BookConsistent`, `SoleDecision`, `AuditTruthful`, `ImplementsBook`, `EveryCallAnswered` | 1 request, 3 calls, one price in the band and one above it |
| `quoting_reviewed` | a violation of `AcceptedAsConfirmed` | 1 request, 3 calls, 2 administrators, two prices of the band |
| `reservations` | `Inv`, `ListingsAgree`, `AuditComplete`, `ScheduleFrozen`, `OnlyTheHolderMoves`, `ImplementsMarket`, `EveryCallAnswered` | 1 listing, 4 calls, one amount |
| `reserve_answer` | a violation of `ErrorMeansNotReserved` | 2 listings, 2 calls, pages of 1, 2 loads of a list |
| `passes` | `Inv`, `PaidOnce`, `PaidWindowsDisjoint`, `NeverShutOut`, `AcknowledgedIsActivated`, `ImplementsLedger`, `PaymentApplied` | 1 buyer, 2 orders, 2 references, 2 calls, 2 attempts, passes of 1 day, clock to 2 |
| `passes_grant` | a violation of `SecondGrantRefused` | one administrator's tab, 2 calls, clock to 2 |
| `buyer_pass` | `Inv`, `OneCreator`, `RefusedUnoffered`, `OnePaymentPage`, `ShownIsRemembered`, `ImplementsSale`, `PaymentSettles` | 2 keys, 3 calls, `Lease` 2, `MaxLife` 1, `Lag` 1, clock to 2, `MaxPoll` 2 |
| `sessions` | `Inv`, `OneAccount`, `LinkedByOwner`, `OneSessionPerAttempt` | 2 users, 2 addresses, 2 Google accounts of one address, 2 calls, 2 attempts |
| `signed_out` | a violation of `SignedOutIsTrue` | as `sessions`, and one tab |
| `lookups` | `TypeOK`, `Spaced`, `EveryLookupAnswered` | 2 lookups, 2 pins, 1 field, 64 addresses, an interval of 2 ticks |
| `address_of_pin` | a violation of `AddressOfPin` | as `lookups` |
| `contributions` | `Inv`, `PhotoOnce`, `RowHasPhoto`, `PaidIffVerified`, `PagesJoin`, `ImplementsEvidence` | 3 photos, 4 submissions, 2 verdicts, pages of 1, 2 loads, of the submissions 1 or 2 (requests) or 2 (reports) are earlier ones |

Why these bounds are enough. Calls about different requests or different listings share no row
and no lock, so one request or listing shows every interleaving there is. Three
calls are a quote and two decisions that race, or two quotes that race one decision or each other;
what more calls could do, such as two quotes that race over a third, the theorems cover, which
hold for any number of them. Four calls are the
fewest in which a listing is reserved, released and reserved again while a complete or cancel
of the first reservation is waiting for the lock. The amount of 500 VND is less than a point is
worth and earns one all the same, the edge of the award's rule; the theorems cover every amount.
For passes, two orders of one buyer are the fewest that can overlap; two calls are a delivery of
each, two deliveries of one, or a grant beside a delivery, and again the theorems cover more; two days let a pass end, begin
and be waited for; two attempts (the code has five, `MaxAttempts`) let a webhook conflict, run
again and give up.

For the checkout, two keys are what a tab needs to forget one attempt and begin another, and
three calls are a first create, a retry that recovers or leases, and one of the other key, or
two retries that want the lease; a clock of two lets the lease run out once. Two polls
(`MAX_POLL_ATTEMPTS` is larger) are one that counts and one that gives up. For sign-in, two
calls meet in every pair of statements, and each property is about two actors; two Google
accounts of one address are what the unique keys and the link have to keep apart; a second
attempt is one that replaces the browser's token. For contributions, an earlier row is there to be listed, and new submissions
commit in and out of order between two pages of one row; a report has two earlier rows and one new
photo, sent in up to twice, because verdicts multiply the states, and both kinds take submissions
by the same statements; two loads overtake each other; two verdicts race; three photos let one be
changed after an answer was lost. For lookups, the second waits for the first one's interval, or
belongs to a pin that has been moved; an interval of two ticks tells a lookup that waited for a
part of it from one that waited for all; the fields are filled independently of each other, so one
is enough.

Symmetry is used only for the administrators' verdicts of `contributions`, and in
`quoting_reviewed`, which check no liveness. Where the code numbers its rows the model does too
(photos and submissions of a tab), and there is none.

Fairness. `FairSpec` asks that every call that has begun keeps taking its steps
(`WF_vars(Step(c))`): Node runs every resolved promise, and PostgreSQL grants a free lock and
breaks a deadlock. Nothing asks that anybody calls, that a transaction fails, or that a price
is accepted. In `Passes` it also asks that payOS delivers again what was not answered with
success (`WF_vars(Redeliver(c))`), and `PaymentApplied` is about runs in which failures and the
checkout's writes to the row end at some time: each of them can undo one run of a webhook.
`TabSpec` of `BuyerPassPanel` asks only for the notification of a paid link (`Notify`): payOS
repeats it until it is answered, and `PaymentApplied` is what makes one answer come.
`GateFairness` of `Geocoding` is that time goes on and that a lookup whose turn it is takes its
next step: a fetch is ended by an `AbortSignal` at the latest, reading its body too. No page is
assumed to be fair: users leave, and connections drop.

## 6. Findings

- `quoting_reviewed`: `apps/web/messages/en.json:236` has the seller answer "Confirm accepting
  quote {price}/kg?" before the request is sent (`sell-scrap-view.tsx:553`). accept takes no
  quote id and accepts whichever quote is PENDING at that moment
  (`scrap-request.service.ts:163`); an administrator whose queue still lists the request may
  have replaced the confirmed quote, and the listing carries a price the seller never saw.
  What does hold is proved: the confirmed quote is one of that request, and the one it is sold for
  unless it has been SUPERSEDED (`SoldAsConfirmedOrReplaced`).
- `reserve_answer`: the test at `e2e/marketplace.spec.ts:172-174` recalls "a bug ... where the
  reservation succeeded while the row showed an error. The buyer must reach the new private order
  details." When the answer of a committed reserve is lost, the card (`marketplace-listings.tsx:225`)
  shows an error over a listing that is reserved by this buyer; the retry is answered 409 and
  leads to no order. What the details of an order say, once reached, is true however old the answer
  is (`OrdersAreTruthful`).
- `address_of_pin`: `tasks/greencity-followup-prompts.md:82-84` and `location.controller.ts:33` have a
  pin that is dropped looked up. A click or a drag only sets the coordinates
  (`location-picker.tsx:104-112`), so what an earlier lookup filled in stays, and a report may be
  sent with the address of another place.
- `passes_grant`: the comment at `subscription.service.ts:90-91` and the test 'refuses a second
  grant while a pass is still active' (`test/marketplace.integration.test.ts:520`) have a second
  grant refused; the check and the insert are two statements without a transaction, so two
  grants sent while the first still runs are both made. `GrantPage` disables its form while it waits,
  but a lost answer ends the wait, not the grant. The overlap shuts nobody out
  (`NeverShutOut` holds); the days of one of them are lost. What the page announces was granted
  (`WhatItSaysWasGranted`); what it does not announce may have been, too.
- `signed_out`: the comment at `auth-provider.tsx:78` reads a 401 of fetchMe as "no session:
  signed out". The 401 may answer a request that was sent before a sign-in of this or another
  tab set a live cookie; nothing orders the two answers, and the tab shows nobody until it
  asks again. logout reads a 401 of its own the same way (`auth-provider.tsx:121-122`). The
  other way round it does not err: whom it shows has signed in (`ShownHaveSignedIn`).

Observations without a run:

- a grant "has to be attributable" (`subscription.service.ts:67-70`), but its audit entry follows
  the insert through `AuditService.record`, which swallows its errors; `Audit` may leave it out;
- a sign-in that is under way while its user signs out everywhere creates its session
  afterwards (`CreateSession` after `Revoke`); it is then a sign-in that came later, and nothing
  in the code promises otherwise;
- after a payment that the user cancelled at payOS the order stays PENDING, and the tab offers
  a recheck forever (`pending` is cleared by PAID and FAILED alone); a new tab, whose
  sessionStorage is empty, can begin another checkout; `OnePaymentPage` is about one tab;
- an insert of a media row that commits and is reported as failed leaves a row without its
  object; its id never reaches a client, so no request or report names it (`RowHasPhoto`
  holds). A put that arrives after its timeout leaves an object without a row;
- after a submission whose answer was lost, a retry is told that the photo is used, although
  the row the user wanted exists;
- the comment at `listing.service.ts:193` still names "the @unique on listingId" as the backstop;
  migration `20261002000001` replaced it by a partial unique index on RESERVED rows, and a listing
  whose reservation was cancelled has a second reservation. The conditional update is what orders
  the calls, as the comment says: `BackstopsUnused` is proved;
- the message of a card whose reserve was answered 409 is not seen: the reload that follows takes
  the cards away (`Conflicted`);
- a value that reads as a district under the key `suburb` is put in the ward's field when nothing
  reads as a ward, and a commune under `county` alone in the district's;
- after a report was accepted the form's coordinates are cleared while the marker stays on the map
  (the marker is not modelled), and a lookup still on its way fills the empty form;
- loads of a list are not cancelled, so an older answer may replace a newer one; `PagesJoin` says
  that what is shown is one list all the same.

## 7. Proofs

`QuotingProofs` and `ReservationsProofs` prove, for any sets of requests, listings, calls,
prices and amounts, under the assumptions stated in the modules (`NoneAssumption`: the null
value is no row's name; `BandAssumption`, `AmountAssumption`: prices and amounts are integers,
amounts positive as the request schema demands):

- `Invariance`: `Spec => []Inv`. The properties are not inductive by themselves. `Inv` adds
  `LocksConsistent` (a row a call has locked is still what it found, and no two calls lock one
  row) and `CallConsistent` (how far a call has come tells what it holds and has done). Each
  action is one lemma, with the conjuncts it can disturb below it.
- `BookIsConsistent`, `QuoteIsPendingAtDecision`, `DecisionIsSole`, `AuditIsTruthful`,
  `ListingsDoAgree`, `BackstopsAreUnused`, `AuditIsComplete`, `TypeCorrect`: from `Inv`.
- `ScheduleIsFrozen`, `OnlyTheHolderMovesIt`: action properties, from `Inv` and the action.
- `QuotingImplementsBook`, `ReservationsImplementMarket`: the initial states map to initial
  states and every step maps to a step of the abstract module or to a stutter.
- `PagesUseQuoting`, `PagesUseReservations`: every step of the pages, with the server and the other
  calls, is one of the module below or leaves it alone. So whatever is proved of `Quoting` and
  `Reservations` holds behind their pages, the refinements included (`PagesImplementBook`,
  `PagesImplementMarket`).
- `QuotingProofs!PagesInvariance`: a page shows of a request a quote of it, now or once, and what it
  waits for has disabled the buttons it was sent with. From it, `SoldAsConfirmedOrReplaced` and
  `OneDecisionIsWaiting`.
- `ReservationsProofs!PagesInvariance`: the types of the three pages (`MarketTypeOK`, `AccountTypeOK`,
  `AdminTypeOK`), what they list was reserved, and `OrderTruthful`, which `OrdersAreTruthful` states
  by itself. Closed reservations stay closed, so an old answer can only withhold. The theorems are
  for a finite set of listings, as a table is, at least one load, and pages of at least one row
  (hypotheses of the theorems, not assumptions of the module): `PageOf` chooses the newest listing of
  a set, and `Least` finds one in every finite set.

`PassesProofs` does the same for any users, orders, calls, references, lengths of a pass and
number of attempts (`OwnerAssumption`: an order has one owner; `TimeAssumption`: lengths and
bounds are positive or natural numbers):

- `PaidIsOnce`, `PaidWindowsAreDisjoint`, `NobodyIsShutOut`, `AcknowledgedAreActivated`: from
  `Inv`, where a webhook that has claimed its order knows that its snapshot of the row is not
  stale and its reference unused, and every pass it has read was made no later than its `now`.
  The heart is `StartsLast`: a webhook that may commit has read every paid pass of its user, so
  the new one starts after them all, and any wait for its start is covered by a pass it has read.
- `PassesImplementLedger`: the commit of a webhook is one step of the ledger.
- `PageUsesPasses`, `PageInvariance`, `WhatItSaysWasGranted`: the grant page on top. A grant that is
  answered as such has made its pass (`GrantedHasPass`), and the page says nothing else. The
  hypothesis is that "nothing" and "error", which the page may say instead, name no user.

`GeocodingProofs` proves, for any lookups and any interval (`MinIntervalAssumption`: a natural
number):

- `GateInvariance`, `FetchesAreSpaced`: only the first lookup of the chain sleeps or fetches, and
  what it has still to sleep and the time since the last fetch add up to the interval at least.
- `FormUsesGate`, `FormIsSpaced`: each step of the form's page is a step of the gate or leaves it
  alone, so whatever the page does, fetches are spaced.
- `FormTypeCorrect`: the types of the form with the gate (`PinAssumption`: no pin is the null value).

`ContributionsProofs` proves, for any numbers of photos, submissions, verdicts and loads, any
length of a page and any earlier rows (`PhotoAssumption`, `CallAssumption`, `PageAssumption`):

- `Invariance`: what a media row, its upload, its submission and a verdict know of each other
  agrees (`RowsInv`, with `UploadConsistent`, `SubmissionConsistent`, `VerdictConsistent`); no row
  is in the table twice, and a page `Follows` its cursor: it is in order, ends at the cursor it
  hands out, and between the two leaves out no row that was there when it was read (`PagesFollow`).
- `PhotoBacksOneRow`, `RowsHaveTheirPhotos`, `PointsFollowVerdicts`: from `Inv`.
- `PagesDoJoin`: an insert changes the order of no two rows (`InsertKeepsOrder`), a page of the
  table follows its cursor (`PageFollows`), and two pages of which the second follows the first
  one's cursor make one that follows where the first began (`PagesContinue`).
- `FirstVerdictStands`: an action property, from `Inv` and the action.
- `ContributionsImplementEvidence`: each step is one of `Evidence` or changes nothing that it shows.
  The insert of a media row that is answered with success keeps the photo (`MediaKeeps`), the insert
  of a row sends it (`RowTells`), and the commit of a verdict judges it and, if it verifies, credits
  it (`VerdictTells`); the photo had no verdict before because no other row has it.

`CheckoutProofs` proves, for any keys, calls, number of polls and lengths of time with
`TimeAssumption` (the lease outlives a call, and the call's life and the provider's lag together):

- `Invariance`: `CheckoutInv` of the orders and `Inv` of the tab on top. `OrderHolds` says what a row
  tells of its link and its calls, `CallHolds` how far a call has come: a call that works on an
  order began it no later than the row was touched and is within its life, so nobody else's lease
  has run out (`ClaimInv`), and a link that an earlier call left is one that payOS finds by then,
  so a retry that is refused and finds none may write FAILED (`RecoverInv`, `RefuseInv`).
- `CreatorIsOne`, `RefusedIsUnoffered`: from `CheckoutInv`.
- `PaymentPageIsOne`, `PaymentIsRemembered`: from `TabConsistent`, which says that the tab waits for
  nothing once a payment page is open, and shows no button until the payment is known.
- `TabUsesCheckout`, `CheckoutImplementsSale`, `TabImplementsSale`: each step of the tab is one of
  `Checkout` or leaves it alone, each step of `Checkout` one of `Sale` or a stutter.

`SessionsProofs` proves, for any users, addresses, Google accounts, calls and attempts
(`MailAssumption`, `NamesAssumption`):

- `Invariance`: how far a call has come tells what it has found (`CallHolds`), and a callback that has
  consumed its attempt is the only one (`OneConsumes`): the attempt is gone for good, because the
  deletion looks at the number of rows.
- `AccountsAreOne`, `LinksAreByOwner`, `AttemptsSignInOnce`: from `AccountsInv`, the part of `Inv` that
  is about this.
- `BoundCallbacksSignInTheirOwner`: the rest of `Inv`, `BoundHolds`, is about attempts that a signed-in
  user started to link an account: they are bound to that user's session, and their callback signs
  in that user or fails, whoever the browser has signed in by the time it comes.
- `NothingIsUndone`: an action property; addresses, links, the users of sessions and their ends are
  written once. What the tab shows rests on the same lemma (`WrittenOnce`).
- `TabUsesSessions`, `TabInvariance`: the tab on top, for any calls of other tabs. `ShownHaveSignedIn`
  holds because a sign-in is answered only when its session exists (`AnsweredHaveSessions`) and a
  session never changes its user, so in whatever order answers land, each names somebody who has
  signed in. `TabWaitsForAnAnswer`: a call the tab waits for has begun and not landed, since nothing
  but landing ends one (`UnansweredStays`). The hypothesis is that what the tab may show or be told
  instead of a user ("loading", "out", "gone", "401", "error") names no user.

The invariants of the quote, listing and grant pages and of the tab (the two `PagesInv`, `PageInv`,
`TabInv`) are what these proofs need. The configurations of these modules look for a violation, so
they do not list them; TLC checked each before it was proved, on the instance of the module's
configuration, but with one listing for `ListingPages`, and one user, address, Google account and
attempt for `AuthProvider`.

Only model-checked: all liveness (`EveryCallAnswered`, `PaymentApplied`, `PaymentSettles`,
`EveryLookupAnswered`), since liveness under fairness needs ENABLED, which the prover does not
handle; and what `ToReverseGeocodeResult` makes of an address, which is checked for the 64
addresses of `MCLocationForm` (`CommuneIsWard`). The five findings are counterexamples that TLC found.

## 8. Not modelled

- Several processes in front of the geocoder, a restart of one, and a clock that goes backward: the
  gate is a promise chain and a timestamp in one process, and its spacing holds only there.
  A lookup's wait for its turn is not bounded by the timeout of its fetch.
- Locations: one insert, and reads guarded by their owner; nothing interleaves.
- `Trade`, the composition of `Quoting` and `Reservations`: the only step they share is the insert of
  the listing at the end of accept, which each has from its own side (`Accept`, `List`).
- Audit entries of checkouts, uploads and sign-ins: nothing reads them.
- Phones, throttling, password hashing, HMAC and image decoding: what they refuse changes
  nothing, and where a call depends on their result it is a free choice.
- Other pages, translations, request wrappers, zod schemas beyond the input sets they leave,
  mail, chat identity, health and counters: no state that several steps could disturb. The chat
  widget is an external SDK. The categories of the sell form and the account page's other sections
  are read once with their page; its numbers are reads of rows modelled here
  (getBalance reads the sum and the entries in two statements, `points.service.ts:50`, so one
  answer may show an entry the sum leaves out).
- Foreign key locks: they are taken on rows the same transaction has already locked.

Of the repository's lines, tests, the seed, the smoke and build scripts, schemas, and the markup
of the pages make up most; they have no behaviour to model.
