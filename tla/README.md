# corvmc.org in TLA+

corvmc.org is the site of a music collective: it books the practice room, sells
tickets, keeps members' free hours, opens the door and much else. It is one
SvelteKit Worker on Cloudflare in front of one D1 (SQLite) database. This
directory models the parts of it whose correctness rests on the order in which
things happen.

## How the program runs

- Every entry point is a request to the Worker: a form or query
  (`src/src/lib/remote/*.remote.ts`), a Stripe webhook
  (`/api/stripe/webhook`, redelivered when it answers 500), or a cron route
  (`/api/cron/*`). Requests run side by side in any number of isolates.
- They call services (`src/src/lib/server/<domain>`), which read and write D1.
  D1 has **no interactive transactions**: the atomic unit is one statement, or a
  `db.batch`. Everything between two awaits can interleave with anything else.
- Services emit events on an in-process bus (`event-bus`). A listener runs inside
  the request that emits; nothing is stored and nothing is retried.
- Crons run every 15 minutes, 5 minutes, day or week, one job after another.
- An isolate may die between two statements. Nothing resumes the handler; only
  Stripe redelivers.

So every module here has the same shape: a handler is a process `p`, an action is
one awaited statement, `pc[p]` is the next statement and `job[p]` what the handler
has read and not yet acted on.

## Inventory

| component | state | operations | what is hard | what makes it correct | status |
|---|---|---|---|---|---|
| Room booking, waitlist, desk (`reservation-service`, `waitlist-service`, `checkout-listener`, `reservations.remote`) | reservation rows: status, window, waitlist offer | create, queue, accept, cancel, re-time, resolve, settle, three crons | check-then-write races; stale reads in crons and webhooks; promotion by a listener; offers that lapse | no double booking; resolved and cancelled stay so; one offer per freed slot, oldest first; lapsed offers end | `RoomBooking` |
| Free-hours credits (`credit-service`, `reservation-credit-service`, `webhook-handlers`) | balances on the user row, an append-only ledger, `cashDueCents` | deduct, add, set; commit, reverse; monthly allocation | compare-and-swap retries, redelivered invoices, crash between balance and ledger | balance = ledger; committed once, reversed once; one grant per invoice | `FreeHours` |
| Tickets and door sales (`ticket`, `events.remote`, `ticket-seller`) | ticket rows per purchase, the sale's switch, refunds and entries | buy, comp, door sale, fulfil, check in, drop, cancel show, cancel gig, sweep | Stripe pays whenever it likes and announces it at least once; two scanners; a tap racing a cancellation | who is inside has paid or was let in; a void ticket stays void; money goes back once; no order pends for ever | `TicketSale` |
| Break-glass code (`fallback-code-service`) | code rows by stage, users of the lock | daily maintenance, rotation, promotion | the lock is offline for days; an id is lost; the run dies half way | what is handed out opens; never a gap; the lock does not fill | `FallbackCode` |
| Door codes of bookings (`lock-service`, `ultraloc-client`) | code, user id and ready stamp on the booking; users in U-tec's cloud and on the lock | provision, re-point, revoke, clean up, reconcile, retry | the cloud says yes long before the lock; ids are found by comparing two lists | ready means on the lock; a live code stays; a dead one goes | `DoorCodes` |
| Volunteer shifts (`volunteer-signup-service`, `work-order-service`, `show-cancellation`) | sign-up rows of a shift, its window, notice stamps | claim, invite, accept, drop out, no-show, complete, close, call off, tell | the last place; the cron against a claim; notices against drop-outs | places given once; finished shifts settled; the crew told | `VolunteerSignup` |
| Reservation payment (`payment-service`, `reader-payment`) | payment records, cash due | price, pay, refund, settle at reader | a charge that lands after a cancel; two tenders for one booking | paid at most once; refunded money was taken | plan 1 |
| Recurring reservations (`generation-job`, `recurring-series-service`) | series, cursor | generate, cancel, lapse | overlapping runs; a series cancelled while it is generated | each occurrence at most once | plan 2 |
| Memberships (`subscription-*`) | subscription snapshot | webhooks, staff sync | webhooks out of order, read-modify-write of one JSON column | snapshot follows Stripe | plan 3 |
| Inventory loans, ballots, campaigns, inbox, RSVP | stock, votes, send cursors, threads | see `PROJECT.json` | capacity counted and then used; leases; redelivery | never over capacity; one vote; sent once | plan 4 |
| Everything else | records edited by staff | CRUD | nothing concurrent | - | not modelled |

`PROJECT.json` lists every component with its sources, and every hazard at its line.

## Modules

| module | what it is |
|---|---|
| `Timespan` | windows and the overlap comparison every scan makes |
| `RoomCalendar` | abstract specification: a room, a row is granted a window nobody who holds one overlaps, or releases it |
| `RoomBooking` | the reservation table and every handler that writes it, statement by statement; its properties |
| `MCRoomBooking` | windows and symmetry for TLC |
| `RoomBookingProofs` | its type, no double booking, and that it implements `RoomCalendar` |
| `RoomRacesProofs` | the desk's, the offers' and the queue's properties, from what each statement may do to a row |
| `CreditWallet` | abstract specification: two balances and atomic add, deduct and set calls on them |
| `FreeHours` | one member's balances and ledger, and every handler that spends, returns or grants credits, statement by statement; its properties |
| `MCFreeHours` | amounts and symmetry for TLC |
| `FreeHoursProofs` | its type, that it implements `CreditWallet`, and that the ledger accounts for the balances |
| `FreeHoursOnceProofs` | taken once, returned once and in full, granted once, for requests that come in turn |
| `TicketSale` | the tickets of one show and every handler that writes them, with Stripe as an actor of its own |
| `TicketSaleProofs` | theorems about `TicketSale` |
| `FallbackCode` | the break-glass code: its rows, and its users in the cloud and on the lock |
| `FallbackCodeProofs` | theorems about `FallbackCode` |
| `DoorCodes` | the code of each booking, through confirmation, cancellation, moves, the staff retry, the daily job and the 15-minute pass |
| `DoorCodesProofs` | theorems about `DoorCodes` |
| `VolunteerSignup` | one shift, the members on it, and how it ends or is called off |
| `VolunteerSignupProofs` | theorems about `VolunteerSignup` |
| `MCTicketSale`, `MCFallbackCode`, `MCDoorCodes`, `MCVolunteerSignup` | constants and symmetry for TLC |

### RoomBooking and the code

| in the model | in the code |
|---|---|
| `res[r]` | a `reservation` row; rows are numbered in the order (created_at, id) of the queue |
| `res[r].offer` | `waitlist_notified_at`/`waitlist_expires_at`, set and cleared together |
| `Blockers` | the conflict scan: not cancelled, not waitlisted, overlapping, `ne(id, ...)` |
| `CreateCheck`, `CreateInsert`, `CreateRecheck`, `CreateBackOut` | `create()`: scan, insert, scan again, delete |
| `QueueInsert` | `createWaitlisted()` |
| `AcceptRead` ... `AcceptUndo` | `confirmWaitlisted`: read, scan, update by id, scan again, undo |
| `CancelRead`, `CancelWrite` | `cancel()`: read, conditional update |
| `PromoteSelect`, `PromoteCheck`, `PromoteOffer` | `promoteNextWaitlisted()`, run by the listener of `reservation.cancelled` and by the expiry job |
| `SweepSelect`, `SweepNext` | `cancelUnconfirmedReservations()`, which calls `cancel()` |
| `ExpireSelect`, `ExpireNext` | `expireWaitlisted()` |
| `StaffCheck`, `StaffInsert`, `AdjustCheck`, `AdjustWrite`, `UpdateStatus` | the desk |
| `CheckoutRead`, `PayWrite` | `handleReservationCheckout`, and the settle that follows `skipPayment` |
| `Crash` | the isolate dies, or a statement throws |

`standing` and `via` are history variables: `standing[r]` says how a row came to
hold its window (`pending` before the re-check, `settled` once the scan after its
write has passed, `forced` by a write no scan follows), `via[c]` whose cancellation
offered the slot to `c`. No action's guard reads either.

A cfg lets in some of the handlers (`Handlers`), so that a run can ask about the
members' protocol alone or about staff, crons and crashes beside it.

### FreeHours and the code

| in the model | in the code |
|---|---|
| `bal[w]` | the two balance columns of the user row |
| `plan` | `user.subscription.hoursPerReset`, or no subscription |
| `ledger[w][tag]` | the rows of `credit_transaction` with that (source, source id): how many, and their sum |
| `row[r]` | a reservation: status, `cashDueCents`, whether a payment is recorded and refunded, whether Stripe was asked to charge a card for it; `waived` (history): the rest was paid in money or waived |
| `stripe[e]` | what Stripe has still to deliver: `due`, `sent` (no answer yet), `done` (answered 200) |
| `WalletRead`, `WalletSwap` | `applyBalanceMutation`: read, then an UPDATE that names the balance read, up to `MAX_BALANCE_RETRIES` times |
| `WalletDeduct` | `deductCredits`: one guarded relative decrement |
| `PostEntry` | the ledger row, inserted after the balance |
| `ConfirmRead` ... `MarkPriced` | the confirm and pay forms with `commitReservationCredits` |
| `SettleCovered`, `SettleOwing` | what they go on to do: `commitCreditsAndSettleIfCovered`, and a checkout, the reader or cash owed at the door for the rest |
| `CashRead`, `TakeCash`, `Complete` | `cashReceivedReservation`, which runs the same commit whatever the status, then `recordCashAndComplete` |
| `CardRead`, `CardWrite` | `handleReservationCheckout`: read the status, write by id |
| `CompRead`, `CompConfirm`, `CompWrite` | `comp()`, and the comp branch of `confirmReservation`, which writes by id |
| `Resolve` | `markComplete`, `markNoShow`, `autoCompleteExpired` |
| `CancelRead` ... `CancelRefund` | `cancel()`, then `BackCheck` |
| `RefundRead`, `RefundMark` | the refund-only form, around `BackCheck` ... `BackBalance` |
| `BackCheck` ... `BackBalance` | `reverseReservationCredits` |
| `Deliver` ... `PlanWrite` | `invoice.paid` |
| `Deliver`, `ZeroEquipment`, `PlanClear` | `customer.subscription.deleted` |
| `Adjust` | staff add credits or take some |
| `Crash` | the isolate dies |

A booking is worth `Need[r]` units and an invoice `Grant[i]` units and `Dollars[i]`
equipment credits; cash is counted in the same units, since only whether credits and
cash add up to the price matters. `applied[w][tag]` is a history variable: how often
a balance was written for that tag. It differs from the ledger between a balance and
its row, and for good if the isolate dies there.

Left out: equipment loans and credits spent at checkout (other callers of the same
wallet calls), `customer.subscription.updated` and the staff sync (they write the
plan and no balance), and sessions after the next reset, which spend no hours. The write
that `payReservationRemainder` makes when `checkout` says the cart is paid is not reached:
it passes no eligible credits, and without them a cart worth something is never paid at
once. The reader's webhook reads and writes in one statement, so what it may do is among
what `CardRead` and `CardWrite` may.

`"overlap"` in `Handlers` lets requests about one booking, or deliveries of one
event, run at once. Without it they come in turn, any number of times, while
everything else still interleaves. The code serialises none of them; the properties
that need the turn are named under *Findings*.

### TicketSale and the code

| in the model | in the code |
|---|---|
| `tkt[t]` | the status of a ticket row; `t` is the k-th row of its purchase |
| `charge[u]`, `event[u]` | Stripe's side: the Checkout Session or PaymentIntent, and the webhook that announces the payment |
| `refunds[u]`, `ledger[u]` | money Stripe has sent back; `financial_entry` rows of the sale, and their reversals |
| `Buy`, `Mint`, `OpenSession` | `purchaseTickets`: capacity check, pending rows, session |
| `Claim`, `Issue` | `claimFreeTicket`, a price scale that runs to free, `compTickets` |
| `DoorStart` ... `DoorHold`, `LetIn` | `startDoorSale`: the intent, then the pending rows; a free one is checked in at once |
| `DoorCancelRead` ... `DoorVoid` | `cancelDoorSale`: read the intent, cancel it, void the rows |
| `Deliver`, `Fulfil`, `FulfilDoor`, `RecordSale`, `Answer` | the webhook route and the listeners it emits to, in any order |
| `ScanRead`, `ScanWrite`, `DropRead`, `DropWrite` | `checkIn`, `cancelTicket`: read, UPDATE by id |
| `CancelShow` ... `ShowVoid` | `event-service.cancel()` |
| `CancelGig` ... `GigVoid` | `cancelBandEvent` and `refundBandTicketSale`, one purchase at a time |
| `Sweep`, `Age` | `cancelStalePendingTickets`, and the 24 hours it waits |

### FallbackCode and DoorCodes and the code

U-tec's cloud accepts every change and pushes it to the lock when the lock is next
online. So every user exists twice: `cloud` / `user` is what list and get answer from,
`lock` what opens the door, and `Push` carries one over. `sync_status = 1` is their
being equal.

| in the model | in the code |
|---|---|
| `row[c].stage`, `.known`, `.since` (`FallbackCode`) | `lock_fallback_code`: pending, active, retired or deleted; whether the id is known; `synced_at` |
| `PendingRead` ... `PendingAgain` | `maintainFallbackCode`, with `promotePendingCode` as `OutgoingRead`, `Stamp`, `Retire`, `Remove` |
| `Rotate`, `Add`, `Insert` | `rotateFallbackCodeNow`, `mintFallbackCode` |
| `row[b]` (`DoorCodes`) | the reservation: status, day, `lockCode`, `lockAccessId`, `lockSyncedAt` |
| `ListBefore`, `Add`, `ListAfter`, `OnlyOne` | `addLockUser`: list, add, wait, list again, take the one new id |
| `Record` | the UPDATE at the end of `provisionAccessFor` |
| `ListenerRead`, `RevokeRead` ... `HeldClear` | the listeners of `reservation.confirmed` and `.cancelled` |
| `UsersOf`, `Shown` | whom `removeHeldAccess` deletes: the user with the row's id, or without one those with its window, and its code where `get` returns codes (`"hidden"` lets it return none) |
| `FollowRead` ... `FollowDelete` | `syncAccessWindow`, after a show and its hold move |
| `CleanFind` ... `SweepNext` | `runDailyLockJob`: cleanup, provisioning, reconciliation, sweep |
| `Upcoming`, `SyncRead` ... `SyncStamp` | `reconcileUpcomingSync` every 15 minutes |
| `UtecFails`, `Caught` | a call that throws, and where each caller goes on |

A day stands for a window, since the room is booked once a day in the model, and
nothing is in flight at midnight. Left out: standing member codes, the self-test, the
alerts, and two bookings drawing the same four digits.

### VolunteerSignup and the code

| in the model | in the code |
|---|---|
| `status[m]` | the member's `volunteer_signup` row for the shift |
| `calledOff`, `resolved`, `ended` | `cancelledAt`, `resolvedAt`, `endsAt` of the work order |
| `HasRoom` | `hasRoomSql`, evaluated inside the statement that writes |
| `Claim`, `ExistingRead`, `ClaimWrite` | `claimShift`, by a member or by staff for one |
| `Invite` ... `InviteWrite`, `Accept` ... `AcceptWrite`, `Decline` | invitations |
| `Release`, `Confirm`, `NoShow` | one conditional UPDATE each |
| `Sweep`, `SweepWrite`; `Resolve`, `Close` | `completeFinishedShifts`; closing by hand, whose two writes are one `db.batch` |
| `CancelShift`, `Notify`; `CancelShow`, `CallOff` | called off by hand, or with its show |
| `PendingRead`, `Stamp`, `Tell`; `Ring` | `notifySignupsOfCancellation`; `markSignupNotified` |

Everybody takes the shift's own window, so that capacity is one count. Left out:
clearances, a member's own window, onboarding, hour logs, recurring occurrences, and
edits of the capacity. `Notify` and `Ring` happen on a called-off shift only:
`WorkOrderView.svelte` offers both there (139, 275) and a shift is never put back on; the
server does not ask again.

## Runs

| run | question |
|---|---|
| `booking_race` | three requests, two overlapping windows, three rows: no double booking, overlaps only transient, a booked row carries no offer |
| `desk` | staff, payment webhook, crons and crashes: resolved and cancelled rows stay so; refines `RoomCalendar` |
| `offers` | four rows in the queue: one open offer per cancellation, oldest first; liveness: a lapsed offer ends |
| `credits` | two bookings compete for a wallet that covers one and a half, and are confirmed, paid by card or cash, comped, resolved, cancelled, refunded, charged after their cancellation: hours taken once (once more for a cancelled row), given back once, in step with the price |
| `invoices` | two invoices, the end of the subscription, a booking and staff on the same balances: refines `CreditWallet`, balance and ledger agree, one grant per invoice |
| `redelivery` | liveness: both grants of every invoice arrive although deliveries fail half way |
| `tickets` | an online order, a door sale and a free one, two at a time, sold by the collective or by a band: who is inside has paid, void stays void, a tap beats a cancellation, one refund, one door entry; liveness: no order pends for ever |
| `kept_money` | a comment the code does not keep; see *Findings* |
| `fallback` | four codes, two runs, an offline lock, a fault: the code handed out opens, never a gap, the lock does not fill; liveness: a code comes into service |
| `codes_return` | one booking, a request and a job, a fault, codes that `get` may hide: ready is on the lock's word; liveness: whoever a cancelled booking's row names comes off the lock, no user outlives its window |
| `codes_shared` | two bookings that use the same window in turn, moves, one request beside one job, a call that fails, an offline lock: a live code is never deleted by another's revocation |
| `signups` | two members and one place: given once; liveness: a finished shift is settled, the crew of a cancelled show is told |

Bounds of `RoomBooking`: `MaxRow` rows ever inserted, `MaxTime` the last instant.
Three rows are needed for two rivals and a third that waits for either; four for a
queue of two behind a booked slot and a bystander. Every race here is between two or
three statements of at most three requests. Instants matter only relative to a
window's start and end, the offer's life and the confirmation lead, each of them one
or two ticks. Requests are symmetric; rows are not, the queue reads them in order.

Bounds of `FreeHours`: `MaxArrivals` requests, repeated deliveries and crashes (first
deliveries are bounded by the events). `credits` allows five, enough for both bookings to
be settled and cancelled and one to be settled again, and keeps the code's five retries;
`invoices` and `redelivery` allow one and none, so that two or three handlers are
enough to exhaust them. One equipment grant fewer than all reaches the cap.
`BooksBalance` and `GrantedOnce` are checked without crashes, which lose the ledger row.

Bounds of `TicketSale`: `MaxOrders` purchases are begun and `MaxExtra` crashes or
deliveries are spent beyond the first. Every race is between two handlers about one
purchase, or between one about a purchase and one about the show; a purchase is one
ticket, because every statement but the scan's and the drop's writes all of its rows
alike. Bounds of `FallbackCode`: `MaxCode` mints (an active code, a successor, and two
that go wrong), a rotation is due the day after, one fault. Bounds of `DoorCodes`:
`MaxUser` users ever added and `MaxDay`. Two users are a code and its re-mint, or one
code each of two bookings; two days let a code of yesterday meet one of today.
`codes_shared` has moves, and therefore two handlers, two users and one call that fails:
with moves and a third handler, a third user, a second failure, a late list (`lag`), a
retry, hidden codes or a crash `LiveCodeStays` fails, as *Findings* says. `CodeStays` is the
theorem for any number of each, without moves. The lock is offline all the while there
(`offline`): the property is about what U-tec is told to delete, and only the ready stamp
asks the lock. Bounds of `VolunteerSignup`: two
members, one place, two calls; a third member adds no new pair of rivals, and
`NoPlaceTwice` is proved for any number.

Deadlock is not checked: an instance whose rows or arrivals are used up and whose
clock has stopped does stop.

`OverlapIsTransient` is checked without the re-timing form, which never scans after its
write. `ResolvedIsFinal` and `CancelledStaysCancelled` let a payment or an acceptance
write what it likes, because those name an id and no status: see *Findings*. `accept` is
not let into `offers`: an acceptance that is undone puts a row back into the queue after
a promotion has already chosen a later one, and `FirstComeFirstServed` fails.
`VoidStaysVoid` makes the same exception for a scan in flight. `SpentOnce` and
`CancelReturnsHours` let a cancelled booking be charged once more, because "Cash received"
does it.

Fairness: a handler that has started runs on (weak fairness of its statements). In
`offers`, where `crash` is not let in, Cloudflare triggers the expiry job whatever the
traffic (strong fairness of `ExpireSelect`, since a request may hold the process). The
daily lock job, the volunteer cron and the delivery of Stripe's events are strongly fair
for the same reason, the ticket sweep weakly, since it needs no process. The lock is
online now and then (`Push` is weakly fair, in `codes_return` and `fallback`): a lock that never comes back keeps every
code it has. In `redelivery` Stripe delivers an event again until it is answered 200
(strong fairness of the delivery, for the same reason); the crashes there are finitely
many. Clients promise nothing.

## Findings

With a run, in which TLC finds the sequence of statements:

- `kept_money`: `refundBandTicketSale` lists the purchases whose tickets are valid. One
  that has been paid, and whose webhook has not been handled, is not among them; it
  turns valid afterwards. "A band cannot cancel and keep the money (#1472): checkout
  closes first, so nobody buys into the refund, then every paid ticket is given back"
  (`event-service.ts:2983`). The next cancellation is refused.

Of the same kind, met while modelling, and the reason for a run's choice of handlers
or for an exception in a property:

Room and hours

- `cancelUnconfirmedReservations` reads scheduled rows, then calls `cancel()`, which
  accepts a row confirmed meanwhile.
- The checkout listener checks the status and then updates by id, and so do the two
  writes of an acceptance: a row cancelled in between comes back.
- `commitReservationCredits` reads `cashDueCents` first and writes it last, so two
  settlements of one booking at once both deduct (`SpentOnce` fails with `overlap`).
- Nor does it take "credits to a reservation exactly once"
  (`reservation-credit-service.ts:129`) when the requests come one after the other.
  `cancel()` clears `cashDueCents`, and "Cash received" (`reservations.remote.ts:2250`)
  asks nothing of the status: on a cancelled booking it takes the hours anew, and records
  the cash for the rest, before `recordCashAndComplete` refuses the row. Those hours never
  come back, since the reversal is done. `CommittedOnce` is the comment as a formula; TLC
  refutes it in `credits`. `SpentOnce` is what is left of it.
- A "Cash received" on a booking that owes nothing, because it was paid or comped, goes
  through the same branch as one its credits cover: a paid row's `stripePaymentRecordId` is
  replaced by that of a $0 record, or by none, and a later refund looks there.
- The ledger row that makes a grant idempotent is inserted after the balance. If the
  isolate dies in between, the redelivery grants the equipment credits again
  (`GrantedOnce` fails with `crash`).
- Re-timing (`adjustWindow`) has no scan after its write: let `adjust` into
  `booking_race` and `OverlapIsTransient` fails.
- With `overlap`, `ReversedOnce` fails in `credits` (a refund and a cancellation at
  once both find no reversal row), `CancelReturnsHours` too (a settlement that read a
  live row deducts after `cancel()` has summed what to give back), and `GrantedOnce`
  fails in `invoices` (two deliveries at once both find no row; no unique key stops
  the second).
- `reverseReservationCredits` caps what it gives back by one read of the balance and
  `addCredits` adds to another. A monthly reset in between leaves more than the
  allocation, which its comment rules out.
- `cancel()` accepts a row that is only waiting, and its event promotes the next in
  line as if a slot had come free. The slot may be under offer already.
- A promotion tries one candidate, the oldest. If the rest of that candidate's window
  is taken nobody is promoted, though others could be.

Tickets

- Pending tickets take no place (`getTicketsSold` counts valid and checked-in ones), so
  any number of checkouts race for the last one and all are fulfilled. The door says
  "seats are held during the tap" (`door-sale.ts`); they are not.
- `checkIn` and `cancelTicket` update by id on a status read before: a ticket refunded
  under the scanner is checked in, and one scanned under a cancellation is cancelled.
- Online, the listener that records the sale asks nothing before it inserts: an event
  delivered twice is booked twice. At the door, a crash between the flip and
  `recordDoorTicketSale` books nothing, since the redelivery flips nothing.
- `reverseAll` reads what is not reversed and inserts: two cancellations of a gig at once
  reverse a sale twice ("Idempotent on its own"), and one that reads before the webhook
  has inserted its entries reverses nothing.
- A band's cancellation that dies half way through its list cannot be resumed: cancelling
  a cancelled gig is refused.
- A webhook later than the sweep's 24 hours finds cancelled tickets: paid, and none to
  show. A purchase in flight while the collective cancels its show becomes valid on a
  cancelled show.

Door

- Two maintaining runs at once (a Run now beside the daily job): the second reads the
  code the first has just promoted as the one going out, and retires it. `NeverAGap` and
  `LockDoesNotFill` fail with `overlap`. The button says "Safe to repeat".
- A fallback code whose id was lost leaves its user on the lock for good, as does a
  deletion that fails: neither is tried again.
- The confirm listener and the daily job both find no code and both add one; the row
  keeps the later, the other user stays until its window is over.
- The ready stamp is by id: a booking moved or given another code between the pass's
  read and its stamp is stamped for what it held before.
- If the list is late, the difference of two lists may be one user, and another's:
  a cancellation then deletes a live code. The comment in `ultraloc-client.ts` takes one
  new id for the right one.
- "A cancelled booking's code stops opening the door" (`lock-service.ts:655`), but only
  the user the row names is deleted. The staff retry adds a second user with the same code
  and the row keeps one of the two ids: after a cancellation the other opens the door until
  its window is over. No fault and no overlap is needed. `CancelledLosesCode` is therefore
  about the users a row names, `EveryUserExpires` about the rest.
- A revocation clears the row by id at its end. What another handler has recorded there
  since it read the row is forgotten, and that user stays until its window is over.
- Where `get` returns no code, a revocation without an id deletes every temporary user with
  the row's window, another booking's among them (`lock-service.ts:680`; `LiveCodeStays`
  fails with `hidden` and three handlers, or with `hidden` and moves).
- Without an id, a move deletes whoever has the previous window, whatever their code. If
  that is the user another handler has just added, the one new id in that handler's
  second list is a third party's: it is recorded for the wrong booking, and deleted with
  it. The staff retry ends the same way: it adds a second user with the booking's code,
  a cancellation finds and deletes that one before the retry has listed again.
- A move whose re-point died leaves the user in the old window. The cleanup lists it as
  expired; the show moves once more and the user is re-pointed before the cleanup gets
  to it; the cleanup deletes a live code.

Volunteering

- The completion cron writes by ids read before: a no-show or a drop-out recorded in
  between is completed. A drop-out there with a claim still in flight can leave more
  completed than places, which is why `PlacesAreGivenOnce` ends with the shift.
- "The completion sweep only ever promotes a confirmed signup" (`work-order-service.ts:564`)
  and "only a confirmed signup ... auto-completes" (433) are not so: both
  `completeFinishedShifts` and the closing promote a claimed one, as the former's own
  comment says, so the count of `confirmed` on a past shift includes people who never were.
  `FinishedIsSettled` follows the code. Its mutant is what those comments say.
- `notifyCancelledShift` and `markSignupNotified` do not ask whether the shift is called
  off; only the page does. On a live shift a notice would stamp a claim that lands between
  its SELECT and its UPDATE, and when the show is called off later nobody tells that member
  (`CrewIsTold` fails if `Notify` does not ask).
- A claim that lands between the notice's SELECT and its UPDATE is stamped and not told;
  an isolate that dies after the stamp tells nobody.
- `cancelShift` throws on a shift already called off, and the loop over a show's shifts
  stops there.
- `claimShift` reads the shift first and writes later, so a claim may land on a shift
  called off or closed in between.

## Proofs

`RoomBookingProofs` proves, for every set of requests, windows and handlers and
every value of the bounds, under `BookingAssumption`:

- `TypeCorrect`: `Spec => []TypeOK`
- `NoDoubleBooking`: `Spec => []SettledDisjoint`
- `ImplementsCalendar`: `Spec => CalendarSpec`

`SettledDisjoint` is not inductive alone. A row settles when its request's scan finds
no live rival, so one must know that every settled row *is* live (`StandingIsLive`:
a row stands exactly while a scan sees it), that the row the request scanned for is
a row with a real window (`RowsKnown`), and that what the request holds is what it
wrote (`JobsKnown`). Their conjunction with `TypeOK` and `SettledDisjoint` is `IInv`.
`StepKind` sums up the actions: a step keeps the settled rows, releases one, or
settles one that its scan has just found free of live rivals. All three theorems
follow from it. TLC checked the conjuncts of `IInv` before they were proved.

`RoomRacesProofs` proves about the same module:

- `ResolvedForGood`: `Spec => ResolvedIsFinal`
- `CancelledForGood`: `Spec => CancelledStaysCancelled`
- `NoOfferOnBooking`: `NoOfferIsPaid /\ Spec => []OfferOnlyWhileWaiting`
- `OverlapsEnd`: `EveryWriteIsScanned /\ Spec => []OverlapIsTransient`
- `SlotOfferedOnce`: `CancelledForEver /\ Spec => []OneOfferPerCancellation`
- `ServedInOrder`: `QueueKeepsOrder /\ Spec => FirstComeFirstServed`

The first two hold whatever handlers are let in. They and the rest lean on `RowEffects`:
every step leaves a row alone or does to it one of the dozen things a statement can,
and then the process that did it was at that statement with that row. `LetIn` says that
a process is at a statement only if some handler that is let in has one.

The hypotheses choose handlers, and each excludes those that break the property:

- `NoOfferIsPaid`: payments or acceptances, not both. A payment writes `confirmed` by
  id; if an acceptance was undone since it read the row, the row is back in the queue
  and may carry an offer, which stays on the confirmed row (TLC finds it with `accept`
  and `checkout`).
- `EveryWriteIsScanned`: no desk insert, re-timing, payment or crash, none of which is
  followed by a scan.
- `CancelledForEver`: none of the writes by id that bring a cancelled row back; one that
  is cancelled twice is promoted for twice (TLC finds it with `checkout`).
- `QueueKeepsOrder`: no acceptances, since an undone one puts a row back at its old place
  after a later one was chosen; and no re-timing together with payments.

With `PaidIsNotOffered` (a row being paid is neither queued nor offered) the first is
inductive. For the second, a row that is live without a scan must have a request that is
still to scan it or to back out (`PendingIsUndecided`), for the very window the row has
(`ScansItsWindow`); together with `SettledDisjoint` that leaves no overlap nobody looks
at. For the third, every process that promotes does it for a row that is gone, no two for
the same row, and for none already offered (`PromotersApart`, `OffersApart`). For the
last, whoever was chosen had nobody before them who waits for part of the slot, and those
who join later have higher numbers (`PromotesTheFirst`, `NewestLast`). TLC checked the
first two invariants on the instance of `booking_race` and the last on that of `offers`.

`FreeHoursProofs` proves, for every set of bookings, invoices and handlers (overlaps,
exhausted retries and crashes among them), under `FreeHoursAssumption`:

- `BalancesNeverNegative`: `Spec => []TypeOK`, where `TypeOK` has `bal \in [Wallet -> Nat]`
- `ImplementsWallet`: `Spec => WalletSpec`
- `LedgerAccountsForBalance`: finite sets of processes, bookings and invoices and
  `"crash" \notin Handlers` imply `Spec => []BooksBalance`

The invariant adds to `TypeOK` that a job fits its label (`Fit`): what it is about is
a booking where a booking is expected and an invoice or the end of the subscription
where those are, so is what it will return to, and a call at `read` or `swap` is never
a deduction. Without the last a swap could write a negative balance.
In the refinement a handler
has asked for its call from the moment it reaches `read` or `deduct`. The call takes
effect at the swap that succeeds or at the guarded decrement, and is refused by a
throw or a crash. Everything else leaves the wallet alone.

`BooksBalance` is a sum over the ledger and one over the rows about to be inserted. The
lemmas on sums (`SumTable`, `SumType`, `SumZero`, `SumChange`) say what the fold of
`Functions` returns on a finite table, and that changing one entry changes the sum by as
much. They are proved by taking a smallest finite set for which the fact fails, which the
library's theorems on well-founded orders allow without an operator parameter. The rest
is then one entry per step: a swap or a deduction adds to what is unposted what it adds
to the balance, `PostEntry` carries it from one sum to the other. A crash between the two
loses the row, and TLC finds the books unbalanced with `crash`.

`FreeHoursOnceProofs` proves, for `Orderly` handlers, that is without `overlap` (requests
about one booking, or deliveries of one event, come in turn) and `crash`:

- `HoursTakenOnce`: `Orderly /\ Spec => []SpentOnce`
- `HoursReturnedOnce`: `Orderly /\ Spec => []ReversedOnce`
- `InvoiceGrantedOnce`: `Orderly /\ Spec => []GrantedOnce`
- `PriceIsOwedOrTaken`: `Orderly /\ Spec => []PriceMatchesLedger`

and for any finite sets of handlers, bookings and invoices under `SpendOnly`, which is
`Orderly` with no `deliver` and no `add`, and an opening balance within the plan's
allocation:

- `ReversalsReturnAll`: `Spec => []ReversalsWhole`
- `CancelledHoursReturn`: `Spec => [](FewRequests => CancelReturnsHours)`
- `CancellationReturnsHours`: `MaxArrivals <= MaxRetries + 2` implies
  `Spec => []CancelReturnsHours`

Requests about different bookings, invoices and staff still interleave on the same
balances in any number, retries run out, and Stripe delivers again what failed half way.
Every guard behind these properties is a read of the ledger or of `cashDueCents` some
statements before the write, and no key of the table backs it, so without the hypothesis
they are false (see *Findings*). The invariant has one process about each thing
(`Alone`), what that process holds at each label (`Shape`), what it may take for granted
of its booking or invoice there (`Standing`: at `swap` for a reversal nothing has been
reversed, at `mark` what it owes and what was taken make the price), and what ledger and
row say of each thing (`Books`). "Cash received" on a cancelled booking is among the
requests, so what `Books` says of the ledger depends on the row: a booking has been
charged at most once (`Limit`) until it is cancelled and at most twice from then on, and
its price is owed or taken exactly as long as nothing has been paid or waived, is an upper
bound after that, and is not spoken of for a cancelled row. TLC checked it before it was
proved.

That a cancelled booking's hours come back in full is about all bookings together. A
reversal gives back no more than the plan's allocation leaves room for, and
`addCredits` gives up after `MAX_BALANCE_RETRIES` lost races. So there are two invariants
more. `WholeInv`: what bookings have taken and not given back (`Lent`, over all of them),
added to the balance, is at most what the member began with, so the allocation cuts
nothing off; and a reversal on its way carries exactly what its booking was lent.
`PatienceInv`: there have been no more balance writes than requests, less those still to
write; a reversal that has lost a race, or is bound to (`Lost`), lost it to one of those
writes, and none of them is the one that took the hours. With `FewRequests`, no more than
`MaxRetries + 2` requests since the start, it cannot lose often enough to give up. Where
more are made `ReversalsReturnAll` still holds: a reversal gives back all or, having given
up, nothing. TLC checked both invariants, with 5, 2 and 0 retries, before they were
proved, and shows that no hypothesis is idle. `PatienceInv` is violated once `FewRequests`
allows one request more. `CancelReturnsHours` is violated in `credits` with two retries
and six requests; with `add` (staff give hours meanwhile) and with `deliver` (a reset
meanwhile), since the balance then has no room under the allocation; and with an opening
balance above the plan's allocation.

`FallbackCodeProofs` proves, for any number of codes, runs, days and faults, under
`FallbackAssumption`:

- `TypeCorrect`: `Spec => []TypeOK`
- `CodeOpens`: `Spec => []HandedOutOpens`, overlapping runs, lost ids and crashes included
- `ServiceNeverStops`: `"overlap" \notin Handlers` implies `Spec => NeverAGap`
- `LockHasRoom`: `"overlap" \notin Handlers` and finitely many runs imply
  `Spec => []LockDoesNotFill`

A code goes one way, unborn, pending, in service, retired, off the cloud, off the lock
(`Forward`), and a run that is about to write holds a code at its place in that order
(`Holds`). With that, active codes are on the cloud and the lock (`OnTheLock`), unminted
ones nowhere (`Unborn`), and the codes two runs hold apart (`Apart`). For the gap one
must also know that only one run maintains at a time (`Alone`), and that what it has
read as going out is still not what it is bringing in (`Fresh`).

For the room on the lock, the users in the cloud are split into those a run answers for
(codes pending with a known id, codes added and not yet recorded or replaced and not yet
removed) and the rest. The pending codes and the runs that may add or remove one are
together no more than the runs (`Places`). The rest are one code in service and no more
others than things have gone wrong (`RestIsFaults`). TLC checked that on the instance of
`fallback`, and finds `LockDoesNotFill` violated once `overlap` is let in.

`DoorCodesProofs` proves, for any number of bookings, handlers, users, days and faults,
under `DoorAssumption`:

- `TypeCorrect`: `Spec => []TypeOK`, with every handler and fault
- `CodeStays`: `PlainUse /\ Spec => LiveCodeStays`
- `ReadyIsReady`: `PlainUse /\ Spec => ReadyOnTheLocksWord`

For the type one must know that a handler about to write a row has a booking in hand, and
one about to record or delete a user has users, at every label and for every way back
from a failed call. `PlainUse` leaves out moves, the staff retry, the lagging list and a
`get` that hides codes; confirmations, cancellations, the daily job, the 15-minute pass,
failures and crashes race in any number. Then every user that a row or a handler knows by number, as a code,
an id, or about to be recorded or deleted, is one booking's alone (`ClaimsApart`). New
claims come only from `Add`, and the one new id in its second list is the user it added
(`AddsAlone`). So what a revocation has in hand is its own booking's. TLC checked the
invariant (`CodeInv`) before it was proved. The hypothesis is needed in each of its
parts: let `lag`, `retry`, `hidden` or `move` in, with three handlers or one fault of the
right kind, and TLC finds `LiveCodeStays` violated (see *Findings*). `codes_shared` has
moves, with two handlers, two users and a failed call: the theorem does not speak of
moves, and the run of no more than that. `ReadyIsReady` says nothing of a row that was given
another code between the pass's read and its stamp, which is stamped all the same.

`VolunteerSignupProofs` proves, for any number of members, calls and places, under
`SignupAssumption`:

- `TypeCorrect`: `Spec => []TypeOK`
- `NoPlaceTwice`: `Spec => []PlacesAreGivenOnce`

The room is counted by the statement that writes, so one more member never passes the
capacity; what must be added is that only an ended shift is being swept
(`SweepsAfterEnd`), since the sweep is the write that does not count.

`TicketSaleProofs` proves, for any purchases of any number of tickets, any number of
processes, repeats and crashes, and any choice of handlers, under `TicketAssumption`:

- `TypeCorrect`: `Spec => []TypeOK`
- `AdmissionIsPaidFor`: `Spec => []AdmittedHavePaid`
- `OneRefund`: `Spec => []RefundedOnce`
- `OneDoorEntry`: `Spec => []DoorSaleBookedOnce`
- `NoRevival`: `Spec => VoidStaysVoid`
- `ChargedSeatsStay`: `Spec => TapWins`

A charge only moves forward, from none to open to paid or closed (`ChargeStep`), and
only the request that makes a purchase opens its charge and inserts its rows
(`OneMaker`, `Fresh`). So what a process has read of the money is still true when it
writes (`Pays`), whatever the row has become: that carries `AdmittedHavePaid` through the
writes by id, and `RefundedOnce`. For the books of the door one must know that a delivery
about to book a sale is the only one and has left no pending row behind (`Books`), and
that the sale's rows were there before its card was charged (the door's `Fresh`). That a
reversal count is never negative (`Reverses`) is what the type of the ledger needs.

Every safety property that a passing run checks is a theorem, some under the hypotheses
named above. Only model-checked are the liveness properties (`LapsedOfferEnds`,
`GrantArrives`, `PendingResolves`, `ComesIntoService`, `CancelledLosesCode`,
`EveryUserExpires`, `FinishedIsSettled`, `CrewIsTold`): fairness is beyond the prover.

## Plan

1. `ReservationPayment`, composing the status writes of `RoomBooking` with the credit
   commit of `FreeHours`: paid at most once across cash, reader and online, nothing
   kept for a cancelled booking. Abstract specification: one settlement per booking.
2. `RecurringSeries`: each occurrence at most once under overlapping generation runs.
3. `Subscription`: webhooks out of order against the staff sync.
4. Capacity and sending protocols (inventory, ballots, campaigns, RSVP).

Proofs next: with each module of the plan, its type and its safety properties.

## Not modelled

Components with the status `not_modelled` in `PROJECT.json` carry their reason there:
most are records that one person edits and others read (listings, venues, productions,
grants, directory), pages, or clients of external services. Recurring reservations,
memberships, loans, ballots, campaigns and the inbox have protocols of their own and
are in the plan.
