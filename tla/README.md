# Timanti middleware: a verification development

The middleware (`src/server.js` and `src/src/`) is one Node process between
Shopify, a Supabase database, two payment providers (Pine terminals and GoKwik
links), mail and a few spreadsheets. It numbers documents, takes payments, keeps
what a customer owes in step with a draft order, and runs vouchers, advances,
savings plans, loyalty and repairs.

It has one thread and almost no transactions. Every call to Shopify, Supabase
or a provider is an `await`; between two awaits any other handler may run, and
most state is read in one call and written in another. Shopify delivers one
staff action many times and out of order, a provider answers late or twice, and
the process restarts at each deployment. That is what the models are about: each
awaited call is one action, each handler run a process, and the data is reduced
to what the properties tell apart.

## 1. Inventory

`PROJECT.json` lists the source files of each component. `M` marks what has a
model; none is complete, the notes in `PROJECT.json` and section 6 say what is left
out of each.

| component | state | operations | hard behaviour | what makes it correct |
|---|---|---|---|---|
| **document numbering** (M) `modules/serialization` | `serial_counters` (last number of a key), `serial_ledger` (a row per document, two unique constraints), the metafield `serial_code`, `_numberingInFlight` | `mintSerial` (first mint, re-issue, lost race), order webhook, tag passes, `manual-mint`, `allocate`, `cancelSerial`, drift sweep | passes interleave between lookup, draw and insert; a number is given back by a second statement; some errors are not looked at; the lock dies with the process | no number twice, none lost, a recorded number stays, an order is numbered once, the lock is always released |
| **draft-update webhook chain** (M) `server.js:3600-3850` and its money steps | `_draftChainInFlight`, `_draftChainPending`; on the draft: total, tags, net-to-collect, amount pending, payment legs; `store_deposits` | `runDraftUpdateChain`, `handleCashPaymentTag`, `syncAmountToCollect`, `applyPaymentTagsToDraftOrder`, `recomputeCollection` | its own writes are delivered again; deliveries are coalesced, reordered, stale; steps fail one by one; a 120 s backstop takes the lock away; routes recompute beside it | one chain per draft, figures follow the draft, each payment counted once, the storm ends |
| **payment terminal and gateway** (M) `integrations/pine`, `integrations/gokwik`, `server.js:4220-4383` | `transactions` and `payment_links` rows, the poller's flag, what Pine and GoKwik hold | push, poll, check, cancel, postback; generate, cancel (two ways), webhook | an upload nobody waits for; poller, check and postback learn of one payment; cancellations cross payments; the link callback names the draft, not the link | no payment recorded that was not made, none twice, none lost |
| **buy plan** (M) `modules/payments/buy-plan` | plan row, schedule, price-lock tags, snapshot of the draft, sent-markers | start, record payment, change product, final price, forfeit, restore; six-hourly sweep | price lock against reprice; restore of a deleted draft by webhook and sweep; a crash between closing and voucher | the locked price holds, the customer is warned before the plan closes, one voucher pays the money back |
| **credit instruments** (M) `modules/adjustments/credit_instruments.js`, handlers of `server.js` | `credit_instruments` row, code and tags of the draft, the price rule of the online shop | apply, remove and replace by tag; redeem, free, void by script; webhooks of a conversion, a deletion, an online sale | the row is read before and written after the draft; one pass carries a removal and an application; a sale is heard of late or twice | an instrument is spent once and what is spent stays spent; a reservation ends spent or open |
| **CAD advance** (M) `modules/adjustments/cad_advance*.js` | `advance_status` on draft and order, register row under two names, an installment leg on the sale | capture, line removal, redeem, refund, conversion; sweeps: convert at 60 days, expire at 365 | status kept in three places; webhooks of one document late or twice; a write half done | an advance settles one sale; a refunded or expired one settles none; the places agree |
| **loyalty** (M) `modules/loyalty` | `loyalty_redemptions`, discounts, four fields of the draft; `loyalty_ledger`, a copy and a tag on the customer | benefit: evaluate, apply, take off, code per cart, sale, expiry. Points: earn (coalesced), refresh, tell, nightly sweep | bursts of deliveries kept in memory; a code used while it is replaced; a row read, compared and written by several | one bonus a month, price and record agree; points follow the order, a rise is told once |
| **after-sales and repairs** (M) `modules/after-sales` | stage tags and price of the draft, two metafields, links, session tokens | intake, holds, estimate, approval, completion, balance, refund, outside pieces | each step puts back the whole tag list it read; a mail precedes the tag that says it was sent | each step told once and taken, money paid is recorded, the ready mail is fair |
| installments and refunds `modules/payments` | four (six for a plan) legs, two refund legs, `amount_paid`, `amount_refunded`, the deposit row | `installmentLegPatch`, `reconcileDepositPaid`, `handleRefundSync` | overflow folds into the last leg; deposit row and legs disagree | legs and deposit add up |
| pricing `modules/pricing`, `handleRecalculatePriceTag` | none beyond the draft's lines | discount break-up, reprice base | rounding, allocation of the rest | parts add up to the whole |
| procurement `modules/procurement` | purchase-order drafts, tokens of links, sheet rows, debounce timers | raise, batch, approve or reject, sync | trailing debounce | the last state reaches the sheet |
| Shopify client `core` | cached token, retries | `getShopifyToken`, the axios interceptor, sessions | retry of 429 and of idempotent calls | bounded retries |
| lookbook `modules/lookbook` | the live snapshot, a build under way, timers | refresh, load, save, nightly rebuild | a reprice under way | a failed build keeps the old copy |
| reporting and administration | none of its own (reads the tables above) | reports, reconciliation, explorer | none of its own | arithmetic of the reports |
| email, SMS, forms and jobs | none | templates, calls of outside services | pure input and output | out of scope |
| older copies and extensions | admin extensions (browser), copies of earlier modules | | not part of the running service | out of scope |

How they interact. The draft chain calls, in one fixed order, a step of nearly
every component on the same draft (hydrate, reprice, cash tag, vouchers, CAD
advance, loyalty, repairs, numbering, net, balance); the terminal, the links and
the buy plan end in `handlePaymentCompletion`, which writes the deposit, the legs
and the tags and so causes deliveries to the chain; `recomputeCollection` is
called by routes outside it. Numbering is called by the chain (drafts), by its own
order webhook, by the sheets and by credit instruments (vouchers). The CAD advance
keeps its register row in the table of the instruments, points follow the notes
redeemed there, and a conversion or a deletion is told to numbering, instruments,
advance and loyalty alike. All of them share the tags and metafields of one draft,
without any lock but the chain's.

## 2. The modules

| component | specification | instance | proofs |
|---|---|---|---|
| document numbering | `NumberSeries` (abstract), `Serial` | `MCSerial` | `SerialProofs` |
| payment terminal | `Terminal` | `MCTerminal` | `TerminalProofs` |
| payment links | `Links` | `MCLinks` | `RepairLinksProofs` |
| draft chain, collection figures | `DraftChain` | `MCDraftChain` | `ChainProofs` |
| buy plan | `Schedule` (operators), `BuyPlan` | `MCBuyPlan` | `ChainProofs` |
| credit instruments | `Instruments` | `MCInstruments` | `InstrumentsProofs` |
| CAD advance | `Advance` | `MCAdvance` | `AdvanceProofs` |
| loyalty | `LoyaltyBenefit`, `LoyaltyPoints` | `MCLoyaltyBenefit`, `MCLoyaltyPoints` | `BenefitProofs`, `PointsProofs` |
| repairs | `Repair` | `MCRepair` | `RepairLinksProofs` |

`Serial` implements `NumberSeries` through a refinement mapping; `BuyPlan` is
`Schedule`'s rules driven by the sweep. Where components meet, the one that is not
the subject is an action of the other: an edit of the total in `DraftChain` stands
for every step of the chain that changes a price, the advance's register in
`Advance` is the table of `Instruments` with its own rows, a redeemed note in
`LoyaltyPoints` is `Instruments`' redemption.

What is left, in the order it would be worth doing: `handlePaymentCompletion`
against deposit and legs, composed with `Terminal`, `Links` and `DraftChain` (a
recorded payment is one step in the first two); the amounts of legs and refunds as
operators; the payment links of a plan; proofs for the newer modules.

## 3. The models

Common conventions. A handler run is a process with a `pc` naming the awaited
call it is about to make; the call's effect and everything the handler does until
its next `await` is one action. Rows of a table are functions from ids to records
or model values, `None` or `"none"` where there is no row. A failure is an action
of its own, guarded by a set of allowed kinds and a bound. `Restart` ends all runs
and forgets all in-process locks; the tables and Shopify stay. Operators whose
comment begins with *Faulty* are the code with a plausible mistake in it: they
stand just before the definition they vary, and show that each property notices.

In `Instruments`, `LoyaltyBenefit`, `LoyaltyPoints`, `Advance` and `Repair` a
behaviour is about one `case`, drawn in `Init` from the constant `Case`: how many
events (what staff, customers and time do) it has, and which *troubles* may occur
beyond one request after another, each prompt and successful. A trouble is a class of
schedules or of failures: webhooks late or twice, a failing call or a restart
(`fault`), requests that run at the same time (`overlap`), or a use of the panel
that the code treats apart. `Only(S)` in a property reads "in cases whose troubles
are among `S`": the troubles left out are those under which the code does not keep
the property, and section 4 says what happens then.

### `NumberSeries`, `Serial`: document numbering

`NumberSeries` is the promise: each store has one series, a document takes the next
number in one step, keeps it, and no number is skipped or given twice.

| `Serial` | code |
|---|---|
| `counter`, `ledger` | `serial_counters`, `serial_ledger`; a document's row is keyed by the document because `serial_ledger_resource_unique` allows one |
| `place`, `printed` | the store code and `serial_code` on the order or draft; for a sheet or form, what was typed and what was answered |
| `numbering` | `_numberingInFlight` (orders) and, for drafts in `Chained`, the lock of the draft chain |
| `StartOrder` … `StartNote` | order webhook, tagged draft, `/manual-mint`, `/allocate` |
| `ReadMetafields`, `Lookup`, `Draw`, `Record`, `Stamp` | `readSerialMetafields`, then the five awaited calls of `mintSerial` (`index.js:407-504`) |
| `Rewind`, `Redraw`, `Move` | its re-issue path (`:437-454`), taken when the row is cancelled or of another store |
| `HandBack`, `Winner` | its lost-race path (`:472-499`) |
| `CallFails`, `ReplyLost`, `Restart` | what each call's error leads to: the code looks at the errors of the RPC and of the INSERT only |
| `EnterStore`, `CorrectStore`, `Cancel` | staff; `cancelSerial` by resource |

A store code stands for a whole counter key (`counterKeyFor`: document type,
financial year, store); one instance is one document type, since rows and counters
of different types never meet. A number is a pair of store and sequence; its
formatting is left out. Not in the module: `allocateAndStamp` (draws without a
ledger row), the by-sequence form of `cancelSerial`, the admin's edits of counters,
the backfills and the drift sweep, which only reads.

### `Terminal`: card payments

| `Terminal` | code (`integrations/pine/index.js`) |
|---|---|
| `status`, `ref`, `draftOf` | `transactions`: status, PTRID (absent, not positive, positive), draft |
| `upload` | the request `UploadBilledTransaction` sent without `await` (`:188-201`) |
| `pine` | what Pine has of the transaction (external) |
| `collected` | runs of `handlePaymentCompletion` for it |
| `isPolling`, `rows` | the poller's flag and the rows a pass has still to look at, as it read them |
| `Push`, `Insert`, `UploadAnswered`, `UploadTimesOut`, `UploadRefused` | `pushDraftOrderToTerminal` |
| `Poll`, `PollRow`, `Ask`, `Settle`, `Complete`, `PollEnd` | `pollActiveTxns`, every 30 s |
| `Check`, `Cancel`, `Postback` and their later steps | the three routes |

Updates are by id and look at nothing but the id, so any run may overwrite what
another wrote; that is kept. Nobody looks at the error of an UPDATE: `Unwritten`
and `UploadUnwritten` are the ones that fail, after which the run goes on.
`handlePaymentCompletion` is one step here; `Unrecorded` is the one that throws
or gives up before it records. The older `/api/pine-webhook` is left out: its
main branch compares `draft_order_name` with Pine's transaction number, which a
push stores elsewhere, and its test branch, which marks any row PAID by id, is
a tool for trying the flow by hand. `Ask` and the `Settle` after it are two
actions, as in the code.

### `Links`: payment links

`status` and `made` are the rows of one draft and their order of creation;
`gokwik` and `posted` what GoKwik has of a link and the callbacks it has made;
`recorded` counts how often a row's amount was recorded. `Generate`/`Insert` is
`POST /api/generate-payment-link` and the `send-link` tag; `CancelLink` and
`CancelActive` are the two cancelling routes; `Success`, `MarkPaid`, `Record` and
`Closed` are the webhook (`server.js:4320-4383`), which is given a draft id and a
status and picks the newest open row. `apart` remembers whether a link was ever
made while anything of an earlier one was still open, or a callback came again while
its first call was handled (`Redeliver` at any time: both calls then read the created
row, and the payment is recorded twice). `Unwritten` is any `UPDATE` that fails, whose
error the code does not look at (the payment is recorded, the row stays open);
`Unrecorded` a failed read of the row or a `handlePaymentCompletion` that throws or
gives up, after the 200 was sent. The repair branch of the
webhook, which is chosen by a tag before any row is looked at, is left out.

### `DraftChain`: the webhook chain and the collection figures

| `DraftChain` | code (`server.js`) |
|---|---|
| `live` | the draft in Shopify: total, cash tag, payment tags |
| `net`, `due`, `paid`, `recorded` | `amount_to_be_collected`, `amount_pending`, the installment legs, `store_deposits` |
| `hooks` | deliveries under way, each with the draft as it was: any may arrive next |
| `inFlight`, `again` | `_draftChainInFlight`, `_draftChainPending` |
| `Begin`, `Coalesce`, `Trail`, `Refetch`, `Backstop` | `runDraftUpdateChain` |
| `Cash`, `CashRecord`, `CashTags`, `CashMeta` | `handleCashPaymentTag` |
| `NetRead`, `NetWrite` | `syncAmountToCollect` |
| `Balance`, `BalanceWrite`, `BalanceTags` | `applyPaymentTagsToDraftOrder`, called after a moved net and again as the last step |
| `BeginDirect` | `recomputeCollection`, which other routes call without the lock |
| `StepFails` | the `try/catch` around every step: the pass goes on with the next one |
| `lost` | history: the backstop took the lock of a chain that runs, a chain ended with a delivery unanswered |

The total is known by the edit that made it, a balance by the net and the payments
it was derived from: arithmetic is left out, but a figure derived from a stale
input is a different value. A pass of the code has sixteen steps; the model has
those that carry money, and the steps that rewrite lines (hydrate, reprice,
discounts) appear as edits of the draft, which is what they are for the rest. The
metafield write after the tags is one step; the metafields and the total are read
in one step. The conversion of a fully paid draft into an order is left out. A
handler that returns is used again, so `Run` bounds how many work at once and not
how many there are.

### `Schedule`, `BuyPlan`: plans

`Schedule` is `schedule.js`: `planState` (a replay of due dates, payments and price
changes, here a recursive function over days), when a plan closes, when it warns and
what each installment asks for. `BuyPlan` drives it through the life of one plan.

| `BuyPlan` | code (`modules/payments/buy-plan`) |
|---|---|
| `row`, `sent`, `vouchers` | `buy_plans`, `buy_plan_reminders`, the vouchers made |
| `draft`, `deleted` | the drafts in Shopify with lines, price, net, tags and legs; deletions not heard of |
| `sweep`, `desk`, `hook`, `followUp` | the sweep, the staff request and the restore under way, the timer of a follow-up |
| `StartRead` ... `StartLock`, `ChangeRead` ... `ChangePending`, `Pay` | `startPlan`, `changeProduct`, a payment as it reaches draft and plan |
| `SweepRead` ... `SendMessage` | the steps of `sweepPlan`, in its order (`Step`, `After`) |
| `RestoreBegin` ... `RestoreRekey` | `restoreDeletedPlanDraft`, from the webhook or from a sweep |
| `EngineReprice`, `Recompute` | the draft chain's reprice under the lock tags, and the net that follows |
| `NextDay` | the calendar: no day passes before it was swept |

Months are equally long and amounts small. One sweep runs at a time (`Overlap` says
whether a restore may run beside it). Left out: the payment links of a plan, its pay
page, the sheet, the sold alert and the digest.

### `Instruments`: vouchers and exchange notes

| `Instruments` | code |
|---|---|
| `ledger` | `credit_instruments`: status, draft, order |
| `doc` | code metafield, `num`, apply and remove tags, state of each draft |
| `rule` | price rules of the online shop |
| `deducted` (history) | the documents whose customer was given the value |
| `ChainStart`, `ChainAgain` | a pass on the draft's own tags; one on an old update of it (`sent`), late or once more |
| `Pass` ... `ApplyLedger` | remove and apply handlers of a pass, on the tags of its payload |
| `PostRedeem`, `PostVoid` | the calls of the Apps Script |
| `HandleCompleted`, `HandleDeleted`, `HandleOnline`, `LockLook`, `RedeemOnOrder` | the webhooks |

`UpsertIssued`, `Redeem`, `Apply`, `RevertApplied`, `Reopen`, `VoidInstrument` are
the ledger's functions with their status guards, one statement each. Left out:
expiry, amounts, the status replay of the backfill, `promoteApplied` (no caller),
reports.

### `LoyaltyBenefit`, `LoyaltyPoints`

`LoyaltyBenefit` is the month of an occasion of one member. Any number of purchases
get the tier rate, one gets the birthday bonus. `row` and `store` are
`loyalty_redemptions` (codes, and drafts when they are converted), `node` the
discounts in Shopify, `doc` a draft with the four places that say whether it has the
benefit: record, tag, mirror of the amount, price. `ChainStart` (an old update:
`ChainAgain`) ... `WriteTags` is `handleLoyaltyStep` between the reprice, which writes
back tags and lines of its payload, and the discount step of a pass; `Ask` ...
`Answer` mints a code for a cart; `HookStart` ... `Tidy` is a sale; `SweepStart` ...
`Recheck` the daily sweep. Rupees, the cap on making charges, guests, the hourly
limit and the plain promotion are left out.

`LoyaltyPoints` is what orders earn. `timer` keeps the newest payload of an order
until the burst is over; `Settle`, `Figure`, `Prior`, `Upsert` are `processOrder`;
`Sum`, `Look`, `Publish`, `Untag`, `AddTag`, `Mail` are `refreshCustomer`; the sweep
earns orders again (`Recheck`) and republishes (`Republish`). An order is a buyer, a
refund, a store refund and a count of redeemed notes. The exclusions (first order
number, superseded and cancelled orders, advances) and the tags of occasions are
left out. The sweep comes when everything else is handled, unless requests overlap.
A tier begins above nothing, as all of `DEFAULT_CONFIG` do. `normalizeConfig` would
take a minimum of 0 (config.js:82); then a customer no refresh has come to yet is short
of its tier, and the copies agree from its first refresh on.

### `Advance`: the CAD advance

| `Advance` | code |
|---|---|
| `doc` | each document as a draft and as the order it became: `advance_status`, legs, reference, tags |
| `row` | the register row under the draft's name and under the order's |
| `Pass`, then `Capture` ... `Close` | the four advance steps of one pass of the draft chain, on its payload |
| `HandleCompleted`, `Copy` ... `SettleRow` | the conversion: metafields copied, source order, own status, re-keying |
| `HandleDeleted`, `CloseDeleted`, `Revert` | a deletion: two calls at once |
| `SweepStale`, `Convert`, `SweepOverdue`, `Stamp` | the nightly sweep at 60 and at 365 days |

A leg carries an advance or does not, a refund gives all of it back. Passes are not
counted: `Forget` (with overlapping requests only) drops what came during the third.
Otherwise only what the pass itself wrote comes meanwhile, and it leaves nothing to do
but after rejected values, so `RefEnds` is claimed with neither. "reject" is the write
that absorbs; any other write that is not made is a "fault", after which capture and
refund go on to the register (`NotWritten`), and only types are claimed. A write of
metafields alone is taken to be delivered (`Repair` has it otherwise). Left out:
amounts and labels, `redeemed_against`, the sheet log, reminders, the monthly digest,
the lookup of an order by name, partial refunds.

### `Repair`: one repair from intake to refund

`draft` has the stage tags, the price and one bit for the specs on its line (the mirror of the weights included);
`fields` the amount paid and the final cost; `due` counts deliveries; `chain` is the
pass under way, at most three in a row as in `runDraftUpdateChain`; `req` the forms,
links and notifications. `Trigger` and `Onward` are the order in which
`processRepairDraftUpdate` looks for a step that is due; `Gate` ... `Unhold` the
intake's holds; `Quoted`, `Reckon` ... `Ready` the estimate and completion mails;
`PostEstimate`, `PostComplete`, `PostApprove`, `ClickRefund`, `PostOutside`,
`Notified` the requests, each a read of the draft followed by writes (`Put`,
`WritePaid`, `WriteFinal`, ...) that put back the tags it read. `told`, `money` and
`wanted` are history. Left out: the order lookup and its session token, photos and
weights, the form's refusal over weights, mails to the store, tracking, the mail of
an exchange note.

## 4. Runs

One run per component carries all its properties; a property that is a
conjunction names the questions it holds together, and each conjunct is defined and
commented on its own in the module.

| run | what it asks | instance |
|---|---|---|
| `serial_locked` | Every document under a lock or requested once and nothing fails: `ImplementsSeries` (no second draw for a document, no gap); `MintEnds`: every mint concludes, every lock is released. | 2 orders, 1 chained draft, 1 voucher, 3 passes |
| `serial_storm` | Corrections, cancellations, failed calls, lost answers, restarts. `PassesSound`: types and locks; `OrderPrintsOnce`; `ReissueSafe`: a re-issue of a locked document beside first mints keeps numbers apart; `FirstMintsAgree`, `NumberIsPermanent`: until the first correction, cancellation or lost answer no two documents share a number, each prints its row's, a recorded number stays. | 2 stores, 1 order, 1 chained draft, 1 hand-raised document, 2 passes, 1 edit, 1 failure |
| `terminal` | `RowsSound` and `PaidNeverFails`: PAID is never wrong, never turned into FAILED; `PollerCountsOnce`; `ChargeIsRecorded`: every approved payment is recorded in the end unless its upload, an `UPDATE` or the recording failed, the process restarted or staff cancelled. | 2 payments, 2 ticks, 3 requests, 1 failure |
| `links` | As long as neither links nor the calls of one callback overlap (`NoOverlap`): `RecordsSound` (only paid amounts are recorded, once), `SuccessStays`, `LinkPaidIsRecorded` (in the end, unless row, recording or process failed). | 2 links, 3 requests, 2 failures |
| `chain` | `ChainSound`: one chain per draft; `FiguresAgree`: with nothing under way the net is the draft's (no failure, no delivery left unanswered) and the balance and tags follow it, whatever one call failed; `PaymentsAgree`: while nothing fails legs and deposits agree, and each cash tag is counted once if no recompute runs and staff wait for their webhooks; `StormEnds`: the chain's own deliveries die down. | 2 handlers, 1 recompute, 3 passes, any 2 events |
| `plan` | `MoneyKept`: acknowledged money is in the copy, one closing voucher; `ScheduleKept`: warned before closing, no marked message unsent, shown amounts are those asked for, a payment keeps the plan; `PriceKept`: locked price and final price stand; `PlanEnds`. | 3 installments, 8 days, pairs of payment, edit, change, reprice, deletion, crash |
| `instruments` | `HoldsAgree`: a code is on one draft and the ledger says which, whatever else comes late or twice, as long as no old update of a draft is handled; `SalesAgree`: spent once, and the ledger knows where; `SpentStays`: nothing redeemed is handed back; `HoldsEnd`: requests end, a deleted draft's voucher comes back. | 2 codes of one kind, 2 drafts, 1 online order, 4 or 5 events |
| `instruments_swap` | *Not kept:* `server.js:3125` says a double spend is prevented by the ledger. A swap leaves both tags, the conversion redeems the first. | 2 vouchers, 8 events |
| `benefit` | `BonusOnce`; `RecordsAgree`: record, tag, price and ledger of each draft and sale (no old update); `UsedStays`; `BenefitEnds`: requests end, every used code is known in the end, failures included. | 3 codes, 2 drafts, 2 carts or one of each, 4 or 5 events |
| `points` | `PointsAgree`: one row per order with its current figure, the copy on the customer is the sum; `RisesTold`: each rise mailed, once; `CatchesUp`: whatever happened, ledger and copies end up right. | 2 orders, 2 customers, 2 tiers, 3 or 4 events |
| `advance` | `SettlesOnce`; `AccountsAgree`: at rest document, register, bills and refunds agree; `FinalStays`; `AdvanceEnds`: references are dealt with (no overlap, nothing rejected), unused advances lapse. | 1 advance, 2 other sales, 3 to 6 events |
| `repair` | `RepairSound`: each step told once, price and quote stand; `MoneyAgrees`: paid is recorded, the ready mail asks for the difference, one refund; `RepairEnds`: each step due is taken, the first estimate arrives. | 2 amounts, 2 deliveries, 2 requests at a time, 3 to 7 events |

**Bounds.** The races of `Serial` are between two or three passes over one
row: a loser needs a winner and, where a counter is moved back, a third that drew in
between. So three passes where the counter is the question (`serial_locked`, and
`MCSerial_fresh.cfg` with a voucher and two failures), two where an edit and a fault
take part as well (a restart lets two passes start over, so there are more than two
in a behaviour). Two payments let one tick hold a stale row of one while the other is
settled; three requests are two pushes and one other, or one push and any two others
that meet on its row. Two links are the least that overlap. In `chain` two events
out of edits, cash tags, recomputes and failures already give trailing passes, stale
payloads and deliveries of the chain's own writes. A plan of three installments has
a first, a middle and a last one, which the rules treat apart; missed, partial and
early payments all occur within its eight days, and the events come in pairs
because each pair is two actors on one plan. Two drafts and two codes (or two carts,
or one of each) are what a reservation, a swap and a bonus are about; an event is one
thing staff, a customer or the calendar does, and every awaited step of the handlers
it causes comes on top, so that five events are a sale or two with a removal or a
second delivery on the way. A repair takes seven from intake to refund. The
conditions of the properties were also tried with more events and with two troubles
at once. `MaxLegs = 2` of `Advance` is one more than is right; `MaxDue = 2` of
`Repair` is one delivery more than a pass can coalesce.

`StoreSymmetry` (storm) and `PassSymmetry` (fresh) permute stores and passes that no
property singles out; no symmetry is used with liveness. Deadlock is checked except
where the bounded actors of an instance run out: requests served once, events spent.

**Conditions in properties.** A property that would fail for a reason the code does
not claim to handle names it, so that one state space serves with and without:
`OnlyFirstMints` (no edit, no lost answer), `OwnWinner`, `OneReissue` (no failure, one
locked document edited), `asked` (`PollerCountsOnce`: which requests were made),
`NoOverlap`, `patient` (staff waited for the webhooks of what they did before,
`CashCounted`), `Only(...)`. The models contain the behaviour beyond:

- *Numbering.* A re-issue whose calls fail leaves a row behind its counter. Two
  re-issues in one store at once may each draw the other's old number: neither row
  moves, each document is stamped with the number the other one still records. A hand-raised
  document re-issued by two requests gives back a number in use. A plainly
  failing INSERT of a voucher sends its pass to the winner query, which goes by
  code: with two vouchers both are answered with one code (`OwnWinner`).
- *Terminal, links, chain.* A status check beside the poller records a payment
  twice; two pushes both insert a row; a timed-out upload, or a restart after PAID,
  leaves a payment unrecorded; the expiry of one link closes the row of another; a callback
  delivered twice at once, or again after its `UPDATE` failed, records twice; a
  recompute beside the chain of a second edit writes an older net last; a cash
  tag added between the read of the tags and their PUT is erased.
- *Plan.* Two sweeps of one plan make two vouchers (the model runs one); a crash
  between clearing `change_pending` and the change's voucher loses the voucher; a
  plan whose lock failed follows every reprice until the tag is on.
- *Instruments.* With a restart, a failure, overlapping requests, two wishes in one
  edit, a script that writes to a converted draft (whose swap then frees the code the
  order was sold with) or an update of a draft that is handled late or again no hold is
  claimed. A sale heard of late leaves a window in which a second draft deducts
  the code; the script's redeem does not refuse a converted draft; a code used online
  while on a draft is opened again by a swap or a void (the comment at
  `server.js:3098` takes that for impossible); two drafts applying one code at a time
  both hold it; a removal and a refused application in one pass restore stale tags,
  and a later pass frees the code elsewhere; a ledger write that fails is only logged.
- *Loyalty.* An update of a draft that comes late or again brings back its tags and
  lines, with the tag `on` or without it. A second delivery at the same time inserts a second sale; a row
  written whose refresh failed is not refreshed by the next delivery; two refreshes
  of one customer publish in any order, and both may mail.
- *Advance.* Two sales absorb one advance at the same time; a second delivery of the
  conversion copies `open` over `applied` or `redeemed`; a rejected `amount_paid`
  leaves a leg and the retry adds another; a restart, or an unnoticed failure,
  between absorbing and reserving leaves the advance open; a deleted sale leaves the
  order `applied`; a refunded advance whose draft sells a piece becomes redeemed; a
  refund on the order closes nothing; an expired advance on a draft can still be
  spent, against `cad_advance_sweep.js:139-141`.
- *Repair.* Every step puts back the tag list it read, so that overlapping requests
  undo an approval, a payment or a mark. A mail precedes its tag, so a failed PUT
  tells the customer again (against "Tag regardless, so the customer is never
  acknowledged twice"); a mail or link that failed waits for the next save; a paid
  balance link is not recorded; a payment is recorded at the draft's price of that
  moment; a delivery during the third pass is dropped; two clicks on the refund link
  at once make two vouchers; a metafield read that fails at completion asks a
  customer who has paid; a payment heard of after the ready mail is asked for again; a
  repair paid and then waived offers no refund; a piece from outside made free after
  intake is not held for inspection. Shopify sends a draft webhook for a metafield
  write or it does not (`after-sales/index.js` and `outside/routes.js` disagree): the
  model has the delivery only where the draft itself is saved.

**Claims the code does not keep.** `instruments_swap` is a run; the other traces are
kept beside it, one configuration each (`tlc -config X.cfg M`), and each refutes the
comment or document it quotes:

| configuration, property | claim | what happens |
|---|---|---|
| `MCSerial_voided`, `VoidedNotHandedBack` | `serialization/routes.js:832` "The number is NOT handed back to the counter" | a voided document raised again rolls the counter back past it |
| `MCSerial_notes`, `NoSharedPrint` | `serialization/index.js:461` "unique by construction" | a lost answer of the INSERT gives the recorded number back, the next voucher is answered with the same code |
| `MCTerminal_cancelled`, `CancelledNotCharged` | `pine/index.js:337` "Pine had not received it" | a row without a PTRID may be one whose upload is still unanswered |
| `MCLinks_amount`, `RightAmount` | `docs/gokwik-webhook.md:20` the amount of the row "is correct" | with two links open, paying the older records the newer |
| `MCDraftChain_dropped`, `NetFollows` | `server.js:3731` "exactly one more pass runs" | a delivery in the third pass is forgotten |
| `MCDraftChain_again`, `CashOnce` | `server.js:982` stripped "to prevent webhook re-trigger loops" | a delivery of another edit, made while the tag was on, records the payment again |
| `MCBuyPlan_fixed`, `PriceIsFixed` | `buy-plan/sweep.js:11-13` the follow-up "fixes the final price" | a draft deleted before the next copy comes back without its lock tag, and the plan waits for ever |
| `MCInstruments_both`, `LastWord` | `server.js:3826` "the apply has to be the last word" | the application writes the removal's trigger back, the next pass takes off what was applied |
| `MCInstruments_stale`, `HeldIsReserved` | `server.js:3303` freed "so it stops counting as held" | an update with the tag that removes a code comes again when the code is on another draft: it is freed there, by the tag |
| `MCLoyaltyBenefit_counter`, `CartOrCounter` | `loyalty/ledger.js:122` "the cart and the counter cannot both take it" | a draft takes the bonus only when converted |
| `MCLoyaltyBenefit_left`, `NothingLeft` | `loyalty/draft.js:257` the mirror goes too, or the engine would "re-apply it" | a refused second Apply deletes the record and leaves its mirror |
| `MCLoyaltyBenefit_stale`, `SaleIsKnown` | `loyalty/draft.js:351` "At conversion: record the in-store redemption" | an old update takes the tag `on` off, the record and the price stay, and the conversion goes by the tag |
| `MCRepair_requote`, `EstimateIsMailed` | `after-sales/index.js:1488` the customer "will receive their estimate email" | an estimate set again is never mailed |

(`MCSerial_fresh.cfg` is no trace: it passes, in about a minute.)

**Fairness.** `FairSpec` (`PlanSpec` of `BuyPlan`) gives weak fairness to the steps of a
run that has begun: an awaited call is answered or times out, and the event loop
runs every continuation. Beyond that: the interval of the poller, the daily and
six-hourly sweeps and the timers, which fire for ever; the delivery of webhooks and
callbacks, which Shopify and GoKwik repeat until answered; in `BuyPlan`, that days
pass. No customer, no staff action and no failure is fair, and no property depends on
one happening. Weak fairness is enough: a run's step stays enabled until it is taken.

## 5. Proofs

All proofs are about `Spec` (no fairness) for every value of the constants allowed
by the named assumptions of the modules: that classes of documents are disjoint, that
`None` is nothing else, that a draft is not named like the queues beside its own, that
bounds are numbers.

*`SerialProofs`.*

- `TypeCorrect`: types, and what a pass holds at each step (`StepData`, without
  which no step after `Lookup` can be shown to be typed).
- `LockHolds`, `PassesSoundHolds`: `OnePass` is inductive with the types: a pass on a
  locked document starts only if the document is not in `numbering`, and leaves it
  when it ends; a restart clears both. `LockSteps` says what any step can do to a pass.
- `OrderPrintsOnceHolds`: by `OnePass` and `OrderBlank`. Past its read a pass works on
  an order that prints nothing, and it is the only one that can print; so no step
  replaces a number. It holds under corrections, lost answers and restarts.
- `FirstMintsNeverShare`, `FirstMintsPermanent`: while `OnlyFirstMints`,
  `FirstMintInv` is inductive. That no two share a number is not: the hand-back could
  put the counter below a number in use. The strengthening is `CounterCovers` (the
  counter is at or above every number in use), with the fact that a number handed back
  is the pass's own tip, hence in nobody else's hands. `LedgerSteps`, `CounterSteps`
  and `HandSteps` say what one step can change, `NextNumbers` combines them.
- `FirstMintsAgreeHolds`: what is printed is what is recorded, and no two documents
  print one number. `PrintInv` adds to `FirstMintInv` that what a document prints, or
  a pass is about to stamp, is the number of its own row; `OwnWinner` is needed
  because the winner query of a voucher goes by code.
- `ReissueSafeHolds`: `ReissueInv` adds to the shared numbers that every document but
  the edited one is plain (its row active at its store, its passes past their lookup at
  that store), so that one pass renumbers, alone under its lock, and the
  number it reclaims is still its row's. Its draw then meets no other and its
  move succeeds. `AllocateNumbers`, `HandBackNumbers`, `RewindNumbers`, `WriteNumbers`
  say what each kind of call does to any set of numbers in use.
- `ImplementsSeriesHolds`: every step of `Serial` is a step or a stutter of
  `NumberSeries`, for any orders, chained drafts and notes without edits or
  failures (`Gapless`). A document's number is its row's or, before that, the one its
  pass has in hand; with one pass to a document (`Alone`, from the locks and from each
  note being a request of its own) there is one such number, a draw takes it in the
  abstract step and recording it changes nothing. `Fresh` (no pass that draws finds a
  row) excludes the lost race, whose hand-back is no step of the series.

*`TerminalProofs`.*

- `TerminalTypes`: types, and that a run holds the row its next call needs.
- `PaidIsRealHolds`, `RowsSoundHolds`, `PaidNeverFailsHolds`: by `Evidence`. An answer
  is used some awaits after it was given, so `PaidIsReal` is not inductive: the
  invariant says of each run about to write or record what Pine's transaction must
  be, of each row with a bad PTRID, live or as a tick read it, that Pine refused it,
  and `PineFinal` that what Pine has closed never changes. `TableSteps` and
  `RunEvidence` say where a PAID, a FAILED and a recording come from.
- `PollerCountsOnceHolds`: while only the poller asks, one tick at a time asks, settles
  and records (`OneTick`, from its flag); a row with a PTRID has had the answer of its
  upload, so nothing opens it again (`Answered`); a recorded row is closed (`Recorded`),
  so it is neither on a later list (`Listed`) nor in a tick's hand (`InTick`). The
  first two make the last three inductive: a list is read once and walked for many calls.

*`RepairLinksProofs`*, payment links (a repair is paid by such links; the two parts
share the module, not a lemma, and names that both models had carry a prefix in
`Links`). `LinkTypes`, `RecordsSoundHolds`, `SuccessStaysHolds`. The invariant is
types, `LinksGrounds` (every row, callback and request in hand has what it says behind it at
GoKwik) and, while `NoOverlap`, `OneAlive` (one link at most is open at GoKwik, has an
open row or a callback still to be handled), `OneCall` (one call of a callback at a
time) and `Right` (a row marked paid was paid
and recorded once at most, one recorded is marked or will not be called for again, and
a callback works on the row of its own link). The
newest open row is then the paid one, which is all the webhook's choice needs.

*`ChainProofs`.* `ChainTypes`, `LockHolds`, `ChainSoundHolds`, `PaymentsAgreeHolds`,
`FiguresAgreeHolds`. The lock
with its `DirectIdle` (a recompute never takes it) gives one chain; `Legs` says that
legs and deposits differ just by the payment a chain is between its two writes of;
`CashPhase` follows a cash tag while staff wait: on the draft and in every delivery
(`Tagged`), recorded by the one chain and still to be stripped (`TakenUp`), or off the
draft with no delivery that carries it (`Stripped`).

`FiguresAgreeHolds` says how far the figures can be trusted at all, which the run's two
events are too few to show. `NetPhase`: the net is the draft's, or a delivery, a trailing
pass or a chain that has still to read the total is there to make it so; what a run
writes is no older than what it read (`NetData`). `Settling` follows a lone chain from
`InStep` to `InStep`: the balance is derived when the net moves and again at the end of
the pass, so one failed call leaves one of the two, and a second may leave neither
(TLC shows that with two failures or with a chain that outlived its lock the balance can
stay behind, which is why `BalanceSettles` excludes them). `Once` lets any number of
recomputes run beside the chains of a draft edited once: figures move in one direction
only, so what was read earlier changes nothing (`OnceRead`).

The module also holds the theorems about `PlanSpec` of `BuyPlan`, for any schedule and
any overlap of restores and sweeps. `FinalPriceHolds` (a part of `PriceKept`): a sweep
writes the final price over a row it listed several calls earlier. `FinalKnown` says why
that is safe: a sweep about to write is the only one, and what it holds of the final
price and of a pending change still stands or has been overtaken by a plan started
afresh, whose final price is not set. `MarkedHolds` (a part of `ScheduleKept`): wherever
the process is restarted, a message marked as sent went out.

*`BenefitProofs`.* `BenefitTypes`, `RecordsAgreeHolds`, `BonusOnceHolds`,
`UsedStaysHolds`. What holds whatever overlaps or fails is `TypeInv`; the rest is
claimed under one condition after another on the case, which no step changes, and each
layer rests on the one below.

- `Calm` (requests one at a time, none fails): `OneBusy`; `ListsUnused`, since
  `supersedeCodes` and `expireCodes` write 'expired' by id: nothing on a list in memory
  is used before its turn.
- `Steady` (and no old update of a draft): `TagsFit` follows one pass over a draft by
  its `pc`: what it knows of tag and record, and which of the two it has still to write.
- `Prompt` (staff wait as well): `PriceFits` says that a price that is not `Right` is
  on its way to a reprice, or to a judgement of new lines; `SaleFits` that a sale is on
  its webhook, in the hands of the handler, or in the ledger with what its record says,
  and that a sold draft stays as it was. `NoLeft` adds that no mirror outlives its
  record, which is so only where Apply is not pressed twice (`Fresh`).
- `Narrow`: `OneClaim`. Who holds the bonus are the codes with it, good or ordered, and
  the drafts whose record has it (`Claims`), one at most; `BonusFree` sees all but the
  caller's own only because sales are heard of first (`FreeForMe`). While a promo
  replaces the codes of its cart there may be two, the new one among those that are
  still to be taken back, but none of them is on an order then.

*`PointsProofs`.* `PointsTypes`, `PointsAgreeHolds`, `ToldOnceHolds`, `RisesToldHolds`.

- `Alone`: without overlap one request is under way; a step moves only its own (`Solo`).
- `Refreshed`, where requests succeed: a copy is right or its customer is on the list of
  a refresh (`Pending`). `CopyRun` says how far that refresh is with the copy and with
  the two writes of the tags, and that the customer a row is taken from is the one
  read before, so that whoever loses or gains a row is on the list.
- `Followed`, where every change brings a delivery, in order: the newest delivery of an
  order is what the order is, then the payload kept is, then what the request knows
  (`LatestRun`), then the row; a redeemed note is excused while it is still to be
  recalled. With it the sweep finds nothing to do.
- `ToldSound`: nobody was told a tier above the one published, and a refresh about to
  mail knows the tier of before; this needs no successful calls. `RisesSound`: a tier
  published and not yet told is in the hands of a refresh that will tell it. It needs
  that a customer refreshed without a mail has not risen (`Unrisen`): the sweep
  republishes what is right, and one who lost a row cannot have gained points.
- The last point is a fact about sums over any number of orders: `SumLess`, with
  `SumNothing` for the start and `TierRises`. They are proved by induction on the size
  of the part added up, through the set of numbers it holds for (`Induction`, from the
  library's least elements), since a theorem that takes an operator cannot be used.

*`InstrumentsProofs`.* `TypeCorrect`, `HoldsAgreeHolds`, `PanelKeepsRedeemedHolds`,
`SalesAgreeHolds`, `SpentStaysHolds`.

- `HoldsAgree` speaks of the quiet moments, the steps are in between. So `Holds` says
  what ledger and drafts agree on *plus* what the one request in flight still owes:
  `Alone` (a code is on one open draft), `Reserved` and `OnDraft` (ledger and drafts
  name each other) are each excused for the code and draft the request has in hand, and
  `Coupled`, `Moving` say what that hand holds at each step. `NeverBoth` and `Blank`
  make a removal free only what its draft held.
- The panel asks for the row before it reopens it. `Unspent` carries that answer to the
  write: with requests one at a time nothing redeems in between, whatever fails.
- `Live` is for prompt sales: `Settling` says that a document that was given a value is
  in its webhook, in the hands of the conversion or in the ledger; `Tagged` that an open
  draft's tag names the code it holds, so that the conversion redeems what was deducted;
  `Asked` and `Straight` that nothing is swapped, so that no release is under way.
  `SpentStays` follows from its steps (`Kept`), not from `SalesAgree`.

*`AdvanceProofs`.* `AdvanceTypes`; `SettlesOnceHolds`, for requests one at a time
(`OneRequest`) that do not fail and conversions heard of once (`Orderly`). That an
advance is on one bill is not inductive: an absorbing pass has put its leg on the sale
before it closes the order. `SettleInv` says when the order may be open at all.
`ToldOnce`: an order has no word of its advance until its one conversion is taken up,
and what a tag names was reserved. `Held`: an order with a leg anywhere is closed, or
the pass that put it there is about to close it. `Settling`: an order told "open"
though a piece was sold beside it is in the hands of the conversion that will close it.
`Knows`: what a request has read is still so. With these a pass past the gate finds no
leg at all, so that its leg is the first; `Keeps` is what most steps leave alone.

`FinalStaysHolds` is the property of steps `FinalStays`: the register's last words are
last, with requests one at a time and none failing (`Calm`), but with webhooks late
and repeated, drafts deleted with an advance on them and values rejected. It needs
`FinalInv`, which TLC checked first. `Own` ties the two rows of an advance to its own
document: a row under the order's name only once the order has word of it, closed only
for a reason the document shows, and a piece sold beside the advance with its row
reserved for that very sale. `Shared` ties the order's row to other bills: a tag names
an advance only if the row is that sale's (`Bound`) or is about to be. It has the way
out the property has: when a conversion is replayed the order says open again, a second
bill can absorb the advance, and the row then follows it (`Twice`). `Heard` keeps
webhooks true until they are handled; `AtRun` is what a request knows, call by call,
`Free` being what the gate has seen of the row. `ClosedRow` then goes through the
writers of rows: each finds the row open or reserved, or gives it the status it has.

`AccountsAgreeHolds`: at rest document, register, bills and money given back agree.
Rest is all the property speaks of, and between two rests each of the four is behind
the others in turn, so the invariant (`AccountInv`, checked by TLC before it was proved)
tells the `Story` of an advance at every step: its document, its two rows, the webhooks
still to come about it and the work (`Work`) the one request under way (`Now`) has in
hand on it. `Early` and `Drafted` are the story while the draft's row counts, `Ordered`
when the row has moved to the order's name, `Lost` of a deleted draft, `Lined` of a line
that is still to be removed, `Returned` of a refund that is still to be written.
`Billed` says of which bills carry the advance when they may, `Carried` that what is
reserved or spent is on one, each excused for the call that makes it so; `HooksKnow`
and `RunKnows` say that webhooks and the request in flight are not behind the document.
One lemma per write (`...Story`) says what the write makes of a story, whoever does it;
the lemmas per call then find the story and the write that fit. Without webhooks,
without work and with no edit unread, a story is what the three parts of `AccountsAgree`
say (`RestRegister`, `RestSpent`, `RestReturned`). The other cases are excluded because
the accounts do part there: after a failing call, a second delivery or two requests at
once nothing repairs the register (section 4 and the hazards of `PROJECT.json`).

*`RepairLinksProofs`*, repairs. `RepairSoundHolds` and `MoneyAgreesHolds`: both
properties of the run, for any number of slots, any prices and any number of events. A
case's troubles never change, so `IInv` is a stack of parts, each claimed for the cases
it holds in and resting on those before it; TLC checked it before it was proved.

- In every case: `TypeInv`; `Ordered` (nothing is quoted or paid before a price is set,
  and none is set before the intake mail); `Unbalanced`.
- `Apart`, where requests do not overlap: until its first write a request works on the
  draft as it is, since no pass runs and none is due. `Afforded` adds, where nothing is
  entered again, that the price never rises above what was collected once a payment is
  under way: that is `NothingInvented`, which holds even where calls fail.
- `OrderlyInv`, where no call fails either. `ToldOnce` is not inductive: a mail goes out
  one call before its mark. `ToldInv` has the mark or the pass about to write it, `View`
  what a pass read that is still so, `Passes` and `Tidy` that what is due finds a
  webhook or a pass to take it although webhooks coalesce and a chain has three passes,
  `Sense` that one step is due at a time. `Priced` gives `PriceStands`, `RefundInv` the
  one voucher.
- `QuoteInv` and `PaidInv`, where only notifications are late or come twice: there is one
  estimate and its amount is the price (`EstimateInv`), and what was paid on it is
  recorded or in the hands of a notification that will record it (`OnItsWay`).
- `FairInv`, where notifications come in time: the ready mail was worked out with the
  payment known, and nothing it was worked out from changes before it is sent or after.
- `BackInv`: what a refund gives back comes from a final price that stands.

Only model-checked: liveness and the fairness behind it (`CatchesUp`,
`EventuallyUsed`, `AdvanceEnds` and the like), which the prover cannot reach, and the
rest of `BuyPlan`: `MoneyKept` and the other parts of `ScheduleKept` are about sums of
payments and a schedule replayed from them; the way of `PointsProofs`, induction through
a set of numbers, could be followed there, and has not been. `CopyKeepsPrice`, the other
part of `PriceKept`, holds in the run's cases and not in all (with a reprice
asked for on an edited draft the copy takes the price of the edit), so no theorem states
it. Every other invariant that a run checks is proved.

## 6. Not modelled

`modules/pricing`, the arithmetic of legs and refunds and the report queries compute
figures from figures; where the order of such a computation against a payment
matters it is in `DraftChain` or `BuyPlan`, with prices as values. Procurement copies
rows between Shopify, a sheet and a table. The Shopify client is a cached token and
retries: in the models a call succeeds, fails or loses its answer. The lookbook is a
snapshot replaced as a whole. Mail, forms and reports keep no state; the extensions
run in the browser (their use of tags is staff's in the models) and the older copies
of modules and the spreadsheet scripts are not part of the service. These make up
most of the repository's lines, which is why the map covers a small part of it.

Amounts are model values or small numbers: a payment is counted, compared or replayed
by a schedule, not added up over rupees. Webhook signatures, sessions and tokens are
left out: a delivery in the models is an authentic one. More than one server
process is left out because the deployment runs one machine (`fly.toml`, and the
comment at `serialization/routes.js:64`).

Some hazards of this code have no property because no document promises anything or
because the part they are in has no model: the financial year in the counter key (a
repair draft tagged again after 31 March is re-issued), `cancelSerial` by sequence
across stores, `allocateAndStamp` without a ledger row, a stamp that failed and is not
repeated, a final change price taken before the collect figure followed, two open
links of one plan, a discount whose ledger row was not inserted, a backfill that
credits another customer than the one who asked, and the reminders of advances, whose
guard is saved once after the whole loop of mails.
