# TLA+ models of txtlocal

txtlocal is a bulk SMS service: an API on AWS Lambda, one DynamoDB table, SQS
queues and an EventBridge schedule around it, AWS End User Messaging as the
provider, Stripe for the money, and a dashboard in React that its customers
use. The backend is a set of Python *slices*
(`src/src/txtlocal/slices/<slice>/{service,repo,router,...}.py`) and a set of
*entrypoints* (`src/src/txtlocal/entrypoints/*.py`), one for each Lambda; the
dashboard is in `src/frontend/src`.

*In the backend* no process holds a lock and none holds state. All the safety of the
system is in DynamoDB's conditional writes and transactions, and in the order in which
a handler makes them between its awaits. SQS delivers at least once and in any
order, so do SNS and Stripe's webhooks, and a Lambda may die between any two
awaits.

*In the dashboard* there is one thread and one tab, and still much that is
concurrent: every call is answered late, out of order, after the screen that made it
was left, or never; lists are polled and fetched again under the dialogs that stand
on them; several calls meet an expired token at once. Both are modelled here.

## 1. Files

| file | what it is |
|---|---|
| `SendOnce.tla` | what the send path promises the campaign it sends for (abstract) |
| `Messaging.tla` | the send path: jobs, workers, rows and markers, provider, delivery events; implements `SendOnce` |
| `Campaigns.tla` | the life of a campaign: draft, reservation, schedule, tick, fan-out, counters, settlement, sweep; composed with `SendOnce` |
| `Billing.tla` | an account's money: debits, automatic recharge, billing-charge, webhook credits, the low-balance alert, and the contact details saved on the same item |
| `ApiSend.tla` | a send through the developer API: idempotency record, reservation, dispatches, settlement |
| `Rentals.tla` | a dedicated number: purchase, the daily renewal run, cancellation and release |
| `Replies.tla` | replies of a person: opt-out, duplicate marker, rules, inbox |
| `Lists.tla` | contact lists and the counter each keeps |
| `SignIn.tla` | invitations, first sign-ins and the hooks of a new account |
| `WebSession.tla` | the dashboard's session: tokens, redirects to sign-in, the client that refreshes and retries |
| `QueryClient.tla` | which queries a mutation makes stale, and what becomes of a fetch under way (operators) |
| `CampaignEditor`, `QuickSend`, `Inbox`, `ContactList`, `ContactImport`, `TopUp` | the screens with a logic of their own |
| `Dialogs.tla` | the eighteen panels that are a list with dialogs, forms and row buttons, as one machine and a table |
| `Tables.tla` | the five screens that are a table with filters and a pager |
| `Services.tla` | the five services `ApiSend` to `SignIn` side by side: their constants, state and assumptions |
| `Application.tla` | the dashboard's session and screens, and those services: the composition |
| `MCMessaging`, `MCCampaigns`, `MCBilling`, `MCApiSend`, `MCApplication` | constants and symmetry for TLC, with their `.cfg` files |
| `MessagingProofs`, `CampaignsProofs`, `BillingProofs`, `WebSessionProofs`, `ContactImportProofs` | theorems of one component and their proofs |
| `ServicesProofs`, `ScreensProofs`, `ApplicationProofs` | the invariants and types of the services and of the screens; their composition, and the theorems of `Application` |
| `PROJECT.json` | the inventory in machine-readable form: components, runs, mutants, the source lines of every definition, findings, hazards, theorems |

Sources are given below relative to `src/src/txtlocal/`, those of the dashboard (with
`.ts` or `.tsx`) relative to `src/frontend/src/`, unless they start with `src/`.

## 2. Inventory

| component | state | operations | hard because | correct when | status |
|---|---|---|---|---|---|
| **messaging**, send path (`slices/messaging`, `entrypoints/send_worker.py`) | message row, `SENT#` marker, `CAP#` day counter, the `send-jobs` queue | claim (row and marker in a transaction), lookup, opt-out check, cap, attempt fence, gateway call, `mark_sent`/`refuse`, record the outcome | at-least-once jobs; two invocations on one job; death after the provider answered | a person is texted once; the campaign is told the truth once | modelled: `Messaging` |
| messaging: quotes, templates, media, history | their own items | reads and single writes | - | a quote covers every part | not modelled (the quote is a constant of `Campaigns`) |
| **delivery-events** (`entrypoints/delivery_events.py`) | the same row; the campaign's counters | apply event, count it | events repeated, reversed, before the worker's own write | a status only advances; one final status is counted once | in `Messaging`, but for the report webhooks it queues |
| **campaigns** (`slices/campaigns`) | campaign item with status, counters, cursor, `reservedMicro`, `settledMicro`, GSI1 listing | create, save, delete, schedule, quick send, cancel, claim, fan out, advance, record outcome, complete, settle, sweep | tick, cancel, counters and sweep race, each on a row read earlier | sent once, billed for what was sent, refunded once, always settled | modelled in part: `Campaigns` |
| **scheduler** (`entrypoints/scheduler.py`) | none | each minute: due campaigns, stuck ones; sweeps of senders and websites | overlap with requests and counters; an error in one item | everything listed is looked at again | campaign half in `Campaigns` |
| **billing** (`slices/billing`) | `balanceMicro`, `rechargeInFlight`, the toggle, alert mark, ledger rows, `EVENT#` markers | reserve, settle, recharge, credit, decline, alert, settings; rentals | decisions on a balance read before the debit; two paths credit one payment; identity writes the same item | no negative balance, every payment credited once, one recharge at a time | in `Billing`, rentals in `Rentals` |
| **billing-charge** (`entrypoints/billing_charge.py`) | the `billing-charge` queue | charge, credit, decline, abandon | answers lost, jobs delivered again | no double charge, no lost credit | modelled: `Billing` |
| **stripe-webhook** (`entrypoints/stripe_webhook.py`) | none | credit a recharge or a top-up; default card | races the charge's own answer; repeated | as billing | crediting events in `Billing` |
| **billing-renewals** (`entrypoints/billing_renewals.py`) | `EVENT#` by period, renewal attempts on the number | charge a rental, record, retry, release | a crash between charge and record | a period is charged once, an unpaid number released | modelled: `Rentals` |
| **senders** (`slices/senders`) | sender and number items | verify, buy a number (rent, then its row), cancel, release, sweep | the purchase spans a debit and a write; cancel, sweep and run race | a number paid for is owned; one not paid for is given up | numbers in `Rentals`; alpha tags and verification are single writes |
| **inbound** (`entrypoints/inbound.py`) | message rows, opt-outs, the duplicate marker | attribute, opt out, record, run rules | the marker comes before the effects; handlers die; deliveries overlap | a STOP is never lost; nothing is done twice | `Replies`, but for e-mail to SMS |
| **inbox** | conversation rows, unread counters | note a reply, read, archive | at most one note for a reply | what came in is counted once | the note in `Replies`; the rest are single updates |
| **automation** (`slices/automation`, webhook dispatcher) | rules, webhooks | match, act, dispatch, retry | rules run after the marker | a rule acts once on a reply | rules in `Replies`; webhook jobs are not modelled |
| **developer API** (`slices/developer`) | idempotency record, landing campaign, API keys | send: price, reserve, dispatch, settle in one request | a retry while the first still runs; dispatches that raise; requests that die | one key, one send; billed for what was not refused | `ApiSend`; keys and subscriptions are single items |
| **contacts** (`slices/contacts`) | lists, members, a counter | add, update, remove, import, bulk, clean up, delete a list | counter and items in separate writes | the counter agrees with the items; opt-outs stay | `Lists`; an audience in `Campaigns` |
| **identity** (`slices/identity`) | users, pointers, accounts | invite, first sign-in and its hooks, link, update; the contact details | two first sign-ins at once; hooks that die; whole rows written back | one user for a person | `SignIn`; the contact details in `Billing` |
| analytics, short links | rollup marker, clicks | nightly rollup, redirect | one run a night | - | not modelled |
| bus, shared infrastructure, API wiring, documents | none relevant | - | - | - | bus: partial batches and half-made sends are in the models; else not modelled |
| **web: session and client** (`lib/auth.ts`, `api/client.ts`, `app/shell`, `screens/auth`) | tokens in memory, the handoff in `sessionStorage`, calls under way | call, refresh, retry, redirect, exchange the code, sign out, reload | each call refreshes on its own; redirects overwrite one handoff; the network drops answers | no call is acted on twice; nobody is left on a screen of refusals; a code is exchanged once | modelled: `WebSession` |
| **web: query client** (`api/queries.ts`) | each query's data and fetch | fetch, poll, invalidate | a refusal replaces data; a fetch is joined, kept or given up | what the user was told is what he sees | operators of `QueryClient`, state in the screens |
| **web: campaigns** (`screens/sms/campaigns`) | the form: draft, dirty, price, dialogs | edit, upload, save, price, schedule, leave, discard | saves and prices answer after further edits or another form | clean means saved; scheduled as priced | modelled: `CampaignEditor` |
| **web: quick send** (`screens/sms/quick`) | the draft, the dialog, quotes | edit, upload, quote, send | a quote or an upload answers under the dialog; the composer is unmounted | sent once for each dialog, at a price for that very draft | modelled: `QuickSend` |
| **web: inbox** (`screens/inbox`) | the selection, the reply, polled queries | open, read, reply, close, poll | answers of what was left; polls against invalidations | own changes and new messages are shown; no answer moves the user | modelled: `Inbox` |
| **web: contacts** (`screens/contacts`) | the open list, its page and ticks; the import's run | open, page, tick, bulk; import in chunks | the open list is deleted under the user; a chunk fails; the modal closes | a bulk action names contacts of its list; a report means all rows are in | modelled: `ContactList`, `ContactImport` |
| **web: panels and dialogs** (senders, templates, rules, websites, keys, cards, settings, profile, home) | a list, a dialog or form, requests | open, submit, verify, close, row buttons | the list's refetch takes the panel away; the wrong dialog hears an answer | one request for each opening; changes are shown | modelled: `Dialogs` |
| **web: top-up** (`screens/billing/top-up`) | packages, balance, the polled outcome, checkouts | buy, poll, refocus | checkouts supersede one another; PAID while the balance is being fetched | the last checkout opens; PAID is in the balance | modelled: `TopUp` |
| **web: history, reporting, usage, logs** | filters, trail of cursors or page, cache | filter, page, refetch | answers out of order; the last choice's rows stand in; rows go under a later page | what is shown is what is chosen | `Tables`, but for exports and the drawer |
| web: landing, API docs, transactions, exports, components, segment rules | none, or one query | - | - | - | not modelled |

How the parts talk:

```
 request --reserve--> billing <--credit-- stripe-webhook <--- Stripe
    |  schedule          |  ^                                   ^
    v                    |  +--credit/decline-- billing-charge -+
 campaign row            +--recharge job------------^
    ^   ^  \ scheduler tick: claim, fan out
    |   |   v
    |   |  send-jobs --> send worker --> provider --> delivery-events
    |   +----- record_outcome -+                          |
    +----------- record_delivery -------------------------+
```

- A request calls `BillingService.reserve` and `settle` in its own process; each is
  one transaction of the balance and a ledger row.
- The tick reads the `due` and the `sending` partitions of GSI1 and writes the
  campaign row; it queues `send-jobs` in batches.
- The send worker reports each outcome with an `ADD` on the campaign row, reads
  the new values back from that same write, and completes the campaign itself
  when everybody is accounted for.
- `reserve` may queue a recharge job; billing-charge (one invocation at a time)
  charges the card and credits the account; Stripe's webhook credits the same
  payment through the same `EVENT#` fence.

- An API send reserves, dispatches (the same `MessagingService.dispatch`) and settles in
  its own process, under the record of its Idempotency-Key.
- A number's rental is debited by the request that buys it and by the daily run, through
  one `EVENT#` fence for each period.
- A reply is attributed by the provider's id of the message it answers; opting out writes
  to the opt-out list, which the dispatches read.
- `identity` keeps the name and contact details on the item that `billing` keeps the
  balance on.
- The dashboard calls the API through one client, which adds the tokens; screens share
  nothing else but the query client and its table of what a mutation makes stale.

The hazards of this code, line by line, are in `PROJECT.json` under `hazards`,
each with the properties that would catch it, or with why none does yet.

## 3. Plan

1. `SendOnce`, `Messaging`: the send path, and its promise. *Done.*
2. `Campaigns` on top of the promise. *Done.*
3. `Billing`: debits, recharges, credits, and who else writes the item. *Done.*
4. Proofs of the three: types, every safety invariant, the refinement of `SendOnce`. *Done.*
5. The dashboard: `WebSession`, the screens one by one, their composition, and the theorems
   of the session and of the import. *Done.*
6. The services around them: `ApiSend`, `Rentals`, `Replies`, `Lists`, `SignIn`, composed in
   `Application`. *Done.*
7. Theorems of the services: `OptOutsAreKept`, `CountAgrees`, `RepeatsActOnce`,
   `BilledOnce`. *Done.*
8. Theorems of the dashboard's screens: an inductive invariant for the tables, the panels,
   quick send, the inbox, the top-up, the contacts and the campaign editor, and every safety
   property of theirs that `application` checks. *Done.*
9. The types of `Application`: of its fourteen sections, each on the invariant of its own.
   *Done.*
10. What would follow. The queue of webhook jobs, and the quote (`per_message_quote` over
   parts, countries and alpha prices) against a reference definition.

## 4. The modules and the code

All modules read the same way. A *process* (`worker`, `task`) is one request or
Lambda invocation; `at` names the await it is in front of, and one action is
what the handler does up to its next await: one DynamoDB call with its
condition, one gateway or Stripe call, or one queue call. A process carries what
the code carries in local variables (a row read earlier, a flag computed from
it), and so acts on stale data whenever the code does. A condition of a write is
judged on the row as it is at that moment; a condition that fails is an
alternative of the same action (`condition_failed_as_false`). Conditional
writes are linearizable, and a read followed by a conditional write behaves as
if it had been made at any earlier time, so eventually consistent reads add
nothing to the delay between two steps.

### SendOnce and Messaging

`SendOnce` has two variables: the *fate* of each recipient (open, accepted by the
provider, refused before the provider saw it) and what the campaign's counters
were *told*. A recipient meets one fate, and is told of at most once, truthfully.
It may never be told of.

`Messaging` is `MessagingService.dispatch` (`slices/messaging/service.py`), the
`send_worker` around it, `delivery_events`, and SQS.

| model | code |
|---|---|
| `row[r]`: status, `attempted`, `stale` | the message item and its `SENT#` marker; `attemptedAt`; `queuedAt` older than `STALE_CLAIM` |
| `Receive`, `Ack`, `Redrive`, `Crash` | SQS deliveries, `batchItemFailures`, the redrive policy, a Lambda that dies |
| `Claim` | `repo.claim`: row and marker put in one transaction |
| `FindClaim` | the lookup of the marker's row, and `is_stale_claim` |
| `CheckOptOut`, `CountSend` | the opt-out check, and `_is_over_daily_cap` (ADD first, compare after) |
| `ClaimAttempt` | `claim_attempt`: `attemptedAt` set once on a `QUEUED` row |
| `GatewayAccept`, `GatewayReject`, `GatewayFail` | the provider's answers; an upstream error leaves it open whether the message was taken |
| `Refuse`, `MarkSent` | the conditional status writes |
| `RecordOutcome` | `CampaignService.record_outcome` called by the worker |
| `ApplyEvent`, `RecordDelivery`, `HandlerCrash` | `apply_delivery` and the count after it |
| `Age`, `OptOut` | sixty seconds on `queuedAt`; an inbound STOP |

A recipient is a (campaign, destination) pair, which is what the marker is keyed
by. `Promise == INSTANCE SendOnce WITH ...` maps *accepted* to fate accepted, a
`FAILED` row that was not accepted to refused, and the counters to `told`.

### Campaigns

`Campaigns` is one campaign and everything that writes to it
(`slices/campaigns/service.py`, `repo.py`). The send path is not repeated: `Send ==
INSTANCE SendOnce WITH Recipients <- People` gives `Dispatch` and `Tell` their
meaning, and `KeepsPromise` of `Messaging` is what entitles it to.

| model | code |
|---|---|
| `row` | the campaign item; `index` is its GSI1 partition, `claimed` and `progress` the ages of `claimedAt` and `lastProgressAt` |
| `ledger` | SEND and REFUND rows of this campaign and the balance they move |
| `CreateDraft`, `SaveDraft`, `DeleteDraft`, `EditList`, `OptOut` | requests of one write |
| `StartSchedule`, `QuickSend`, `Reserve`, `Schedule` | `schedule`, `send_quick`: quote, `billing.reserve`, conditional flip |
| `ClaimDraft`, `HandOut` | `_fan_out_now`, which writes no cursor |
| `StartCancel`, `CancelScheduled`, `RefundAll` | `cancel` |
| `StartTick`, `Claim`, `Load`, `PlanFail`, `SendBatch`, `SendFail`, `Advance` | `claim_and_fan_out`, `_fan_out`, its batches and `is_abandoned_fanout` |
| `Tell`, `RecordDelivery` | `record_outcome`, `record_delivery` |
| `Complete`, `Credit`, `MarkSettled` | `_complete`, `_settle_reservation`: `COMPLETE_WHEN_COUNTED`, `billing.settle`, `MARK_SETTLED` |
| `StartSweep`, `ClearIndex` | `settle_stuck` |
| `AgeClaim`, `AnHourPasses` | `STALE_CLAIM` and `STUCK_AFTER` |

What the counters say is data the properties need, so they are numbers; an
audience is a sequence of people, because the cursor is a position in it.

### Billing

`Billing` is one account (`slices/billing/service.py`, `repo.py`), billing-charge
and the webhook.

| model | code |
|---|---|
| `account` | the billing attributes of the account item; `inFlight` is `rechargeInFlight` and its age against `RECHARGE_IN_FLIGHT_TTL` |
| `job`, `queue`, `charge` | recharge jobs, the queue, and what Stripe made of each idempotency key |
| `credited` | the `EVENT#` items, each written with its `TOPUP` row |
| `StartReserve`, `Debit`, `AskRecharge`, `Enqueue`, `Alert` | `reserve` and what it does after the debit, decided on the balance read before it |
| `Refund` | `settle` |
| `StartJob`, `Charge`, `ChargeError`, `ChargeLost`, `Decline`, `Abandon`, `Credit`, `Rearm` | `billing_charge`: every answer of the card charge |
| `StartWebhook`, `Webhook`, `ClearAlert` | `stripe_webhook` |
| `StartSaveContacts`, `SaveContacts` | `update_contact_details` of identity: the item is read, and put back whole |
| `SaveSettings`, `Pay`, `TrialEnds`, `AnHourPasses`, `Crash` | the toggle, checkouts and pending payments, the trial, time and faults |

The save of the contact details undoes what was written since it read (section 8), so the
properties say what remains true: `overwritten` is what those saves added to the balance,
and the balance adds up but for that.

`Billing` and `Campaigns` meet in `reserve` and `settle`: the ledger of `Campaigns`
is one campaign's share of `spent`. They are checked apart because nothing a
campaign does depends on the balance beyond "covered or refused", which `Reserve`
leaves open.

### The dashboard

A screen is a thread that is never interrupted, so an action is what one event does: a
click, an answer, a tick of a timer, an effect after a render. What makes it concurrent
is what comes between. The API behind a screen is taken by what its handlers may do to
what the screen shows, without their parts: it acts on a call or does not, the answer
comes at any later time or says nothing of what was done, and a list is as long as its
*version*, which each change raises. A request is a record in a *slot*, and lives on when
the dialog that made it does not.

`WebSession` is one tab, over all of its documents.

| model | code |
|---|---|
| `page` | the document on show: `Shell` (screens, landing, blank), the callback's stages, the provider |
| `tokens`, `renewable`, `handoff` | the module state of `lib/auth.ts`; `sessionStorage`, which outlives a document |
| `redirectToSignIn`, `AssignAuthorize`, `Unload` | the handoff is stored, the challenge awaited, `location.assign` called, the document left |
| `refreshAccessToken`, `refreshFails`, `signOut`, `completeSignIn`, `takeHandoff` | the functions of those names |
| `callApi`, `Answer`, `sendAuthorized`, `reach` | `api/client.ts`: each call refreshes on its own after its first 401 and is sent once more; `callApi` never throws |
| `Reload`, `ReloadCallback`, `Forget` | memory dies with the document |

`QueryClient` has the semantics that the screens rely on: a refusal is data like an
answer (`api/client.ts` returns a result, `api/queries.ts` caches it); `invalidate`
fetches active queries again and gives up a fetch under way only where there is data to
fall back on, so a first load is joined; callbacks given to `mutate` are dropped once the
component is gone and only the latest call's are run, those of the mutation itself and
what follows an awaited `mutateAsync` are not.

| module | code | what its state is |
|---|---|---|
| `CampaignEditor` | `screens/sms/campaigns` | the form with its draft, `isDirty`, what it is at (saving, pricing, asked to leave); saves and prices under way; what is stored; the cached copy the next form starts from |
| `QuickSend` | `screens/sms/quick` | the composer, the quotes by the draft they are of, the dialog that confirms, the sends it made |
| `Inbox` | `screens/inbox` | which peer is open, the reply being typed, the three queries, a five-second poll |
| `ContactList` | `screens/contacts` | lists and members, the open list, its page (cursors), its ticks; bulk actions under way |
| `ContactImport` | `screens/contacts` (`ImportModal`, `importRows`) | the modal, and the runs, each with its chunk, totals and last answer. A file is the sequence of its rows' numbers; what the API puts and reports of a chunk is `import_contacts` (`slices/contacts/service.py:399-424`): rows without a number are skipped, of rows with one number the last is kept, and any of those that are put may have been in the list |
| `Dialogs` | eighteen panels and their modals | a panel (a row of a table: which dialogs it has, where its mutation lives, what is open while it is pending), its list, the dialog, requests |
| `TopUp` | `screens/billing/top-up` | the checkouts under way and the one asked for last, to which the browser goes; the outcome polled every two seconds; packages and balance |
| `Tables` | history, reporting, usage, logs, rules | what is chosen, the cache by the key of the query, the answer on show |

### The services

| module | code | its state |
|---|---|---|
| `ApiSend` | `idempotent` (`slices/developer/router.py`), `send` and `_send_priced` (`slices/developer/service.py`) | the record of each key, what each request is at, the outcome of each dispatch, the claim behind the marker of landing campaign and destination; a dispatch is *accepted*, *refused*, a *duplicate*, or raises |
| `Rentals` | `buy_number` and the sweep (`slices/senders/service.py`), `charge_rental` (`slices/billing`), `billing_renewals` | the number's row, the charged periods, the purchase, the run and the sweep, each with what it read |
| `Replies` | `handle_body` (`entrypoints/inbound.py`), `run_inbound` (`slices/automation/service.py`) | deliveries, handlers, the marker, what each rule and the inbox did |
| `Lists` | `slices/contacts/service.py`, `repo.py` | a standard list and the opt-out list, their counters, and the writers with what they read (room, existing numbers) |
| `SignIn` | `open_session`, `create_owner`, `update_user` (`slices/identity/service.py`) | the pointer of each sub, the invited user's row, each request and its hooks |

Each names the code's functions in its comments, and each `Break`, `Die`, `Raise`, `Halt`
or `Fail` is a process that ends between two awaits: a Lambda that dies or an exception
nobody catches. In `Lists`, a batch write that stops half way has written any part of it.

`Lists` has four history variables. `out` and `released` say who was opted out and who
was taken off the opt-out list by a user. The other two are there because the code's counter
is not always right (section 8). `blurred` says which lists were written to while a batch
went by what it had read of them, or were left by a batch that died: their counter may be
wrong by any amount, and `CountAgrees` is about the others. `restored` counts the contacts
that the second put of `upsert_contact` puts back, after its transaction was refused and the
contact was deleted: no batch is needed for that, and nothing counts them. So what
`CountAgrees` says is not that the counter is the number of contacts but that it is short by
exactly those: the other writes of single contacts, and each batch on its own, keep it.
Without `restored` in it, TLC finds it violated by an update and a delete of one contact.

### Application

The screens do not write one another's state, nor do the five services. So `Application`
lets a behaviour pick one *section* at its start, and the others are at rest; the product
of their states would repeat each section's behaviours and add none. (What the parts of
the send path share is composed for real, in `Messaging`, `Campaigns` and `Billing`.)
Properties that say the same of several sections are stated once, in `Application`.

### Assumptions

- An audience holds a person once: contacts are keyed by number in a list, and a
  quick send removes duplicates (`CampaignsAssumption`).
- `SENT#` markers and `EVENT#` items do not expire within a behaviour. A marker lives
  for two days (`slices/messaging/repo.py:43`), longer than SQS redrives on its own; an
  operator who redrives the dead letters by hand later than that sends again.
- The key of a REFUND row is the campaign's, so `settle` writes it once.
- One `Amount` stands for recharges and top-ups: what matters is that each payment
  adds its own amount once.
- An account without a Stripe customer, or with the toggle off, is answered like
  any job that billing-charge gives up (`abandon`).
- Refunds of `Billing` stay within what was spent, which is what
  `RefundWithinDebit` establishes for campaigns.
- `MaxSends <= Cardinality(Jobs)`: there is a fresh job identifier for each debit
  that may want one, as `uuid` gives the code.

## 5. Runs

Each passing run is exhaustive. Two processes give every race of two handlers, each
stopped at any of its awaits; the conditions they race on are all on one item, so a
third mostly repeats those races, and for the properties that are proved (section 7)
the number does not matter. Bounds count the unbounded things (crashes, copies, receives,
edits, debits, hours) and are named `Max...`.

| run | states | question and answer |
|---|---|---|
| `send_path` | 229 275 | One recipient queued twice, its jobs in two invocations at once, a crash or an unclear gateway answer, redelivery, events in any order. The provider is asked once (`AttemptedOnce`); a row never goes back (`RowOnlyAdvances`); one delivery is counted (`DeliveredOnce`); where nothing dies each job is counted in the end (`EveryJobAnswered`). The cap is not hit here, it is in the next run. |
| `send_path_serial` | 182 644 | Two recipients, two workers, a cap of one, two crashes, jobs of one recipient one after the other. `CapRespected`, and the refinement `KeepsPromise`. |
| `campaign_life` | 1 740 870 | Lists of up to two people in batches of one, so that there is a middle batch; two processes, one crash or half-made batch, one edit, two debits, silent hours and failing plans. `RefundWithinDebit`, `RefundOnlyWhenOver`, `CancelledSendsNothing`, `NeverOrphaned`, `TerminalIsFinal`. |
| `campaign_bill` | 729 763 | A person abroad who is refused by country, batches of two over lists of two and three, two crashes, a quote that rounds up. `AccountedFor`: everyone is counted once as queued or refused, outcomes never exceed the queued, and where nothing died they meet; `BilledAsSent` where nothing died. |
| `campaign_settles` | 65 998 | Under fairness, with a crash anywhere and outcomes that need not come, what is `SENDING` is settled (`SettlesInTheEnd`). |
| `billing_money` | 1 330 308 | Two debits, two recharge jobs, a top-up, refunds, one hour, and one fault or one save of the contact details. `TypeOK` (no negative balance), `BalanceAddsUp`, `InFlightMeansOne` (without faults the mark stands for a recharge under way, and without hours and saves there is one at a time), `AlertedOnce`. |
| `billing_credits` | 64 242 | Under fairness, every captured payment is credited (`EveryChargeCredited`), with billing-charge failing in any way. |
| `application` | 980 575 | Every section, from its first state. *Dashboard*: two calls and the opening call, two tokens, three redirects (`ActedOnOnce`, `UnrenewedIsRedirected`, `LastRedirectReturns`); a form with two changes of its picture and two requests out (`CleanMeansSaved`); two mounts of the composer and two dialogs (`SentAsQuoted`, `AskedOncePerDialog`); each of the eighteen panels with two requests; two peers and two moves (`OwnChangesShown`, `AnswersMoveNobody`); two lists, pages of one and two (`BulkActsOnItsList`); two imports over two modals, of a file without rows, one without a column of mobiles, and one of four rows in chunks of two, with a number twice in a chunk and again in the next, and a row without one (`ReportMeansAll`); two checkouts; four fetches of two filters and up to two rows (`TableShowsWhatIsChosen`). *Services*: two API requests that may repeat a key, batches with a number twice, one break, a key that expires; two rentals on the balance, three periods, two deaths, one retry; two replies, two handlers, one rule, two crashes, two deliveries of each; two writers on a list and the opt-out list, two numbers, a ceiling of two; two people with one address and two hooks (`RepeatsActOnce`, `BilledOnce`, `OptOutsAreKept`, `CountAgrees`). |
| `application_live` | 24 124 | Under fairness: screens without tokens do not stay (`SignedOutLeaves`); a message of the open thread, and what became of a checkout, is shown (`NewsIsShown`); a rental that is due is renewed or given up (`DueIsDecided`). |
| `contacts_overwrite_balance` | violated | `BalanceIsTheLedgers` fails when a debit comes between the read and the put of the contact details. |
| `fanout_never_starts` | violated | `SettlesInTheEnd` fails when the fan-out fails before its first batch. |
| `api_second_send` | violated | `BilledIsSent` fails for the second API message to a number. |

The conditions in the properties are part of what the runs show. `Overlap = FALSE`
in `send_path_serial` is needed: with overlapping invocations a recipient can be
refused and accepted at once (section 8). `BilledAsSent`
and `AccountedFor` ask that nothing died, because a dispatch that dies after the
provider answered is never counted, by design (`src/specs/01-dynamodb-data-model.md:813`),
and that no hour passes in silence, because the sweep then settles with what is
counted. `campaign_bill` has no edits, because a list that grows under a fan-out
breaks them (section 8).

In the dashboard, two of anything that can overlap is what a race needs: an answer, and
the thing that came before or after it; a page of one row has a next page with two rows,
and a chunk of two leaves a shorter chunk of three. `application_live` has one peer and asks for
no checkouts, since liveness is checked on the whole graph; the outcome of the one the
browser is back from is there. `CleanMeansSaved` and the editor's part of `SentAsQuoted`
are stated while `hasty = 0`: a form counts what was done to it while a save or a price
was under way, and begins with one if it is opened on a cached copy that is behind what
is stored. One is enough to break both (section 8); without any they hold.

`CHECK_DEADLOCK FALSE` is said where the system may really stop: a message that is
settled, a campaign that is over, a tab nobody touches, a service nobody calls. `Billing` is never without a
step, since the settings can always be saved.

In the services, two processes on one item are again what a race needs; a batch holds a
number twice because the second dispatch of it is a duplicate of the first, and the third
period is there so that a run can act on a number that was renewed twice since it read it.
A request of `ApiSend` that died may be repeated with its key before and after the key
expires.

Every property has at least one mutant in `PROJECT.json`: a plausible slip in a mapped
definition (a guard dropped, an attempt not looked at, the queued taken for the
sent) under which the run finds it violated. The mutated forms stand beside the
definitions they change.

## 6. Fairness

- *Lambda finishes what does not die*: weak fairness on each process's own steps.
  A step that never returns is an invocation cut off at its time limit, which is a crash.
- *SQS delivers what is visible, and redrives what was received too often*:
  weak fairness on `Receive` and `Redrive`.
- *The scheduler runs every minute, one at a time* (reserved concurrency 1,
  `src/README.md:164`): strong fairness on `StartTick` and `StartSweep`, strong
  because a request's process may hold the only slot of the model for a while;
  `MaxTicks = 1`.
- *Time passes*: weak fairness on ageing. An hour of silence (`AnHourPasses`) is
  granted only to a row in the `sending` partition. A row still in `due` is claimed
  by a tick every minute, which makes `claimedAt` fresh again; granting it an hour
  would hide what `fanout_never_starts` shows.
- *Stripe delivers an event until it is answered*: strong fairness on the first
  successful webhook of a captured payment.
- *The browser goes on* (`SessionFairness`): weak fairness on digests, on leaving for an
  assigned URL, on the callback's effect and on the settling of each fetch. Nothing
  makes the user act.
- *Polls of the inbox and of the checkout's outcome*: weak fairness on the timer, on the
  API's handling and on the answers being read. Strong fairness on a fetch that
  succeeds in the inbox: the network may drop any number of them, not all of them for
  ever. The top-up's fetches settle one way or the other, which is all its property needs.
- *The renewal run is started every day, and the sweep every minute* (`Rentals`): weak
  fairness on their starts and on their steps. They finish unless they die, and die a
  bounded number of times; nothing makes a customer act, the balance grow or a period end.
- Nothing is assumed to make requests, delivery events, opt-outs or outcomes come,
  and billing-charge is not assumed to be retried.

## 7. What is proved

For all values of the constants that satisfy the named assumptions: any number
of recipients, workers, people, audiences, processes, crashes and payments.

**Messaging** (`MessagingProofs`). `TypeCorrect`, and `NeverAskedTwice`: the
provider is asked at most once for a recipient. `calls <= 1` alone is not
inductive: a second invocation might be about to call. `FenceInv` adds that who
is at the gateway has set the fence on the row and no call was made before
(`SenderIsFenced`), that no two are there for one recipient (`SenderIsAlone`),
and that a call leaves the fence behind (`CallIsFenced`). Only `ClaimAttempt` leads
to the gateway, only on an unfenced row, and no step takes the fence off. The
claim and its sixty seconds play no part, which is the point: a claim may be
retaken at any time.

`NoRowGoesBack` follows from what a step can do to one row (`EveryRowSteps`): it stays,
or its status takes one of six ways on. `SettledOnce` needs the counts that are still
owed: a delivery event writes the row first and the counter after, so `DeliveryInv` adds that
a count that is owed is of a final status of an accepted message and was not made
(`OwedIsFinal`), and that what is not final was not counted (`OnlyFinalsCount`).
`CapHolds`: a value of the counter is spent before the provider is asked and is not given
back, so `CapInv` counts those who were asked together with the invocations that the counter
let through and that have not asked yet; both together never exceed the counter, nor the cap.

`NobodyIsForgotten` is the safety half of `EveryJobAnswered`, with any overlap: until an
invocation dies, whoever's job was received is counted, or a worker has them in hand and is
not past the count. It is about who may still decide a claim: before the fence any of those
who retook it, behind it only who is at the gateway or about to refuse (`Deciders`). Who loses
the race for the fence answers `DUPLICATE` and counts nothing, so somebody else must have the
row; and what the provider took, or what was given up, is counted or about to be, also when an
event was faster than `mark_sent` (`Carried`).

`OneFateToldOnce` is the refinement: each step is one of `SendOnce` or a stutter under the
mapping of `Promise`. It has a hypothesis, `~Overlap`: no two live invocations hold jobs
of one recipient. That is the setting of the run `send_path_serial`; with overlap
the promise is false (section 5). `SerialInv` says what an invocation
knows of its recipient at each place (`PlaceOK`): up to the attempt the row is unfenced and
nothing was counted; at the gateway it is open; at the count the outcome it holds
is the truth. `HolderMoves` and `WorkSerial` show that only the holder of a recipient
disturbs that, `PromiseMet` and `PromiseTold` are the two steps of the abstraction.

**Campaigns** (`CampaignsProofs`). `TypeCorrect`; `InvHolds`, and from it
`NeverOverRefunded`, `RefundsWait`, `CancelIsSafe`, `StaysListed` and `OverIsOver`.
The invariant has three parts. `RowInv`: the listing, the reservation and the jobs
go with the status. `LedgerInv`: refunds are bounded by debits and wait for the
end. `TaskInv(w)`: what a process may count on at its place, although the row has
moved since it was read. That last part is what makes it inductive: a process at
`credit` acts on a stale row, but every row that could be in its hands had a
reservation no larger than what is debited by now. The proof that each step
keeps it goes through `Forward`: statuses only move forward and debits only grow, so
what other processes count on is kept without looking at the step (`OthersKeep`,
`OneMoves`).

`EveryoneIsAccountedFor` and `TheBillIsRight` have a hypothesis,
`Quiet`: one tick at a time (`MaxTicks = 1`, the scheduler's reserved concurrency), no edit
of a draft or list (`MaxEdits = 0`; `CreateDraft` takes any list, so what is excluded is a
change after it), and no silent hour (`~HoursPass`). It is the setting of `campaign_bill`,
and each of the three is needed: with two ticks, with one edit or with an hour, TLC finds
both properties violated on that instance. Crashes are not excluded, whatever `MaxCrashes`.

The invariant has two halves. `Counts` holds whatever died. The positions a fan-out has
passed are in `queued` or in `refused`, and what is left of `refused` was told
(`QuietRow`); there is one tick (`OneTick`); and what a process read before its claim
still holds where it matters (`QuietTask`): a tick that is to begin has the cursor of the
row, one that is at a batch is where the row says. `Safe` speaks of executions in which
nothing died yet: the jobs are then exactly what the one fan-out has passed and may
send to (`SafeTask`). The crux is `CountedAll`. The counters `sent` and `refused` are
compared with `recipients` by whoever writes last, also while a fan-out is under way, when
`recipients` is still the number the quote was for and later the length of the list.
When they meet, `AllTold`: everyone who was queued was told, and what the fan-out has
still to hand out is a repetition. This is arithmetic over the sizes of four sets
(`UptoBatch`, `ToldCount`, `AllOfThem`) and uses that nobody is on a list twice. From there on no
outcome is missing (`NobodyIsTold`), so the count that `Complete` compares and `Credit`
and `MarkSettled` use is the final one, and one process settles (`BillInv`).

**Billing** (`BillingProofs`). `TypeCorrect`, whose content is that no interleaving
of debits takes the balance below zero; and `CreditedOnce`: the balance is the trial
credit plus each credited payment, once, less what was spent. It is inductive with
`IsFiniteSet(credited)`, needed to count. What the contact saves wrote over is on the other
side of the sum, so they need no bound.

`OneAlertAPayment`: an alert is sent by whoever sets `lowBalanceAlertedAt`, and a credit
takes that away in a step after its own. `AlertInv` adds to the alerts sent one if the
account is open to another and one for each process that is about to open it
(`Rearms`): together they are paid for by the first, the payments and the saves.
`MarkMeansOne`: the mark, the job, its charge and its credit are four pieces of state
that six kinds of process move one at a time. `HandlingInv` says that a job nobody asked for
is untouched and that billing-charge runs one invocation for one job; `AnswersInv` what each
job is and what its handler knows while nothing died; `FlightInv` that a mark is then of a
job that is open or about to be, and, while no hour passes and no details are saved, that an
open job has its mark and is alone (`OneFlight`). `FailedIsNotCharged` follows from it: while
nothing died, a recharge that was declined or given up took no money.

**The services** (`ServicesProofs`). Each service of `Application` has an inductive
invariant. A step of the composition is a step of the section's service and leaves the
variables of the others alone (`RepliesAreKept` to `ApiIsKept`, in `ApplicationProofs`, which
has the theorems).

- `NoOptOutIsLost`. `RepliesInv`: a handler that is about to write the marker has opted the
  person out, so no marker says that a STOP was dealt with that was not. Of `KeptInv`, below: those
  whom a bulk move has still to take out of a list are on the opt-out list already
  (`Taken`).
- `CountsAreRight`. Batches write the contacts in one step and the counter in another, by
  what they read before, and an update may put back a contact that it does not count.
  `KeptInv` gives each request its `Debt` to a counter, and says of a list that was not
  written to under a batch that its counter with what was put back is right (`Even`), that it
  is but for the debt of one batch (`Settles`), or that all of it is being deleted; and that
  what a batch read of such a list still holds (`ReadHolds`). Each step is shown
  to come to a `StepOf`, which pays as much as it owes, and `StepKeeps` does the rest once for
  all of them.
- `RepeatsAreOne`. A reply: one handler is past its marker, and what it has yet to do was not
  done (`OneIsPast`, `DoneOnce`). A request with a key: of those with one key in one life of
  its record one acted, its record is there while it lives and says what it was billed
  once it is answered, and so does every replay of it, also after the record has expired
  (`ActedOnce`, `Recorded`, `Replayed`). A first sign-in: a pointer is set once and the user it
  names opened the account by that step; whom a request has found is whom the pointer goes on
  naming; hooks run in order after it (`PointersOwn`, `Placed`, `HooksRan`).
- `NothingIsBilledTwice`. A batch: what was reserved is the batch, nothing is given
  back before all of it is over, and then what was refused is (`Money`). A rental: a period's
  ledger row is there exactly if it was paid (`RowsMatch`), and only the run moves the number
  to another period, so what it read still holds, and what it is about to give up was not paid
  (`RunReadTrue`); the row is put once, by the purchase (`PutOnce`).

They use the assumptions of the five modules. `ListsAssumption` has the people finite,
needed to count them, and `SignInAssumption` tells the requests from the two users that
no request opens an account for (`Invited`, `Nobody`).

**The dashboard** (`WebSessionProofs`, `ContactImportProofs`, `ScreensProofs`,
`ApplicationProofs`). The first two
component modules prove an inductive invariant each; `ApplicationProofs` shows that a section
takes exactly its own module's steps in the tab (`SameSession`, `SameImport`) and so
carries them to the properties of `application`: `NeverActedTwice`, `NobodyIsStranded`,
`LastComesBack`, `ReportsAreTrue`, for any number of calls, tokens,
redirects, runs and modals, files with any numbers in their rows and chunks of any size.

`SessionInv` adds to the four properties what makes them inductive. A call that waits was
not acted on (`WaitingIsUnacted`), so acting on it once is the first time. A document that
was just loaded owes nothing to the one before (`NothingIsOut`): without it a redirect
begun before the tab left could overwrite the handoff while the user is at the provider.
The code of the redirect that the handoff is of was not exchanged (`HandoffIsUnspent`),
nor that of one yet to be begun; a challenge that is being computed for the last redirect
has its handoff (`LastHasHandoff`). The proof found that `MaxRedirects` must not be zero.

`ImportInv` says that a run's totals count what it has sent, that what was taken is, while
no chunk is in doubt, the rows sent whose number does not come again in their chunk, that a
run sends whole chunks until its file ends, and that the run of a report on show is over.
A run that stops at a refused chunk is over too, but never the run of a report.
`import_contacts` keeps the last row of each number of the chunk it is given; that, chunk
after chunk, these are the rows of the file that `LastOfChunk` names is a lemma about chunks
of any size (`ChunkAdds`).

The screens have their invariants in `ScreensProofs`, the contacts and the campaign editor
in `ApplicationProofs`; `ScreenSteps` says that the screen looked at takes its own module's
steps and no other moves, `ScreensAreKept` and `TablesAreKept` carry the invariants through
the composition. All are proved for any number of slots, dialogs, rows, lists, edits and
mounts. `NobodyIsKeptBusy` reads off the invariants of quick send and of the inbox that a
composer that waits has its request under way.

- *Tables* (`TablesInv`; `TablesShowTheirChoice`). An entry of the cache holds the answer of
  its own query and of no other, and what is on show is the entry of the choice, or the
  placeholder while that is being fetched. No empty page is on show while there are rows: every
  cursor in the trail of the rules is before the end of the rows it was made for, and the last
  page of the log has rows (`PagesHaveRows`, about division rounded up).
- *Panels* (`PanelsInv`; `DialogsAskOnce`, `ChangesAreShown`). Every request that a panel
  has out is of a mutation that will make the panel's list stale, which is proved once for all
  panels, dialogs and mutations (`MutationsMakeStale`); so what is held with nothing out, and a
  fetch that was read, are as new as what the user was told. The panel that buys a number is
  excepted, as it is in the property. A request of a dialog ends with that dialog.
- *Quick send* (`QuickInv`; `DialogsAskOnce`). Until the send of a dialog is answered by the
  API, that dialog's message was not accepted; and no two sends are of one dialog. A dialog
  that is open and waits for nothing has sent nothing, which is what lets the button be
  pressed again after a close. `SendsAreQuoted`: the button is the only way to send, and is
  disabled without the price of the draft as it is, also when an upload has changed it.
- *Inbox* (`InboxInv`; `ChangesAreShown`, `AnswersLeaveUsAlone`). The answer of a fetch that
  was read, and the list that is held, are as new as what the user was told, or
  another fetch is on its way. The composer's own request is a reply to the number on show.
- *Top-up* (`TopUpInv`; `ChangesAreShown`, `AnswersLeaveUsAlone`). A balance that was asked for
  after `PAID` was read has the credit, and one that was not is fetched again; the checkout
  that was asked for last is of what the user wants.
- *Contacts* (`ContactsInv`; `BulksStayInTheirList`). What is shown, ticked or asked for is
  of the panel's own list: a panel is keyed by its list, and the ticks go with it.
- *Campaign editor* (`EditorInv`; `CleanIsSaved`, `PriceIsForWhatIsSent`). Of a user who waits
  for every answer (`hasty = 0`), one request is out at most (uploads apart), and it is of
  the form on show, of its draft as it is and of the campaign it is kept in (`SentBy`); a
  form that is clean has its draft kept, and a price is for what is kept and goes with
  the first change (`FormKept`); an answer that was given to a save is of what the API now has, so
  taking it in makes the form clean truthfully. That the user waits is needed: without
  `hasty = 0` TLC finds both properties violated on the instance of `application`, with one
  hasty input. Going on during an upload is no haste (the code disables nothing meanwhile);
  an upload that answers while another request is out counts as one.

**The types of the composition** (`ApplicationProofs`). `TypesAreRight`: `TypeOK` of
`Application`, the types of fourteen sections. They do not follow from the types of the
state before: what an answer writes, and where, depends on what was sent before it, so the
types of a section rest on its invariant (`TablesTypes`, `PanelsTypes`, `QuickTypes` and so
on to `ImportTypes`, each beside the invariant it uses; `ServicesTyped` and `ScreensTypes`
put them together). What of it is more than a range:

- an answer finds the screen it was sent from: an upload that is under way is one of the
  composer that is mounted (`UploadTyped`), and a save finds its form, so what they write
  goes to a draft that is there; a send that a composer waits for has its dialog open;
- nobody is in a draft twice (`DraftOf`): there are as many chips as values, also when the
  list of the URL arrives after the user has entered it (`SeededTyped`, `WithoutList`);
- the query of the table on show has an entry in the cache (`TablesTypes`);
- a run of the renewals works on the attempt that the number is at, and tries again below the
  limit only, so no number is at an attempt past it (`RentalTypes`);
- what the API gave back of a batch is at most what it took (`Covered`), and no rental takes
  the balance below zero;
- an import took no more rows than the file has (`TakenWithin`), and the versions that the
  inbox and the top-up hold are of what there was (`OfVersions`).

Two assumptions were too weak for that and now say what the code has: a table offers at
least one filter, and the value that stands for a list among the recipients of `QuickSend`
is not a number.

Only model-checked: the liveness properties (out of the prover's reach, as is
`ENABLED`): `EveryJobAnswered`, `EveryChargeCredited`, `DueIsDecided`, `NewsIsShown` and
`SignedOutLeaves`. Every other property of a run is a theorem. Induction over data is out of
reach too, so nothing is proved of sums over an audience: `Cost` is a constant function in
`Nat`.

## 8. Findings and observations

The three violation runs are disagreements between a document of the repository
and the code; `PROJECT.json` quotes both sides.

1. *The contact details overwrite the balance.* A name, an e-mail or a mobile saved in the
   settings makes identity read the account item and put it back whole
   (`slices/identity/repo.py:250`): a debit or a credit in between is undone, and the billing
   attributes that identity's model does not know (the recharge mark and toggle, the alert,
   the trial's end, the Stripe customer) are erased.
2. *The second API message to a number is billed and not sent.* All API messages of an
   account land in one campaign (`slices/developer/service.py:787`), and a claim is unique to
   campaign and destination for two days.
3. *A fan-out that never starts.* Each tick that takes the campaign up refreshes
   `claimedAt`, by which an unstarted fan-out is judged (`slices/campaigns/service.py:429`), so
   a list that was deleted keeps the campaign `SENDING`, and its reservation, for
   ever.

Seen while modelling the backend, and not given a run of their own:

- *A refused recipient the provider took.* `refuse` is conditional on `QUEUED` alone
  (`slices/messaging/repo.py:464`). An invocation that took a stale row over before
  another set `attemptedAt` may refuse it while the other is at the provider. Compare
  `src/specs/02-sms-gateway.md:133`.
- *A cancel that dies before its refund* (`slices/campaigns/service.py:746`) has
  taken the row out of the index; nobody refunds it. Compare `src/specs/03-features.md:731`.
- Two schedule calls debit twice (`slices/campaigns/service.py:727`): both reserve and one
  flips the status; the loser's 409 leaves its SEND row. Compare
  `src/specs/01-dynamodb-data-model.md:378`.
- Any answer clears the recharge mark (`slices/billing/repo.py:304`), also one for
  an earlier, abandoned job; a third recharge is then queued while the second is in
  flight. Compare `src/specs/03-features.md:318`.
- A list that grows by a batch while a fan-out is in progress raises the count of
  recipients from batch to batch; together with an opt-out in a batch sent again,
  the campaign can be complete before the last batch and messages go unbilled.
- After a crash between credit and mark, the sweep writes `settledMicro` from the
  counts as they are then; the ledger keeps the earlier refund.
- A draft saved between quote and flip is scheduled at the old price
  (`SaveDraft` between `StartSchedule` and `Schedule`).
- No code sets `FAILED`; `src/README.md:132` ("refunds the quote on failure") has no code.
- The bill is the average quote times the messages accepted, not their parts.
- A stale `QUEUED` row whose attempt was made is not sent again: `is_stale_claim` asks
  for `attemptedAt` to be unset; compare `src/specs/01-dynamodb-data-model.md:734-735`.
- The recharge is decided on the balance read before the debit;
  `src/specs/01-dynamodb-data-model.md:585-587` speak of the returned balance.
- `settle` gives money back without arming the alert again, against
  `src/specs/01-dynamodb-data-model.md:598-600`.
- A settings page opened before a decline and saved after it switches the automatic
  recharge on again.
- A pending payment that fails later is ignored by the webhook, so the mark stays for
  its hour.
- `src/docs/architecture.md:91-92` gives account and hour as the idempotency key of a
  recharge; the code uses the job.

Seen in the services:

- *Developer API.* A record that a request left `IN_FLIGHT` (an exception, a timeout, a
  death) stays for its day, and the retries it exists for are answered 409
  (`slices/developer/router.py:77`). A batch of which one dispatch raises is never settled:
  what was reserved for the refused stays with the account's debits
  (`slices/developer/service.py:792`).
- *Rentals.* `buy_number` takes the money before the number's row is put
  (`slices/senders/service.py:279`); a failure in between leaves neither number nor refund.
  The writes of the run and of the sweep have no condition on the number's status, so a
  number cancelled between the run's read and its charge is still charged, and one may be
  charged after the sweep released it. The next renewal is the run's own time plus a
  period, so renewals drift.
- *Replies.* A handler that dies after the marker loses the rules and the inbox entry, since
  the retry is a duplicate (`entrypoints/inbound.py:99`). A reply that comes before
  `mark_sent`, or unsolicited to a dedicated number, is not attributed and is dropped, also
  if it says STOP; `src/specs/02-sms-gateway.md:140` and
  `src/specs/01-dynamodb-data-model.md:552` attribute by the destination number. The opt-out
  comes before the row, where `src/specs/01-dynamodb-data-model.md:556-558` has the row first;
  the code's order is the one that loses no STOP.
- *Contacts.* An import or a bulk action writes its contacts and then adds to the counter
  what it read as new; two at once, or one that dies in between, leave the counter, and
  with it the list's ceiling, wrong for good. `src/specs/03-features.md:360` has "an `ADD` counter kept in the same transaction
  as the contact write". Two writes of one contact suffice as well: `upsert_contact` puts
  and counts in one transaction on condition that the contact is not there, and where that is
  refused puts it without counting (`slices/contacts/repo.py:276-279`). If `delete_contact`
  comes in between, it counts one less and the contact is back, so the counter stays short
  (`restored`). An upsert that lost its condition
  because the list is gone writes a contact of no list.
- *Identity.* The hooks of a new account (trial credit, lists, senders) run after its
  transaction and are not run again by a later sign-in, where
  `src/specs/01-dynamodb-data-model.md:471-474` has the first sign-in in one transaction.
  Rows are put back whole: an update of the profile may undo a `DISABLED`, a link or a new key
  (`slices/identity/service.py:653`). A link sets the user active whatever its status was.
  Two people with one address may each open an account.
- *Analytics.* A rollup that claims its day's marker and dies leaves the day unsummed
  (`slices/analytics/service.py:218`).

Seen in the dashboard:

- *Session.* Two calls that fail to refresh each begin a redirect; the later handoff
  overwrites the earlier, whose sign-in is refused if the browser gets there first
  (`lib/auth.ts`); `LastRedirectReturns` is stated of the last one only. A 401 or a
  refresh that is answered after `signOut` supersedes its navigation, or brings tokens
  back.
- *Campaign editor.* A save marks clean whatever was typed while it was under way
  (`screens/sms/campaigns/CampaignForm/useCampaignDraft.ts:30`), against
  `src/specs/03-features.md:704-706`; a price answered after an edit is shown for the new
  draft (`useCampaignDraft.ts:42`). Two clicks on SAVE before the first answer create two
  campaigns. An editor opened on a cached copy starts from what was there before the last
  save. The answer of a SAVE-and-leave closes whichever editor is open then. An upload's
  answer restores the draft of when the file was picked; a PUT that is rejected
  (`api/media.ts:19`) leaves the field busy. A background fetch that is refused takes the
  form, and what was typed, away.
- *Quick send.* The dialog can be closed while its send is pending and opened again, so
  the message goes twice, each dialog once. A list taken over from the contacts may put
  more recipients into the draft than the cap allows.
- *Inbox.* The answer of a reply clears what was typed since it was sent.
- *Contacts.* An import is reported with fewer rows than its file has where a number comes
  twice in a chunk: `import_contacts` keeps the last of them and counts it once
  (`slices/contacts/service.py:417`), and in two chunks it is counted in each. By
  `src/specs/03-features.md:350-352` "adding or importing a number already in the list
  updates that contact [...] and the import report counts it under `Updated`", with no
  difference made between chunks. `ReportMeansAll` states the code's count. The late answer
  of a bulk action clears the ticks made since; the toolbar is
  not disabled meanwhile; ticks stay from page to page. A second import can be started
  while the first one's file is being read, and a refusal stays on show through it.
- *Panels.* A delete's answer closes the confirmation that is open, of another row as well,
  where the mutation lives in the panel. A delivery rule's secret is lost if the list is
  refused on its refetch, a subaccount's key if its modal is closed while pending. The
  template dialog closes on a refusal and loses its text. Toggling a rule sends the whole
  row as it was last fetched. Changing the action of an inbound rule keeps the old
  action's address. Settings forms save the whole draft as it was at the first load.
- *Top-up.* A poll that is refused ends the polling. A balance whose first load is joined
  may be the old one. Buying does not refresh the packages. A second checkout supersedes
  the first one's tab; both are created.
- *Tables.* In the history, *next* on the rows of the last choice uses their cursor under
  the new filters. The pager of the reporting screen is not clamped ("Page 3 of 1"). A
  refused usage hides the filter that would leave it.

## 9. Not modelled, and why

- *Text*: segment counting, encodings, templates, links, request parsing, views.
  No property of sections 5 and 7 tells two texts apart.
- *Pure reads*: history and analytics queries of the API, exports, the message drawer,
  transactions and upcoming charges.
- *The rest of the dashboard*: landing, API documentation, the presentational components,
  routes beyond the session's, segment rules, generated API types. None keeps state that
  another part reads, or calls more than one query.
- *Single writes of the services*: sender verification and alpha tags, keys, webhook
  subscriptions, read marks, short links and their clicks, the registration of websites.
- *Webhook jobs*: what a customer's endpoint answers, and the retries of SQS until it does.
- *Analytics*: queries over logs and a nightly sum.
- A fan-out longer than `MAX_FANOUT_BATCHES` (`slices/campaigns/service.py:78`, ten thousand
  recipients), which ends in an error with its cursor stored, as a crash between two batches
  would.
- *Sweeps of senders and websites*: one conditional write for each item, and an item
  is independent of the others.
- *Cards and customers at Stripe*: the creation of a checkout and the default card
  change nothing that the money depends on but whether a charge is declined.
- *LocalBus*, the in-process queue for a laptop.
- *Long audiences*: a fan-out of thousands that is cut by the Lambda's time limit is a
  crash between two batches of a short one.
