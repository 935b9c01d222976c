# Deep Holdings, in TLA+

Deep Holdings is an idle game whose server is authoritative: a Fastify process
(`packages/server`) over PostgreSQL, a shared rule book (`packages/shared`), and a
React client (`packages/client`).  Nothing runs per player on a schedule.  A
recruit's ticks (one a minute) are replayed by the first request that looks, in
the same database transaction as whatever that request wanted to do.  That is
where the difficulty is: every handler is *resolve, settle, then act*, the
resolution may kill the recruit the handler is about to act for, and the same
rows are written by several kinds of request.

## The system's parts

| part | state | operations | what makes it correct | modules |
| --- | --- | --- | --- | --- |
| account service, `server/src/service.ts` | rows of one account: characters, deaths, pension, transfer, office, registry, assignment, guild standing | one transaction per route: read, orders, sales, purchases, forms, claim, retirement, transfer, assignments | one recruit serves at a time; an award is paid once, to the account that earned it; ledgers add up | `Career`, `Entitlement`, `Transactions` |
| resolver, `server/src/domain/resolve.ts` | none; a function of a recruit, its orders and a target tick | replay a span tick by tick | same result however the span is cut; nobody sent beyond an order, nobody lost by a retreat order that should have held | `Resolve` |
| case files and filings, `domain/caseFiles.ts`, `domain/filings.ts`, `shared/src/items.ts`, `forms.ts` | a drawer of files, the forms before the panel | find, displace, countersign, arbitrate, requisition, rule | every file legal; nothing overdue; no file spent twice | `Casework` |
| department, `server/src/domain/staff.ts` | registry row | payroll, clerk, Junior Officer, archivist after each resolved span | never overspends a purse or a pension, keeps the ladders | `Career`, `Casework` |
| catalogues, `shared/src/tuning.ts`, `transfer.ts` | none | ladders, prices, awards | rungs in order, licences, rounding | `Ladders` |
| derived views, `domain/guidance.ts`, `tutorial.ts`, `clearance.ts`, `getLedger` | none | offers, advice, open screens | what is offered or advised is accepted; no screen closes | `Views` |
| regional effort, `shared/src/guild.ts`, `applyGuild`, `addGuildProgress` | world row (progress, cycle), one standing row per account | contribute, complete, settle | no contribution lost or paid twice | `Guild` |
| Special Assignments, `shared/src/assignments.ts`, `applyAssignment` | assignments row | accept, abandon, progress, complete, fail | only service after acceptance counts; a reward is paid once, under its rules | `Assignments` |
| idempotency, `server/src/idempotency.ts` | idempotency_keys row | reserve, complete, release, reclaim, expire | a retried purchase is charged once | `Idempotency` |
| rate limiter, `server/src/rateLimit.ts` | token buckets in memory | take, drop idle | bounded bursts, no refill by being dropped, an honest wait | `RateLimit` |
| storage, `server/src/adapters` | PostgreSQL rows, or maps | queries, one transaction per handler at READ COMMITTED | the row locks serialise an account's writers; the two adapters answer alike | `Transactions`, `Storage` |
| processes: `index.ts`, `migrate.ts`, `config.ts`, `health.ts`, `migrations/runner.ts`, `heartbeat.ts`, `clock.ts` | schema_migrations, world row, each process's clock | start, migrate, seed, beat, probe, stop | nobody serves an older schema; a lost race is a delay; the world is never stuck | `Server` |
| death sweep, `server/src/push` | push_sends, push_tokens | peek, claim, send, prune tokens | one ring per device and death; an account that fails holds up no other | `Sweep` |
| client state, `client/src/state`, `api`, `hooks`, screens | last snapshot, token, in-flight flags, the form and the page | poll, write then refresh, retry once after 401 | no older snapshot over a newer one; what was filed is shown | `Client` |
| client notifications, `client/src/native` | send budget in local storage, schedule | spend, refund, re-derive | at most four a day, one per event | `Notify` |

Interactions: every write handler begins with `loadStateInside` (resolve, then
`applyStaff`, `applyAssignment`, `applyGuild`, then save and record a death); the
read `loadState` does the same with `applyAfterResolve` and answers with the death
overlay when nobody serves.  Four handlers do not resolve first: the redemption of a
rung, the spending of a Commendation, the handing back of an assignment and the
change of a staff policy.  The world row is shared by all accounts and by the
heartbeat.  The client polls `GET /v1/state` and refreshes after each write.

Hard behaviours: a death met by a write; forms that close one recruit and issue
the next; counters that survive recruits (pension, Commendations, contributions,
assignment progress); spans cut by whoever looks; forms of different lengths that
overtake each other in an absence; concurrent requests of one account under READ
COMMITTED; requests retried after a lost answer or a crash; two instances of each
timer; boots that race for a migration; refreshes skipped while one is out.

## Modules

| module | models |
| --- | --- |
| `Ladders` | the catalogues: rungs, order, licences, what is affordable, the Junior Officer's choice |
| `Career` | one account: the clock, the recruits table, the deaths, the ledgers, and every handler as one action |
| `Entitlement` | what an account is promised about its pension, abstractly |
| `Views`, `MCCareer` | what the server derives from an account; the values TLC uses |
| `Career_proofs` | theorems about `Career` and the views for every value of the constants: who serves, what is due, and the ledgers |
| `Idempotency` | one idempotency key, statement by statement |
| `RateLimit` | the token buckets |
| `Gates_proofs` | the theorems of both gates in front of a write, the key and the limiter |
| `Guild` | the shared world row, every officer's standing, the heartbeat |
| `Casework` | the drawer and the panel |
| `Resolve` | the tick loop, and spans of it cut by requests |
| `Assignments` | the Special Assignments over careers |
| `Span_proofs`, `MCSpan` | the theorems of `Resolve` and `Assignments`; one run for the two |
| `Transactions`, `Transactions_proofs`, `MCTransactions` | an account's handlers statement by statement, with PostgreSQL's locks, and its theorems |
| `Storage` | the repository port: MemoryRepository beside PostgresRepository |
| `Offices_proofs`, `MCOffices` | the theorems of `Guild`, `Casework` and `Storage`; one run for the three |
| `Server`, `Server_proofs`, `MCServer` | processes, their configuration, the migration runner, the heartbeat, the probes, and the theorem of the runner |
| `Sweep`, `Sweep_proofs`, `MCSweep` | the death sweep beside the officers it watches, and its theorem |
| `Client`, `Client_proofs` | the API client, the provider, Form SO-1, the command line, the journal pages, and the theorems of the token and of the refresh |
| `MCRequests` | one run for the client and the gates its writes meet |
| `Notify` | the notifications a phone schedules for itself |

`MCRequests`, `MCOffices` and `MCSpan` each hold two or three machines that share nothing
that is modelled (a guild and a drawer, say).  The initial state picks the one that moves and
the others stay where they start, so the states of a run are the sum of the two, not
the product, and each property is about one of them.

### Career

One action is one committed transaction; a handler that throws rolls back, so its
refusals are guards.  `recruits` is the characters table in insertion order,
`deaths` the deaths table in the order of `at`.  `banked` and `surrendered` are
history variables.  What a span of ticks does to a recruit (`Survivors`,
`Casualties`) is left open within what the tick loop keeps: the permit does not
fall, a casualty stops at the tick it died in, below ground, and its award is
`pensionAward` on its service, on some floor at least as deep as the one it died
on, on its estate then, with or without the insurance and, under an assignment
that suspends unlocks, without Service Credit.  `Lived` is everything one
resolution with its aftermath may leave (`loadState`), `Inside` the same for the
writes, which return early on a zero-tick span.

Handlers that only change orders, countersignatures, policies or the developer's
clock are the one action `ResolveOnly`: all they do to this state is the
resolution they begin with.

Simplifications: the Junior Officer is at its appointed tier (one rung a visit, at
list price); Form 4-E, forms, filings and the cabinet are seen through the gold
and stock they move; a guild share is gold that may reach a survivor's or a
casualty's purse; prices of hire and forms are one constant each.

### Entitlement

`serving`, `due`, `held`, `used`: a death fixes an award, which stays due, the
same, until it is banked and service resumes; retirements are banked at once;
what is held may be used; a transfer takes all of it.  `Career` is shown to
implement it with `due` the latest death's award while nobody serves.

### Views

Pure functions of a state of `Career`.  A level, an unpaid post, filed orders and an
application in flight are not kept there, so the properties quantify over them.  The
screens look for the next rung by searching for one not owned, the handlers by
counting tiers; the tutorial (`TutorialStep`) and the situations after it
(`Situation`) are rules that speak in order (`Else`).

### Idempotency and RateLimit

One row of `idempotency_keys` and the requests that carry its key.  The two hooks
of `idempotency.ts` run outside the route's transaction, so each statement is an
action: `Send` is the `INSERT ... ON CONFLICT DO NOTHING`, the `Look` actions the
`SELECT` that follows a lost insert, `Reclaim` the `UPDATE` of a row presumed
abandoned, `Commit` and `Refuse` the route, `Complete` and `Release` what `onSend`
does before the client hears.  `Die` is a process death between any two of these,
`Second` the passing of time, `Expire` the sweep's `DELETE`.  A request is at one
of the steps of `at`, and asks for the purchase in `asks`; the fingerprint of a
request is that purchase.

`charged` and `lapses` are history.  `lapses` names what makes the row stop
standing for one request: going on with no row (`unheld`), taking a row over from
a request that is still working, or whose row has changed (`shared`), dying after
the commit (`death`), and expiry (`expired`).  `ChargedOnce` holds while there is
none of them, `ReplayTellsTheTruth` whatever happens.  Not modelled: a completion
that fails and is followed by an error answer, which runs `onSend` once more.

`RateLimit` keeps tokens in units, so that a moment refills a whole number, and time
as ages capped where the code can no longer tell them apart.  `Take` is the whole of
`take`, its lazy sweep included.  `due` is what a bucket refilled every moment and
never forgotten would hold; `promise` what is left of the wait last reported.  Clocks
that step back are not modelled.

### Guild

A transaction reads the world row `FOR UPDATE`, keeps it in `seen`, and commits or
rolls back; `ReadWorld` is blocked while another holds it, which is the row lock.
`ResolveOnRead` and `ResolveOnWrite` are the two copies of the aftermath
(`applyAfterResolve` and `loadStateInside`): they weigh the same work by the site
it was served at and by the standing orders.  `ReadNothingNew` is a read within the
tick: it settles and does not save the recruit, so that `paid` grows and `purse` does
not.  `WorkSettledOnce` is about the standings: all work counts once and is settled once,
whether or not the gold arrives; that it arrives is `SharesReachThePurse`, which
`share_unpaid` refutes.  `Beat` is the heartbeat, which
writes the whole row.  What a span did underground is an amount; `purse` is only
the gold that shares put in it.  A share that reaches a recruit who dies in the
span is a matter for `Career`.

### Casework

One recruit's drawer and the forms before the panel.  A catch-up, one transaction in
the code, walks through `phase` here: a tick begins, the forms due are ruled one by
one in the order of the code's sort (`Soonest`), the encounter may bring a find that
is placed or displaces another, and after the last tick the department is paid and
the Archivist sits at the desk.  Only in `"open"` may the officer file, countersign
or release.  A recess (an absence longer than the limit) lets the next tick begin
`SkippedTicks` later.
A file is known to the code by its case number, which is drawn at random and may
repeat; `find` numbers the finds, and is the order of the drawer, which the code only
appends to and filters, so that the drawer is a set here.  `of`, the file a form was
filed for, and `mistaken`, whether a form filed for another was ruled on this one, are
history.  Clauses are names with a lowest grade and a worth under each equipment policy.

### Resolve

One recruit, its orders, and the dice of the minutes not yet resolved (`pending`).
The dice of a minute are seeded on the recruit and the tick alone, so they are
thrown in `Tick` and read by whichever request resolves it.  `Minute` is the body
of the loop, and its parts (`Ruled`, `Paid`, `Approved`, `PulledBack`, `SoldFor`,
`Resupplied`, `Stalled`, `Applied`, `Descended`, `Fed`, `Hungry`, `Struck`, `Dead`,
`Found`, `Promoted`) its steps, in its order.  `eager` is the same recruit resolved
at every minute, and `CutsDoNotMatter` compares the two: state that the loop keeps
in local variables is rebuilt by `Opened` at each request and must make no
difference.  It leaves the award out, because there it does (see below).  A span
over the limit is cut short by `Replayed`, and the reference then follows the
recruit.  A blow is capped by a share of the maximum (`Blow`), more for a grievous
one.  Case files and rulings are seen through the vigour they add, percentages are
of a small maximum, and the drawer is in `Casework`.  The loops (`Played`, `Graded`,
`SoldFor`) are recursive functions of the minute, the promotion and the stack.

### Assignments

One account's board over the careers that work it.  Whatever resolves holds the
recruit's row from its read to its commit, so it is one step; `abandonAssignment`
reads the board before it asks for that row, so it is two (`AbandonRead`,
`AbandonWrite`).  What a minute may bring is left open (`Spans`); `Assessed` is the
assessment after it, metric by metric: watermarks of depth and grade, sums of
floors, files and service.  `worked`, `paid`, `award` and `crossed` are history.

### Transactions

What `Career` takes for one step, as the statements it is.  `Follows` says, for each
of ten handlers, which statement comes after which; `Inside` is the resolution most
begin with, `Beyond` where a handler goes on after one that finds nobody.  A request's
transaction (`tx`) holds the statement it is `at`, its local copies of rows (`copy`),
and its uncommitted rows (`draft`), which `Commit` installs.  A read sees
what is committed or its own draft.  `Find` and `Hold` are the two halves of `FOR
UPDATE`: a row is picked, waited for, and asked again whether it is alive, so a
request that waited for a dead recruit finds none, and the `?? getActive...` of the
writes (`Again`) then finds the successor.  `Blockers` says whom a statement waits
for: the holder of the recruit, the writer of the row, or, at an insert, whoever has
an uncommitted version of a recruit.  `Fail` is a lost connection or process; `Victim`
the deadlock detector, which is PostgreSQL's and not in this repository.

`author` and each copy's `basis` say which version a handler read; a version replaced
unread goes to `crossed` at the commit.  `OnlyUnguardedCross` names the handlers that
do this.  So `Career` is right to take all the others for one step each, and what
can go wrong with the named ones is not in it: an award banked beside a redemption is
lost, a redemption beside a transfer brings the surrendered pension back, an
appointment made beside a change of policy is paid for and gone, an assignment
completed beside its handing back may be done again.  One more exception is allowed
for (`Late`): a claim held up between its check and its insert while another's recruit
comes and dies banks a death that is no longer the last, over a pension it read before.

### Storage

The repository port with both of its adapters at once: `memory` is Maps and arrays
in the order they were written, `postgres` sets of rows in no order but the one a
query asks for.  Each call the program makes is made of both (`MemoryX`,
`PostgresX`), and `told` keeps what each answered.  A query that leaves the order
open has a set of possible answers, and memory's must be one of them.  A behaviour
works in one `area` of the schema, since the areas share no row but the accounts.
Handlers are single steps except the sign-in, which has no row to lock when it finds
none (`Look`, `CreateAccount`).  What is filtered or sorted is written by place: the k-th
of a set in an order is the member with k - 1 before it (`Sorted`), and an array is
filtered by the places that pass (`Filtered`), so that both adapters' lists can be
reasoned about alike.

### Server

A process of `index.ts` or a run of `migrate.ts` goes through its stages: refused or
accepted configuration, waiting for the database, `ReadPending`, one `Apply` a file
in its own transaction, the seed of the world row, serving.  It may crash or be
stopped anywhere and the platform starts it again; the database may go away and
return.  `Timer`, `Look` and `Beat` are the heartbeat's statements with the time
taken before the lock, as in the code; a process's clock is ahead by a skew and by
what `/v1/dev/advance` has added.  `StaleWorld` is what `/ready` computes, in half
seconds and with the rounding of the code.  An advance makes both kinds of stale
world: to the server that was asked the due time is more than three intervals behind, and
to one that starts again without the advance the next due time is too far ahead.

### Sweep

A sweeper is one pass of `sweepOnce`; nothing keeps passes apart.  A pass holds no
transaction, so each statement and each answer of FCM is a step: list the
candidates, read an account, peek, claim, list tokens, send, delete stale tokens.  An
officer's request is one step.  `Fatal` lists the ticks that kill; the peek assumes
the bare file it does not load.

### Client and Notify

A request is sent, served and received in three steps, and may be lost either way;
what runs between two awaits of the client is one step, render and effects included.
The file the server answers from is a version number, the orders, the recruit on
duty and the journal.  The token, the shared sign-in, the retry after a 401, the
single refresh, the dirty form and the pages of the journal are the client's own.
Form SO-1 is never disabled: it may be amended, and filed again, while a filing is out,
and two filings may reach the server in either order.  A screen may be left while its
request is out, which still refreshes.  The command line has one field and waits for its
answer (`app.busy`); that it is taken down with the layout when a phone is turned is left
out.

`Notify` is the local schedule: each snapshot cancels everything, refunds its keys
and derives it again across the plugin's awaits, so that rebuilds overlap, while the
system delivers whether or not the app runs.

## Runs

All runs finish within five minutes on two workers.

| run | what it shows | bounds |
| --- | --- | --- |
| `career` | every handler: `AwardsAccounted`, `OnlyNewestServes`, `CareersDoNotOverlap`, `LaddersClimbedInOrder`, the views `OffersAreHonoured`, `AdviceCanBeTaken`, `ScreensSurviveFunerals`, the refinement `KeepsThePromise`, the liveness `DeathIsNotTheEnd` | two ticks, three recruits, permits to D-2, two whole tracks for one licence, a Junior Officer, gold left out (estate is stock); 272,416 states |
| `no_award_lost` | (violated) a transfer that meets a death loses the award | the same with gold, wages and fees |
| `offices` | the guild: `WorkSettledOnce`, `BarIsTheWork`, `PaidOnceWhenClosed`; the panel: `WellFormedFiles`, `FilingsInOrder`, `FilesGoRightly`; the adapters: `AdaptersAgree`, `OneAccountPerDevice` | two officers and the heartbeat, three cycles of two short objectives, two units of work a span; a drawer of two, three finds, two case numbers, three clauses, forms of one and two ticks, four ticks with a recess of two; two devices, two sign-ins at once, three rows a table, three minutes, limits of two; 1,786,544 states |
| `above_grade` | (violated) a transfer leaves a clause above the grade of a file | forms of one and three ticks, four finds, six ticks |
| `share_unpaid` | (violated) a share is marked paid by a read that saves no recruit | two officers, two cycles, two units of work |
| `requests` | the phone: `LockedOutByANewKey`, `SnapshotsNeverGoBack`, the liveness `WritesShow`; the key: `ChargedOnce`, `ReplayTellsTheTruth`, the liveness `KeyNeverJams`; the limiter: `RateHeld`, `RetryAfterIsEnough` | two actions, a loss and a minute, or one action with two new signing keys, or one loss and one key; a window and a page of one line; two requests for either of two purchases, stale after one second, expired after two, a death; two buckets of two requests of three units, refilled one a moment, two moments to a second, forgotten after seven; 401,853 states |
| `span` | the replay: `CutsDoNotMatter`, `LostOnlyBelow`, `NeverSentBeyond`, `PermitsTakeTheirTime`; the board: `EachCompletesOnce`, `PaidUnderItsRules` | five minutes of six kinds, three floors, two sites, catch-up limited to three minutes, an application of four, a Dispensation of one floor; one assignment of each metric but one, four ticks, spans of two; 998,164 states |
| `unworked_award` | (violated) an assignment is paid for work done before it was accepted | as `span` |
| `transactions` | `MinutesServedOnce`, `LostOnce`, `OnlyUnguardedCross`, the liveness `EveryoneIsServed` | any two of ten handlers, and a claim with any two of claim, retirement, transfer, redemption and read; one tick; 276,587 states |
| `server` | `ServesItsOwnSchema`, the liveness `EveryServerServes` and `WorldIsRepaired` | two servers and a deploy, two files, four kinds of configuration, one crash or stop, one outage, an advance of six half seconds and a clock of three over an interval of two, so that `StaleWorld` holds both ways; 335,090 states |
| `sweep` | `RungOnce`, the liveness `NobodyWaitsForEver` | two overlapping passes, an account whose replay throws and one whose does not, two devices, two recruits; 264,456 states |
| `delivered_twice` | (violated) a shift reminder is delivered twice | two rebuilds that overlap, one day by the hour, one recruit |

The bounds are the smallest at which each hazard can happen.  A recruit must live,
die and be followed twice over for a wrong record or a wrong predecessor to be
picked, a transfer must come before or after a death, and an award of one point is
enough for a sum to be wrong by it.  Two requests are what it takes for one to reserve
and the other to replay, conflict or presume it dead (the theorems say the same of any
number); three cycles are an objective, its successor and the rotation's return to
the first.  Three finds fill the drawer and displace from it, and two case numbers
make one repeat; forms of one and two ticks overtake each other, and the recess
passes the due time of both.  The five minutes of `span` are two more than the
catch-up limit, and hold a rest, a descent, a blow and a promotion, and a whole
application with an expediting.  A span cut short at the limit forgets when an
application was filed, since `PermitsTakeTheirTime` counts only minutes that were
served.  A bucket is forgotten one moment after it would be full again, where the table
of limits leaves far more room.

A bound stops the clock, the inserts or the officer, never a part of a handler.
`span`, `unworked_award` and `delivered_twice` end when the clock does, so
they do not check for deadlock.

### Fairness

- `Career`: `WF_vars(ClaimPension)` only.  It is the officer pressing the one button
  the death overlay offers, so `DeathIsNotTheEnd` says that the form is always
  accepted after a death, whichever request met it, not that people press buttons.
  A read with nobody serving stutters (the overlay), which is why the model has no
  deadlock.
- `Idempotency`: a request that was sent is served, seconds pass, and an officer whose
  purchase failed tries the same one again.  `Expire` has none, since `RUN_SWEEP` may
  be off, so a jam that only the sweep would end is a violation.
- `Transactions`: while some statement can run one does, and a cycle of waiters is
  broken.  A request has finitely many statements, so none needs fairness of its own.
- `Server`: the platform starts what is down and a boot goes on; a serving process's
  timer fires and its look and beat go on; an outage ends.  Processes are not promised
  that others stay out of their way: a boot that loses every race still ends, because
  the files are finitely many.
- `Sweep`: a pass goes on to its end and the next begins (the interval timer).  The
  clock and the officers are promised nothing.
- `Client`: the poll's interval fires, and a request that was sent is answered or
  lost.  Losses are finitely many, as a phone that is never online shows nothing.
- In `requests` the fairness of the key and of the phone holds while that machine is the
  one that moves.
- `Guild`, `Casework`, `Resolve`, `Assignments`, `RateLimit`, `Storage` and `Notify`
  state no liveness: nothing there is obliged to happen until somebody looks.

## What the runs found

Five runs end in a counterexample, to a sentence a comment or a test states.

- `no_award_lost`: `fileTransfer` carries on when its own resolution kills the
  recruit; the separation record covers the death and the award is never banked
  (`service.ts:1990`).
- `unworked_award`: the depth and the grade of an assignment are watermarks that start
  where the recruit stands, so an assignment accepted by one already there is paid by
  the next read, even one of no minutes (`service.ts:1882`, against 2085).
- `share_unpaid`: `loadState` settles a regional share even when no tick passed, and then
  does not save the recruit it was paid to (`service.ts:307`, against `guild.ts:18` and
  `guild.test.ts:162`).  The standing says paid, so no later read makes up for it.
- `delivered_twice`: a rebuild gives back the key of a shift reminder that has been
  delivered, and the same day's next snapshot schedules it again
  (`notifications.ts:176`, against `sendBudget.ts:10`).
- `above_grade`: the grade is looked at when a Form 19 is filed and not when it is
  concluded, and the file is found by its case number, one of 53,400 that nothing keeps
  apart (`flavor.ts:322`, against `items.ts:198`): when the file is displaced and a find
  has been given its number, the clause goes to a file of a lower grade
  (`filings.ts:175`, against `service.ts:667`).  It takes a rare coincidence, and it is
  the only way: `FilesAreLegal` proves that a file which only its own forms have met is
  within its grade.

Differences that the models have, or that were met while writing them, and no run is
given to.

Careers and the ledgers:

- After a transfer the deceased is looked up by the highest recruit number, which the
  transfer restarts, so a successor may inherit from an older career
  (`service.ts:1541`).  `ScreensSurviveFunerals` stops at the first transfer for it.
- Purchases do not ask whether the recruit survived the resolution they began with
  (`service.ts:1363`), and spend gold the award was assessed on; `acceptAssignment`
  does not ask either.
- `purchaseUnlock` and `purchaseCommendation` do not resolve first (`service.ts:1395`,
  2153), so what they buy applies to minutes lived before, which `updateOrders` takes
  care to avoid (859).
- `retireRecruit` pays on the depth of the moment, where a death pays on the deepest
  floor of the span (1439); and that deepest floor starts over with each resolution
  (`resolve.ts:346`), so the award depends on who looked and when, against the header
  of `resolve.ts`.
- A span served in the Annexe under an assignment counts for more when a read
  resolves it and not when a write does (`service.ts:1058`, `ResolveOnWrite`).
- The department is paid all or nothing at the end of a span, so cuts of a span decide
  whether it works; the Archivist pays the form's price less its relief, without what
  the Right of Audience takes off by hand (`staff.ts:187` against `service.ts:698`).
- `authorisedDepth` adds the Dispensation to a minimum that includes the officer's
  own target (`tuning.ts:149`), so the recruit may be sent deeper than ordered; and a
  recruit whose permit is the shallowest ceiling stalls before it is asked
  (`resolve.ts:525`, against `transfer.test.ts:77`).
- With one minute left, expediting an application halves nothing and charges the fee
  (`service.ts:513`).
- Guidance finds the cheapest rung without the licence rule (`guidance.ts`, against
  `service.ts:1131`): a blocked Tier III rung is announced as affordable for ever.  It
  also counts a dead recruit's purse.  After a transfer a screen may close again, and a
  finished step of the tutorial be shown again (`clearance.ts:15`).

Special Assignments:

- `abandonAssignment` does not resolve first, so minutes lived under a restriction are
  resolved without it, and on a board that has moved on it wipes out a completion:
  beside the read that completes the assignment, it is accepted and paid again
  (`service.ts:2117`, against `assignments.ts:39`).  `EachCompletesOnce` exempts that.
- A target reached under Sole Charge fails when the recruit dies in the same span; a
  read in between would have paid.  Forms R-1 and T-1 under it keep it open.

Requests that meet:

- The office is read before the recruit is locked and not again (`service.ts:1355`): two
  requests for one requisition without a shared key are both charged
  (`idempotency.ts:6`).
- `abandonAssignment`, `setStaffPolicy` and `purchaseCommendation` write their row and
  then lock the recruit, a resolution the other way round: one of the two is ended as a
  deadlock and answered with a 500 (`Victim`).
- `beginIdempotent` takes a row that is gone by its `SELECT` for an expired one
  (`postgres.ts:455`); a refused request's release deletes it too, and the retry then
  buys without a reservation (`LookFindsNone`), so that a third request may buy again.
  Its reclaim is unconditional, so that two retries may both take over.
- `getBulletin` reads the world and the standing outside one transaction.

Storage:

- Memory has no rollback and its transactions do not nest; a failed handler leaves what
  it wrote.  It has no unique indexes: its second sign-in of a device finds the account,
  where Postgres answers 500 and the client tries again.
- Deaths are listed by insertion in memory and by `at` in Postgres, so two of one
  millisecond may be listed either way.  That is harmless for a claim: only a transfer
  records two, and a posting is then alive (`AdaptersAgree`, proved from `LastAlone`).
- The count of active officers compares with `>=` in one adapter and `>` in the other;
  it is left out, since it decides nothing.

Processes and timers:

- The sweep replays without the recruit's case files, filings, Commendations and
  restriction, and without a lock: a death it rings may not happen (`sweep.ts:156`,
  against 44-45).  A token that moves between its listing and the ring rings for another
  account's recruit; a token found stale is deleted after the send, though another
  account may hold it by then.  `NobodyWaitsForEver` is about no more candidates than
  `SWEEP_LIMIT`: the list is the oldest absences, rung for or not, and only their own
  return takes them off it, so that past the limit the next is never looked at
  (`postgres.ts:728`, against `sweep.ts:24`).  Overlapping passes may exceed the daily cap
  together (`005_push.sql:24`).
- Two processes whose clocks differ, or one that has been advanced, beat more than once
  an interval (`heartbeat.ts:14`); the seed of the world uses the machine's clock, not
  the world's (`postgres.ts:76`).
- A limiter whose clock steps back leaves its buckets negative for as long as the step.

Client:

- A purchase tried again by hand mints a new key, and so is a second purchase.
- `useResource` applies answers in the order they come; the journal's pages are fetched
  before a line that a window which slides, or a successor, has taken away.
- Form SO-1's `dirty` does not cover the site; a request has no timeout.
- Switching notifications off after a restart does not hand the push token back
  (`usePush.ts:41`); a permit cleared early keeps its key spent; a rebuild that waited
  for the permission dialog may schedule a dead recruit's shift after a newer one.
- A refresh does not wait for the rebuild it starts (`ServerProvider.tsx:37`).  When two
  take turns, the second refunds what the first has spent and cancels what it has not
  yet handed to the phone; the slot ids are shared, so that one notification is left, and
  it may be that of the older snapshot.

## Proofs

`Career_proofs` proves, with only `CareerAssumption` (the constants are of their
types), that `Career` keeps `TypeOK`, `OnlyNewestServes`, `PendingIsTheirs`,
`CareersDoNotOverlap` and `DeadAreClosed`, and that it implements `Entitlement`.

The invariant is `IInv`: the first four of them, that the table is never empty,
and that `banked` names deaths on file.  None of the four is inductive alone:
`PendingIsTheirs` needs `OnlyNewestServes` to know whose death a resolution
records, and the bound on `banked` to know that a fresh record has not been paid;
`CareersDoNotOverlap` needs both to know which row a resolution extends.
`LivedIsResolution` says once what any resolution leaves; `SavingCommits` shows
that eight handlers only commit one; `SaveKeepsIInv` does those, and
`DeliveryKeepsIInv` the three forms that append a recruit.

Of the ledgers it proves `LaddersClimbedInOrder`, `AwardsAccounted`, `OffersAreHonoured`,
`AdviceCanBeTaken` and `ScreensSurviveFunerals` for any catalogues that are ladders.
Two assumptions come with the views (`ViewsAssumption`): the tiers of a track are numbered
without a gap, once each, and cost no less than those below (`tuning.ts:502`, `:790`,
`transfer.ts:95`); and one tick of service rounds to a point of pension
(`PENSION_SERVICE_RATE`, `tuning.ts:237`, at any Service Credit).  On other catalogues the
screens' next rung and the handlers' would differ; with a smaller rate an officer who
was never paid could be shown less than the recruit who died.

The strengthening of the ledgers is `LedgerInv`: every ladder is climbed in order, the
licences are not exceeded, an open assignment is not a completed one, and both sums hold.
`Awarded` is a sum over a finite set, a fold the provers cannot unfold.  That it takes
in each award once (`SumGrows`) is proved from the existence of the fold's function, a
smallest counterexample among the finite sets (inclusion is well-founded on them) standing
in for an induction.  The sum then changes only where `banked` grows, by the one award
that `PendingIsTheirs` says was not yet in it.  For the screens, `ScreensInv`: until a Form
T-1 the recruits are numbered in the order of the table, and a death that waits for its
claim is worth something (`AwardPays`); permit, number and pension do not fall in any
step (`Shows`, `ClaimDelivers`, `RetireDelivers`), and screens are opened by those alone.

`Gates_proofs` proves `TypeOK`, `ChargedOnce`, `ReplayTellsTheTruth` and
`ReservedMeansServed` for any number of requests and purchases and any timings of `Idempotency`.  The
strengthening says who holds the row: with no lapse, a request at work is the only
one and the row is reserved for its purchase (`Held`), what was charged is what the
row answers or the one request at work is about to record (`Accounts`), and what is
answered or about to be was charged, lapses or not (`Backed`).

Of `RateLimit` it proves `RateHeld` and `RetryAfterIsEnough` for any keys and any limits
that meet `LimitAssumption`.  What a bucket is worth (`Refilled`) is kept by the sweep,
for a bucket old enough to be forgotten is full again (`OldIsFull`), and grows by
`Refill` a moment (`MomentWorth`).  So it never exceeds `due` (`NeverMoreThanDue`), and
with what comes back until the promised moment it makes a token (`PromisesAreKept`,
from `RoundedUp`).

`Offices_proofs` proves of `Guild` `TypeOK`, `WorkSettledOnce`, `BarIsTheWork`, `ObjectivesWereMet`
and `PaidOnceWhenClosed` for any number of officers and any rotation.  The
strengthening: an open transaction has read the row as it is, and there is one of
them (`Held`, the row lock); nothing is settled for a cycle not yet left (`Ahead`);
the bar is below its target, and cycles to come have no work (`NotYet`).  Without
`Held` a settlement could be made against a row another officer has since rolled.

Of `Casework` it proves `WellFormedFiles`, `FilingsInOrder` and `FilesGoRightly` for any
drawer, clauses, grades, worths, times and absences.  The strengthening (`PanelInv`):
finds are numbered apart (`FindsNumbered`); a form knows finds that were made, and only a
transfer consumed one (`FormsRemember`); what a transfer brings may be on the file it was
filed for, as long as that is in the drawer (`FitToCarry`).  That the walk over the forms
due reaches all of them rests on one of them being the first (`NextInLine`).

Of `Storage` it proves `OneAccountPerDevice`, of the tables of Postgres, for any phones,
sign-ins and bounds.  The strengthening (`RowsInv`): accounts have numbers up to their count
(`AccountsNumbered`), so that the next is nobody's; nobody is recruited to an account still
to be opened (`RecruitsOnFile`), so that its first recruit serves alone; and a handler that
appends a recruit has closed the one it found in the same transaction (`CareersWork`).

It proves `AdaptersAgree` too: for any devices, accounts, tokens, events, ledgers, limits and
times, after any calls, what memory answers is an answer Postgres could give.  The
strengthening (`Same`, with `RowsInv`) says table by table what the two have in common:

- the arrays of accounts, recruits and deaths hold the rows (`Holds`), the first two at the
  place of their id, the deaths from the last id back, their `at` never rising on the way;
- the journal and the tavern are the rows in the order of their ids, entry by entry, although
  burnt serials leave gaps in the one and not in the other (`Parallel`);
- a ledger, a token, a push event or a key has one row for each entry of its map;
- nobody in service has a death of the account after the day they began (`DeathsBefore`), so
  a death that ends them is later than all before it, and where nobody serves the last
  death has its `at` to itself (`LastAlone`).  Without it a claim could be paid from
  one record in memory and from another in Postgres.

The reads follow from `Same` (`RowsRead`, `ListsRead`): for a list, that a sorted set has one
order (`SortedOnly`), and that the same places filtered out of the array and selected from
the rows come out in the same order, cut to the same last ones (`SomeById`,
`LastSelected`).  Every action keeps `Same` by a lemma of its own (`NextSame`), most of them
through `Kept`: what is not written stays the same in both.

`Client_proofs` proves `LockedOutByANewKey` and `SnapshotsNeverGoBack` for any form, window,
page and orders, and any number of losses and new keys.  A call that has been sent outlives
the sign-in it waited for, so the strengthening compares what it carries with when it was
made: a sign-in under way began after every call that may still be refused, and brings a
token no older than that (`NotBehind`).  The snapshots need that one refresh is out at a time, and
that what it brings is no older than what is shown meanwhile (`InStep`).

`Sweep_proofs` proves `RungOnce` for any accounts, devices, fates and passes.  The
strengthening: a death has one holder, who has claimed it (`OneHolder`, from the primary
key of `push_sends`); who was rung for is claimed (`RungWasClaimed`); and what the
holder has yet to ring was rung by nobody (`NotYetRung`).  Only three steps matter, and
all others let a death go or wait (`QuietStepsKeepInv`).

`Server_proofs` proves `ServesItsOwnSchema` for any servers, deploys, builds and clocks:
no recorded file comes after one that is not (`NoGaps`), and what a boot has read and
not met, with what is recorded by then, is all its build asks for (`NothingForgotten`).
The next file to apply is the least of those left, which exists because inclusion is
well-founded on the intervals up to them (`LeastExists`).

`Transactions_proofs` proves `MinutesServedOnce`, `LostOnce` and `OnlyUnguardedCross`
for any requests of an account and any bounds.  The invariant `TransInv` says what is
committed (`Committed`: recruits and deaths in order, with their histories), what every
open transaction has done to it and where in its handler it is (`Holding`: what its
uncommitted version adds, `Adds`), and that two of them neither hold the recruit nor
have drafted one (`Alone`).  What makes it inductive is that the holder's recruit is
alive and the last, so a draft is always the committed rows with one row changed or one
added: hence a commit installs a filed table again, and finds every other request
without the recruit.  For the crossings, `Copies` says of each row a transaction has
read that its version is still the committed one, or was written by a handler
`Unguarded` names, or that the transaction has lost the recruit since, in which case it
can only write as a claim that is `Overtaken`; a commit by the holder keeps this because
the other requests then hold nothing (`CommitKeepsOthers`).

`Span_proofs` proves `CutsDoNotMatter`, `LostOnlyBelow`, `NeverSentBeyond` and
`PermitsTakeTheirTime` of `Resolve` for any dice, ladders and orders and any tuning
within two assumptions.  `ResolveAssumption` gives the constants their types, and lets
no rung of a permit ladder lie above the one before it (`sites.ts`).
`SharesAssumption` is about the percentages: at every maximum a grade and its files can
add up to, a bite of hunger and a capped blow together leave something, and are no more
than the retreat order meant to cover them keeps back.  That is a statement about
rounding, false for a maximum of a few points, and true at every maximum of the code: 40
points and 11 a grade over 12 grades (`tuning.ts:358`), 12% of them either way in files
(`items.ts:288`), with 4% and 35% taken (`resolve.ts:560`, `tuning.ts:372`).

The invariant is `Shift` (`ShiftStands`).  That the recruit and the reader of every
minute agree when nothing waits is not inductive, for nearly always something does; what
is, is that the span that waits, *were it played now* from the recruit as saved, would be
at what the reader holds (`KeepsPace`).  One more minute keeps this because a request in
between would have changed nothing.  Opening a span anew makes of a sound recruit what the
span had made of it (`OpenedAlike`), but for the deepest floor; and two states of a span
that differ there only stay so, and end in the same minute, dead or alive (`MinuteAlike`),
since nothing but the award reads it.  The first of these needs that a minute leaves a
recruit sound (`MinuteIs`, part by part of the loop): inside the maximum its grade and
files add up to, on its feet or lost underground, with no application that was due, no
deeper than it was sent.  `SharesAssumption` is used there, for the bite of hunger that
is checked by no death of its own.  `DatedBack` says how far an expediting has moved an
application, once and by half of the wait, and `LostFairly` keeps the cause of a death in
sight while its span waits.

Of `Assignments` it proves `EachCompletesOnce` and `PaidUnderItsRules` for any catalogue,
spans and careers.  The strengthening: what is open was never completed (`Unfinished`);
it was accepted no later than its recruit is resolved to (`TimelyFor`, across deaths,
retirements and transfers); and the work since has kept the rules (`UnderItsRules`), which
is what a payment copies.

Spans, promotions, sales and the counters of an assignment are recursive functions.  That
they exist and keep in range (`RecordExists`, `CountersAfterType` and their like) is again
the absence of a least minute that breaks it.

Type correctness, `PendingIsTheirs`, `DeadAreClosed`, `ObjectivesWereMet` and
`ReservedMeansServed` are proved and not checked again by a run.

Model-checked only: the liveness, and `Notify`.  Liveness and ENABLED are out of the
prover's reach; `Notify`, like the properties of the other violated runs, is there for what
it shows to be violated.  What recursive
definitions compute is within reach where one set is well-founded, as above, and lists
where they are written by place rather than with `SelectSeq` or `SetToSortSeq`, whose
operator parameters the provers cannot instantiate.

Looking for `Shift` corrected a property.  With larger bounds than the run's, TLC refuted an
earlier `NeverSentBeyond` and `PermitsTakeTheirTime`: the reference jumps to the recruit
after a recess, over floors and permits that no minute of it was sent to or granted.
Both are now about the steps of the recruit and the minutes of the reference (`Steps`).

## Plan

Done: the modules above and the proofs of `Career`, its ledgers and views, `Idempotency`,
`Guild`, `Casework`, `RateLimit`, `Sweep`, `Server`, `Transactions`, `Resolve`, `Assignments`,
`Client` and `Storage`, so that every safety property a passing run checks of them is
proved.  Left: the hazards no property covers, which PROJECT.json names with the reason.
The differences listed above without a run could each have one.

The runs are kept few: a question gets one, and a module shares a run with another
where neither needs bounds of its own.

## Not modelled

Journal prose, flavour, the glossary, the forecast and the digest are text or numbers
nothing is decided by.  Routing and parsing call one service function a route.  FCM's
transport and its signed assertion, secure storage, the layout of the screens, and the
developer's harnesses under `server/tools` are outside the models.  What a migration
changes in the schema is not modelled, only that it is applied.  Market quotes and world
events are data: a price is one constant.  The developer's clock advance is a sequence
of minutes and of resolutions like any other (`Career`, `Server`).
