# Min: a verification project in TLA+

Min is a Next.js application for the operations staff of a financial adviser.
A browser shows one screen at a time (account opening, money movement, meetings,
compliance, ...). What a screen does it does through one function, `callSF`, which
posts to one route, `/api/salesforce`; the route writes to the firm's Salesforce
organisation. All code is under `src/frontend/src`; paths below are relative to it.

Modules here are named after what they model. `X.tla` holds the state, the
actions and the properties of a component, `XProofs.tla` the theorems about it
(`PrimitivesProofs` those about the two Salesforce primitives, `ScreensProofs` those about the
document intake and the money movement, `ConnectionProofs` those about `TokenManager` and `AppSetup`, `FiguresProofs` those about the functions behind
`Figures`), `X.cfg` the instance that TLC checks. `PROJECT.json` lists components, runs,
mutants, theorems, hazards, and the source lines behind each definition.

## 1. Inventory

### 1.1 What is modelled

| Part | State it keeps | Operations | What is hard |
|---|---|---|---|
| Salesforce primitives (`lib/sf-client.ts`): `sfFetch`, `create` | none; one retry loop per call | send, wait, back off, time out, read the body | the answer of a request can be lost although it was carried out; a request given up can still be carried out |
| Batch of tasks (`lib/sf-client.ts`): `createTasksBatch` | records and errors of the batch | validate, composite chunks, sequential fallback | a later chunk fails after an earlier one succeeded |
| Household creation (`lib/salesforce.ts`, `api/salesforce/route.ts`, `handlers/households.ts`, `lib/workflows.ts`, `lib/crm/adapters/salesforce.ts`) | Salesforce's households, contacts, tasks | `callSF` with retries, dispatcher, `confirmIntent`, `fireWorkflowTrigger` | check-then-create; attempts of one call overlap on the server; half-done work behind a 502 |
| Connection (`lib/sf-connection.ts`, `api/salesforce/connection`, `api/salesforce/callback`) | an encrypted cookie per browser, one `refreshPromise` per server process | resolve a token, refresh, log in, log out, disconnect | one promise shared by all browsers; responses overtake each other |
| Account opening wizard (`app/flow/*`) | the reducer's state, the draft in `sessionStorage`, the handoff | every control of 14 pages, reload, return | pages rely on guards of other pages; going back, correcting a name, restoring a draft |
| Paperwork pipeline (`executeGen` in `app/flow/useFlowState.ts`, `handlers/onboarding.ts`, `api/docusign/route.ts`) | `sfRef` (household and envelopes of the mount), evidence, the progress page | create, record, send envelopes, record tasks, poll | runs left behind by Start Over share `sfRef`; later records certify earlier ones that failed |
| Money movement wizard (`app/money/MoneyScreen.tsx`) | the screen's state, the household of the context | pick a household, fill in, submit, start again, leave | late answers; one mount serves many movements |
| Application shell (`lib/app-state.ts`, `app/page.tsx`, `lib/demo-context.tsx`, `lib/use-idle-timeout.ts`) | screen, household, stack of pages; setup step, role, connection, demonstration mode | navigate, back, land, reload, sign in, idle out | three connection checks whose answers arrive on any page; a redirect that loses the page's memory |
| Organisation mapping (`lib/org-query.ts`, `lib/schema-discovery.ts`, `lib/manual-mapping.ts`, `api/salesforce/discover`) | a variable of the process, a cookie, a database row | discover, classify, map by hand, query | one variable for all organisations; metadata calls that are refused |
| Meeting log (`app/meeting/MeetingScreen.tsx`) | notes, household, picture, draft | write, read a picture, save, hand off | a draft that is restored under another household; a picture read while typing |
| Compliance review (`app/compliance/*`, `lib/compliance-engine.ts`) | three refs and the checks; the batch scan's stored report | scan, record, batch scan | nothing cancels a scan; checks are keywords in texts the program itself writes |
| Document intake (`app/documents/DocumentScreen.tsx`) | one document, or a queue of them | classify, decide, match, save, cancel | loops go on after Cancel and write back arrays taken before the decisions |
| Lists and figures (`lib/home-stats.ts`, `lib/task-subjects.ts`, `app/tasks/TaskManager.tsx`, `app/dashboard/usePracticeData.ts`, `app/family`, `app/briefing`, `app/activity`) | none: functions of what was listed | count, filter, score | several screens compute the same figure in their own way; names used as keys; time zones |
| Rules and records (`lib/custodian-rules.ts`, `lib/format.ts`, `lib/sf-validation.ts`, `app/onboard/OnboardScreen.tsx`, handlers) | none | choose documents, validate a request, import a file, write the records | a rule and the form for it live in different files; a validator can refuse what a page lets through |

How they interact: a screen's steps call `callSF` (browser), which repeats the
request on transient failures; the dispatcher resolves a token (connection), checks the
role, validates, and runs a handler, which calls the adapter, which calls the primitives. The
primitives are the only place that talks to Salesforce, and everything above
them inherits their uncertainty about a request that was never answered.
Screens never talk to each other: they share the shell's state
(`WorkflowContext`, handoff), the storage of the browser, and what is in Salesforce: the
compliance review looks for words in the tasks that the wizards wrote.

What makes them correct, in one line each:

- primitives: an acknowledged create has happened; only a broken connection can
  make it happen twice;
- batch: every input is reported once; duplicates come only from a broken
  connection or a restart behind an acknowledged chunk; it ends;
- household creation: the answer tells what exists; without `force` no second
  household; a call comes back unless it waits for a token or a body that never comes, and then, if no
  connection of it broke, nothing of it still runs;
- connection: cookies stay with their owners; a valid token is what a request is
  served with; one refresh at a time, and it releases everybody who waits;
- account opening: past a page, what that page asks for is there;
- paperwork: a run writes to its own household; the screen shows only what was
  done for the opening on it; an opening gets a second household only behind one it was never told of;
- money movement: the last page describes what was answered; nothing of one
  movement reaches the next;
- shell: the back button goes where it was; setup is passed in its order, with the role chosen;
- mapping: queries are built from the organisation's own mapping; a household made under a mapping is found under it;
- meeting, compliance: notes and checks stay with the household they are of; nothing is logged twice;
- documents: nothing rejected is sent, nothing is sent twice but in named cases, everything taken is
  sent unless the page is closed or a request is never answered;
- figures: what two screens say of the same tasks agrees; parts add up to totals;
- rules and records: what the wizard prints is what the custodian asks for, on the owner's own data; the requests it
  builds pass the validators; a family of a file is made, with those of its members that Salesforce took, or reported with its reason.

### 1.2 What is not modelled

| Part | Why |
|---|---|
| Audit trail, personal-data access log | written behind a call and not awaited; no code compares its two copies or reads them back |
| Read-only handlers, data port, queries | one query each and a mapping of fields, without state; what status a task is filed with, and a household's tasks, are in `HouseholdPages` |
| Settings | one page, mostly layout; connecting, disconnecting and discovery from it are in `AppSetup` |
| PDF and report routes | layout: functions of the request |
| Demonstration: tour, booth, demo data, seeding | serves demonstrations only; the mode itself, where it changes the setup, is in `AppSetup` |
| Analytics, health, embedding, reconciliation | stateless, one query each |
| Rate limiter, security headers | external timing and headers only; what the browser sees of a refusal is in `HouseholdCreation` (`Reject`) |
| Query, planning, workflow pages | they read fields the answer does not have and therefore show nothing (3.4): a model of them would say nothing of the tasks |
| Client portal | it judges a client by the tasks of all households (3.4); no property of one household's page can be stated |
| Overlapping loads of briefing and family page | in the plan; what they make of what they load is in `HouseholdPages` |

## 2. The modules

### `SalesforceFetch`, `RemoteCreate`

`SalesforceFetch` is the loop of `sfFetch` (`lib/sf-client.ts` 108-153) under
`create` (247-280). `pc[c]` is where a call is (backing off, waiting for a status,
reading a body, returned), `attempt[c]` the loop's counter. Salesforce is the environment: `wire[c]`
holds the attempts it has been sent and may carry out (`Commit`) or refuse
(`Refuse`) at any later moment, also after their sender has given them up.
`created[c]` is the set of attempts that made a record. `broken[c]` is a history
variable: attempts whose answer was never seen.

`RemoteCreate` is the abstract specification: what a caller may rely on. An
acknowledged call has left at least one record, a failed one may have left any
number, and a record may still appear afterwards. `SalesforceFetch` implements
it under the mapping `verdict` (from `pc` and `result`), `copies <- created`; TLC
checks this (`ImplementsContract`), and `PrimitivesProofs!Refinement` proves
it. The modules below are written against that contract rather than against the
loop: a write of theirs may leave another record whose answer was lost.

### `TasksBatch`

`createTasksBatch` (366-443) and `_createTasksSequential` (450-461). `next` is
the first input of the current chunk, `made[i]` counts the tasks of input `i` at Salesforce,
`acked` the inputs that a composite answer acknowledged, `phase` where the function is. `link` remembers
whether a connection broke. The three ways through are `CreateSingle`,
`ChunkAnswered`, and `Fallback` followed by `CreateOne` in any order and
`AllSettled`.

### `HouseholdCreation`

One `confirmIntent` call from the click to the answer. A call `c` has attempts;
each attempt is a request of its own, `<<c, n>>`, that runs on the server whether or
not the browser still waits for it. `step[r]` is where the handler is: finding
the household by name, creating it, its contacts, their relationship,
querying the workflow's tasks, creating the missing ones. The browser's side, `pc[c]`, fetches a CSRF token (`Call`),
sends (`Send`) and waits for the headers under the timer of 35 s, which is cleared when they are in (`GiveUp` is possible until then). A
transient status starts another attempt (`Retry`, `Resend`), of any other the body is read (`ReadBody`), and the answer is taken or, once, a rejected
token replaced (`TakeAnswer`, `RefreshToken`). `Drop` is a connection that breaks, in either wait. `Reject` is everything that refuses before the
handler runs: CSRF, rate limit, role, validation, no token. `owed` holds
households whose create was given up and may still be carried out (`LateCommit`): also those of a server that was lost with the request out (`Die`, which
may leave contacts, tasks and the relationship as well).
`RivalCreates` is anybody else creating a household of that name. `shaky`
remembers calls that a broken connection, of the browser or of the server, may have cost a record's acknowledgement.

### `TokenManager`

The session is a cookie: a request carries the one it was sent with
(`carried[r]`), and only its response (`response[r]`) can change the
browser's (`Arrive`), in any order, or never (`LoseResponse`). `flight` is the
process-wide `refreshPromise` (`lib/sf-connection.ts` 171): the request that runs the
refresh and the connection it refreshes. A request that meets it waits
(`JoinRefresh`) and gets its outcome, success or failure. The kinds of request are
the API call (dispatcher), the logout after 15 idle minutes (POST), the disconnect
(DELETE, with revocation) and the OAuth callback. What the encryption does is
modelled by `Stored`: a cookie decrypts to what was stored, and one written
with another key (`CorruptCookie`) to nothing and is deleted.

### `AccountOpening`

The reducer of `useFlowState.ts` with the guards of the pages in `FlowScreen.tsx`.
Data are reduced to what the guards read: a client is a name and whether the form
is complete; an account is its owner's name, its type and whether funding was
decided; beneficiaries are names and accounts. Every control of the wizard's pages is an action, the quick-fill of the demonstration mode included:
`QuickFill` enters two clients whose forms are not complete and two accounts that nobody decided the funding of, and `JumpToReview` is its timer of 100 ms, which takes whatever
page is shown then to the review (`jumps` counts the timers set). `Draft`, `Mount` and `Remount` are the effects that
save and restore the draft, without the three fields that may not be stored
(`Forget`). `running` counts the runs of `executeGen` under way, of which only the end
matters here (`RunEnds`). History variables: `resumed` (a draft was restored),
`interrupted` (the screen was started over under a run), `quick` (a quick-fill reached this opening).

### `PaperworkRun`

The pipeline of `useFlowState.ts` 416-564, several runs at once. A run is one call of
`executeGen`; `run[r]` holds its mount, its opening, its place. `sfRef[m]`, the ref of mount
`m`, holds the household of the latest run to create one and its envelopes: runs write to what is in there when
they come to it, not to what they created. `created`, `untold` and `records` are
Salesforce's side: `untold` are the households made behind a `confirmIntent` that failed for its caller (a 502 after the create, a lost answer). `evidence`, `page`, `statuses` are the screen's. All calls may
fail; creating the household is the only failure that ends a run, back to the review, from where the next run sends `force` again. `JumpToReview` is a second click of quick-fill: the review is shown
under a run (`waiting`), with its button off. `Poll` and `PollAnswered` are the envelope statuses of the last page. `overlapped` marks the mounts that
were reset while a run of theirs was under way, `overtaken` says that a poll was out when the opening shown was begun.
`ScreenIsOwn` is about everything that page shows: the evidence, the household, the envelopes followed and their statuses.

### `MoneyMovement`

The six pages of `MoneyScreen.tsx` and the parts of the shell that mount and unmount it. `sends`
holds the requests made, with the values they were made from (`submit`), `out`
those not yet answered, `answered` the last one answered. `picks` are the household
detail calls under way, each carrying the household it was made for; the answers
come in any order (`selectHousehold`). `details` is the form, `selected` the
household. `Request(...)` is what `submit` builds from the form, a stale `toAccount`
included. `again` is the palette opening the screen on top of itself: the history then
holds the screen twice and going back does not unmount it. History variables:
`reselected` (the household was changed while details were filled in),
`interrupted` (an answer to an earlier choice arrived during a request and took the page away).

### `Navigation`, `Trail`, `MeetingScreen`, `ComplianceScreen`, `Practice`

`Navigation` holds the reducer's `NAVIGATE`, `GO_BACK` and the landing on `ready` (`lib/app-state.ts` 129-175) as
functions of the record `[screen, ctx, stack]`. `MeetingScreen` and `ComplianceScreen` are the two screens as functions of
their state records, one operator per handler or effect; a state exists only while its screen is mounted. `Practice` is the
router of `page.tsx`: its operator `Shows(n, m, c, d)` shows page `n`, keeps the state of a screen that stays mounted, mounts a new one otherwise, and runs
the effects that follow the page's household, so that no action leaves an effect undone. A note is the set of households it is
about; a scan is the household it reads and the stage it is in; `data` stands for the three refs that scans share. `Trail` is the abstract
specification: what a back button promises, without a stack. `Practice` implements it (`BackPromise`). History fields: `kept`
(notes or a picture were there when another household was picked), `logged` (the page said "Meeting Logged"), `crossed` (scans or recordings overlapped).

### `AppSetup`

`tab` is the page's memory, `device` cookies and storage, `server` the process and `org_patterns`. `Becomes(t)` is a change of the page
together with the effects React runs before the user can act (demonstration mode when not connected, skipping the CRM page, saving
the role, starting discovery). The three checks of the connection are in `asked` until they are answered, on whatever page; `SignIn` is the redirect
to Salesforce and back, which mounts a page without memory. `server.memory` is `mappingCache`; `Loaded` is `ensureMappingLoaded`.
`served`, the organisations the process has worked for, is a history variable.

### `DocumentIntake`

`page` is the screen's step and flags, `queue` the status of each document (`gone` when it is not in `batchDocs`). `loops` are the runs of
`handleBatchUpload` (classifying, then matching), `saves` the runs of `saveBatchApproved` with the documents they have still to send; both
go on whatever is shown. `Refill` writes back the array of the loop, with the decisions that were not in it. `verdict`, `rewound`, `hurried` are
history. `Exit` leaves the screen, behind which its loops and saves go on; `Close` is a reload or a closed tab, which ends them, with the request that was out received or not. `Hang` makes a save's
request one that is never answered (`stuck`).

### `CustodianRules`, `AccountPaperwork`, `ClientRecords`, `RequestValidation`, `ComplianceEngine`, `BatchScan`

Functions of an opening, a file or a household. `CustodianRules` is the table of `lib/custodian-rules.ts`; `AccountPaperwork`
what the wizard prints (`docsFor`, the envelope, which form a generator fills in, on whose data). `RequestValidation` is
`ACTION_ROLES` and the validators. `ClientRecords` parses a file into families, builds the requests of an import and of the wizard, and says what text each handler
writes; a text is the set of the compliance keywords in it. `Created` is what the handler's answer lists of the members: those Salesforce took, the others dropped without an error. Of
what is typed as an account's source, amount and account number, which no page limits, the length is kept. `ComplianceEngine` looks for those keywords; `BatchScan` runs it over the book in chunks.

### `SchemaDiscovery`, `OrgQuery`

The metadata calls (any may be refused), the heuristic classification with its confidences, and the filters the queries make of a
mapping, whether discovered or made by hand. A mapping by hand classifies what was stored of the discovery (`Stored`), which has neither required fields nor package patterns
nor the marks of custom fields. A name stands for what the patterns recognise in it.

### `Lists`, `TaskSubjects`, `HomeStats`, `TaskLists`, `PracticeData`, `HouseholdPages`, `Figures`

The figures as functions of a list of tasks and households. Days are integers; a due date is midnight of UTC, as JavaScript reads it.
`Lists` is `find`, `filter`, `sort` and `reduce` of JavaScript's arrays. The operators of the libraries (`SelectSeq`, `SortSeq`, the folds) go through a list element by
element, and what they do to every list could be shown by induction only. `Lists` defines the result at once, by the places its elements come from: a filtered list has the
places that pass, a sorted one all places in a strict total order (the comparison, then the place, since JavaScript's sort is stable), a sum is the number of the units of all
elements. That is what the code's calls return, and it can be reasoned about.
`TaskSubjects` says what the matchers of `lib/task-subjects.ts` find in each kind of subject, one of them entered by hand; `HomeStats` has the home page, `TaskLists` the
task manager, `PracticeData` the dashboard. `HouseholdPages` has the pages about one household: with what status and
priority the handlers file a task, the family page's lists and data quality, the briefing's figures and sentences, and the activity feed.
`PagesAgree` holds for every pair of tasks as filed, begun or completed.
`Figures` is the checking module of all the pure modules: from its initial state each action
takes one input of one kind (an account to open, an organisation, a book, a household, a book to scan, a file, a run of the
wizard), and the properties compare what two or more functions answer to it.

Conventions: actions have the names of the functions or controls they model;
history variables are read by properties only, never by guards; the environment (Salesforce, the network,
time) has actions of its own. A definition `MutX` is a plausible bug in `X`; PROJECT.json names the property each one breaks.

## 3. The runs

| Run | Instance | Question |
|---|---|---|
| `sf_fetch` | 1 call, 3 attempts as in the code | what an answer says about the record; which retries duplicate; that the contract is implemented |
| `tasks_batch` | up to 4 inputs, chunks of 2 | is every input reported once, what is doubled, does it end |
| `household_creation` | 1 call, 2 attempts, 2 members, 1 workflow step | what an answer says about the records; duplicates; when a call comes back and whether anything of it still runs then |
| `token_manager` | 2 browsers, 2 requests at a time, 1 login each, client credentials | owners of cookies and tokens, one refresh at a time |
| `token_logout` | 1 browser, 2 requests | *violated*: a session comes back after its logout |
| `account_opening` | a couple and a contact, individual and joint accounts, at most 3, 2 runs, 1 quick-fill at a time | what is known by the time paperwork is generated, page by page and past a quick-fill |
| `paperwork_run` | 3 runs, 2 openings, 2 mounts, 1 recording step | whose household is written to; what the screen claims; which openings get two households |
| `money_movement` | 2 households, 3 kinds, 2 picks, 2 movements | does the last page describe what was answered; does anything leak |
| `documents` | 3 documents, 2 loops or saves at once | what is sent, how often, on whose decision |
| `practice` | 2 households (interchangeable), 2 pages to go back to, 2 scans and 1 recording at once | whose notes and checks; is the trail kept |
| `app_setup` | 2 organisations, 2 roles, one tab | what opens the application; what survives the redirect; whose mapping |
| `figures` | the inputs of `Figures.tla` | do the functions agree with each other and with the rules |

### 3.1 Bounds, and why they are enough

- `SalesforceFetch`: calls do not share anything, so one is enough; `MaxRetries` is the code's 2.
- `TasksBatch`: four inputs in chunks of two give one and two chunks, a full and a
  partial last chunk, the single-task path and the empty batch. The code's 25 differs
  in size only (the proofs hold for any).
- `HouseholdCreation`: two attempts (the code has three) are enough for two requests of one call to
  overlap and for a retry behind a half-done attempt; a third adds another copy
  of the same. `MaxRetries >= 1` is assumed: with none there is no room for the CSRF refresh. One call: rivals are `RivalCreates`.
- `TokenManager`: two requests are needed for a shared refresh, two browsers for one
  browser's refresh to serve another; slots are reused, so the sequence of requests is not bounded. One login each:
  a second adds only another generation of the same cookie.
- `AccountOpening`: one name per client (any number in the proofs), one individual and one
  joint type, three accounts (one each and the couple's), one timer of a quick-fill at a time (`MaxJumps`). `Followed` is a
  state constraint: once a run was started over, its late end takes the page from whatever opening is on the
  screen, no property says anything about it, and TLC does not follow it until the next
  opening; of an opening with a quick-fill it follows the page of the quick-fill, the review, the run and the last page. The proofs follow all of it.
- `PaperworkRun`: the recording steps share one shape, one stands for six. Two openings and
  two mounts give a run left behind in either way; the third run is needed for a household made behind one that was left and failed. The proofs hold for any number.
- `MoneyMovement`: two labels, of which one is an IRA; three of the kinds,
  one with a destination account, one with an IRA as its source, one plain: the page's conditions tell no more
  apart. The constraint `Uninterrupted` leaves out, likewise, what follows an interrupted request.
- `DocumentIntake`: three documents give a queue of two behind or before another one; two runs at once (`MaxAtOnce`, of the
  loops and the saves together) give every pair that can overlap. Tasks are counted up to two, since the property tells one from more.
- `Practice`: two pages under the one shown give a stack that is pushed and popped in the middle; two scans overlap in every way two can; households are
  interchangeable, hence the symmetry, and only safety is checked with it.
- `AppSetup`: two organisations, one of them the other users'; two roles, one the demonstration's. No bound is needed: every
  variable is finite, and the proofs hold for any organisations and roles.
- `Figures`: inputs are chosen at the boundaries the code compares with: every account type and custodian; days on both sides of each
  threshold; texts at and behind their limits; as many refused calls as change the answer. They are examples chosen by kind, not all inputs.

`CHECK_DEADLOCK FALSE` is given where the modelled thing ends: a call returns, a
batch is done, an input was taken, the tab was closed, the bounded number of runs or movements is used up.

### 3.2 Fairness

- `tasks_batch`: weak fairness of the next step. Every request settles (each attempt of `sfFetch` has a timer, and attempts are
  counted), and the function does nothing else. `BatchEnds`.
- `household_creation`: weak fairness of what the browser's timers and event loop bring about (`Timers`): the delay before an attempt, the 35 s, the reading of a status that has
  arrived. Nothing is assumed of the server, and nothing makes a token or a body arrive: their fetches have no timer (`lib/salesforce.ts` 57, 105, 151, 134). So
  `EndsQuietly` says that a call comes back or waits for one of the two from some time on.
- `app_setup`: weak fairness of the two answers the discovery page waits for, which may be failures. The user need not act. The
  page's own fetches (`page.tsx` 193, 227) have no timer: that they settle is an assumption about the browser and the network. `DiscoveryMovesOn`.
- `documents`: weak fairness of the answers, success or failure, to those requests that are answered. `Hang` leaves open which are not, so nothing is assumed of
  `callSF`, the user or the loops. `TakenIsSent`.

The other runs check safety only and state no fairness.

### 3.3 What the violated run shows

`token_logout`: an API call is refreshing its token when the idle timeout logs the browser out. The
logout's response deletes the cookie, the API call's response, which sets it, arrives
last, and the session is alive again (`lib/sf-connection.ts` 203). PROJECT.json quotes the sentence it refutes.

### 3.4 Disagreements met while modelling, not shown by a run

The models have the behaviour of the code in each of these; the properties are stated with the exception, or speak of something else.

Opening and paperwork:

- The comment at `lib/sf-client.ts` 437-439 says the fallback handles the remaining tasks; the code hands it all of them, so tasks
  acknowledged by an earlier chunk are made twice (`DuplicatesExplained` has the case).
- The draft keeps the page but not SSN, date of birth and ID number: an opening reloaded behind the form generates from incomplete
  forms (`FlowScreen.tsx` 234, `useFlowState.ts` 205; `CompleteUnlessResumed`).
- The list of checks that the completeness record certifies is a constant (`useFlowState.ts` 484, `handlers/onboarding.ts` 58-60); it is filed also when
  recording the beneficiaries failed.
- A run left behind by Start Over that fails takes the page of the next opening back to its review (`useFlowState.ts` 470), from where a
  second household is made.
- A call of `callSF` need not come back: the CSRF token and the body of the answer are fetched without a timer (`lib/salesforce.ts` 57, 105, 134, 151), the 35 s are those of the headers (`EndsQuietly`).
- Every client calls `confirmIntent` with `force`, so the duplicate check never stops one, and a 502 behind a created
  household makes `callSF` create another; so does generating again after a `confirmIntent` that failed for its caller (`useFlowState.ts` 441-442; `OneHouseholdPerOpening`). "Open Accounts" after onboarding makes a second household in the same way.
- The ACH page has no control after "No, skip for now" once it was left and is visited again
  (`FlowScreen.tsx` 429-435). Removing the second client leaves their
  accounts (265). Beneficiaries are prefilled on the first visit only
  (`useFlowState.ts` 304); the spouse is recognised by the present name (310). An answer to an older search replaces the results of a newer one (349).
- Quick-fill (`FlowScreen.tsx` 93-133) skips every page: its accounts have no funding and its clients masked numbers. Clicked twice, it takes the page from a run that is under way
  (`FundingDecided`, `CompleteUnlessResumed` are of openings without it).
- Envelope statuses that are asked for when "New Opening" is clicked are shown on the next opening's last page (`FlowScreen.tsx` 651-674; `StatusesAreOwn`).
- `NAVIGATE` keeps the handoff (`lib/app-state.ts` 145), so coming back to the wizard starts it again from the handed clients.
- `recordFunding` reads a description, appends to it and writes it back (`handlers/onboarding.ts` 21): a write in
  between is lost. More than about thirteen beneficiaries make `recordBeneficiaries` too long to be taken, and so does what is typed as a source's account number, which no page limits
  (`FlowScreen.tsx` 413), to `recordFunding` from 500 letters on (`RunIsTaken`).
- An account owned by the second client alone is printed with the first client's data (`api/docusign/route.ts` 305-310, `useFlowState.ts` 506-507).
  Fidelity's ACH form and Pershing's transfer form match no generator (299) and are printed on another form. The SEP plan, custodial and customer agreements the rules ask
  for are never in `docsFor`. The Roth rules leave a gap between 200,000 and 229,999 of joint income. The recommendation called
  "always" is cut off by `slice(0, 3)`.
- `docusign_sent` and `compliance_reviewed` are fired but match no template.

Money movement: the page says "recorded in Salesforce" also when the call failed, since `callSF`
does not throw and the `catch` at `MoneyScreen.tsx` 311 is never reached. A journal can go from an account to itself
(407). In net-to-gross mode the net amount is recorded as the gross one (287, 419). When another household of the context is picked, the movement's details stay
(`CompleteIsOwn`, `OwnAccount` leave those movements out).

Roles and failures: advisors are offered actions their role does not have (`api/salesforce/route.ts` 32-67): completing and creating tasks, the handoff;
operations' meeting notes are refused. The screens show all of them as done, since a refusal is an answer. The details of a household are read with `allSettled`
(`adapters/salesforce.ts` 283-296): a query that failed counts as an empty list, and the scan as a household without records.

Compliance and onboarding: the checks look for words, and the open tasks of the workflow contain them, so that most checks pass with
nothing done (`ScanFollowsRecords`); a recorded review contains them too. "PTE Required: No" passes the check for PTE. The household made by onboarding always fails the Form CRS check,
the wizard's always fails the identity check. "View Last Results" never shows the stored report; a cancelled scan is stored as a full one; a type's
word is recognised anywhere in a description. A late answer of a review shows "Review recorded" for a household that was scanned afterwards. In a file of clients,
families are grouped by last name, a third member is dropped, two rows of the same role make one person twice (and can lose another), and a client without an email fails the family. A client whose contact Salesforce refused is dropped, and the
family is shown as done (`handlers/households.ts` 38, 49; `OnboardScreen.tsx` 200-207; `ImportIsReported` says which clients the answer lists).
`runScheduleNow` writes back the schedules it was rendered with.

Documents: the array of an old loop brings back documents that were rejected or saved (`DocumentScreen.tsx` 308-329); a save goes on with what was undone
meanwhile (342-372), and its end enables another one (371); "Saved" is shown whatever was answered.

Meetings: reading a picture replaces what was typed during it (184); a save left by a reload can be recorded twice, from the draft; the handoff's
state survives "Log Another".

Setup and mapping: most POSTs carry no CSRF token (`page.tsx` 227, 313; `SettingsScreen.tsx` 401, 467, 886, 1066) and are refused, so the discovery
page always ends by its error or by a stored row; that row is the latest of any organisation; `clearOrgMapping` has no caller. A late answer to the CRM check
moves a user who has gone on, or whom the idle timeout sent back to the first page. Connecting from settings loses the role. After an idle timeout the screen and its household are still there, and setup skips back to them. A filter
on accounts of the hybrid kind overrides the manual answers (`org-query.ts` 149-154). A mapping by hand is classified from what was stored of the discovery (`discover/manual/route.ts` 49-93): gaps in
required fields and package patterns are lost, and OwnerId is reported as not readable.

Figures: the home screen's "due today" counts overdue tasks (`home-stats.ts` 393); lists by due date are sorted as text
(`TaskManager.tsx` 100-107); a completed "DocuSign configured" counts as a signature (`usePracticeData.ts` 362); the weighted health is not recomputed when balances arrive (492); answers to the
home statistics can arrive out of order; a snoozed task does not come back. The dashboard's data
quality takes any "@" of a household's description for account records (`usePracticeData.ts` 514), the family page does not; `PagesAgree` has the difference.

Household pages: the briefing matches words whatever their case, where `task-subjects.ts` (50-52, 73) asks every page to use its matchers, so the open workflow step "Run
compliance review" is a flagged review to it, and audit records of `sendDocusign` are signed envelopes. The adapter files a task alone as "Not Started" (`adapters/salesforce.ts` 449), a batch as
"Completed" (467), as `sf-client.ts` (342, 400) does: funding, completeness, review and meeting-note records are open items, a meeting note is overdue from its own date on, and "DocuSign configured" is
an unsigned envelope. Query, planning and workflow pages read `Subject`, `Status`, `What` (`QueryScreen.tsx` 19-28, `PlanningScreen.tsx` 88-100, `WorkflowScreen.tsx` 53), the answer has `subject`, `status`,
`householdName`: they find no task, and "All DocuSign envelopes have been sent" is said whatever is open. The portal passes a `householdId` (`PortalScreen.tsx` 45) that `validate.queryTasks` drops
(`sf-validation.ts` 331-339), so a client's progress is judged by the tasks of all households, and an undone workflow step counts as done. The meeting screen's recent list reads `household` (243), which the answer does not have.

## 4. What is proved

All theorems hold for every value of the constants, under the assumptions named in
the modules. Apart from the finiteness of `Members` and types, these are: `MaxRetries \in Nat` (fetch),
`ChunkSize > 0` (batch), `MaxRetries > 0` (household), at least one browser (tokens), that the two clients of an opening have different names, that a name
is not a pair of names, that survivorship types are joint types and that the clients and types of quick-fill are among those a user may enter (opening), that a household offers at least one account, as
`parseAccounts` always does (money), that `None` is no household (money, practice), that bounds are naturals, that recording steps are a sequence of names and there is at least one run, mount and opening (paperwork), that `None` is no organisation and no role
(setup). Different names are an assumption about the data, not something the code enforces: two clients of
one name would share an account's id.

Each `...Proofs` module follows one argument: an invariant `IInv`, which TLC found to hold on
the component's instance, is shown to hold initially and to be kept by every action, one step per action; the properties
follow from it.

- `PrimitivesProofs`. For the fetch, `IInv` needs to know, besides what is claimed, that an attempt before
  the present one that can still have an effect lost its connection, and that an attempt that answered 429 or 503 has none. From it
  follow `OkMeansCreated`, `CopiesExplained`, `RefusalIsFinal` and the step property `SilentAfterReturn`. `Refinement`
  shows that every step maps to a step of `RemoteCreate` or a stutter. For the batch, `PhaseInv` says for each phase which inputs are
  settled and how `made` counts them, by `acked` (chunks) and `records` (fallback). Gives `EveryInputReported`,
  `RecordedIsMade`, `DuplicatesExplained`, and, not needing a run of their own, `InvalidMakesNothing` and
  `OneChunkNeverDuplicates`.
- `HouseholdCreationProofs`. Two invariants. `IInv` is for `UnforcedRespectsExisting`: once a call is `known` to have
  started with a household in place, households of that name exist for good, so all of its requests stay
  in the steps up to the query (`BlockedInv`), whatever overlaps. `AnswerInv` is about what a caller is told. `RequestInv` says, for every
  place of a request on the server, which records of it are there: a handler that has come past a step has made what that
  step makes. `CalmInv` adds what holds only as long as no connection of the call broke, namely that every request but the
  current one has been answered, so that nothing overlaps and nothing comes late. A server that dies with a request to Salesforce out belongs to what the invariants cover: what it may leave
  unacknowledged breaks its call's calm. Gives `SuccessIsReal`, `DuplicatesExplained` and the
  safety half of `EndsQuietly`: a calm call that came back makes nothing any more.
- `ConnectionProofs`, the tokens. `PathInv` ties a request's place to `flight`: exactly the request in
  flight is refreshing, and nobody waits without one; `OwnInv` follows a connection along cookie, request, response.
  Gives `OwnCookie`, `ValidTokenIsUsed`, `OneRefresh`, `LogoutClears`.
- `FiguresProofs`. These are facts about operators first, for any argument, and only then about the runs'
  inputs. *Mapping*: the code searches lists in order of preference; `FirstInOf` says what such a search returns (the least index, from the library's
  well-founded induction), so that `UsableFinds` can tell for each way to a mapping that the filter it leads to accepts the record it leads to write.
  `StoredBundle` shows that what is stored of a discovery is as good as the discovery for that, `HouseholdsAreFoundAgain` concludes it for every organisation, every set of refused calls and every manual answer, if an organisation that has a record type
  has its id too; `PatternIsPicked` that the household discovery settles on is among the patterns it lists. *Compliance*: for every record and every firm's
  settings, a built-in check that fails has a remediation plan ending with operations (`FailuresAreRepairable`). *Openings*: an `Opening` is any non-empty
  sequence of accounts of any custodian, any number of beneficiaries and a name of 1 to 232 letters (from 233 on, two names and an account type no longer fit
  the 500 letters of a text). Once the household is made the accounts are twenty at most (`ConfirmTaken`); each other request is then shown to fit, one lemma each, with the
  beneficiaries' refused exactly when an account's are too long for a text, and the funding's exactly when what is typed of a source is (`OpeningsAreTaken`). What is recorded determines what a scan misses, whatever subset of the
  calls Salesforce refuses (`ScansFollowRecords`): the identity check always, the Form CRS exactly when the paperwork was not recorded. The run takes
  1, 20 or 21 accounts and names of 12 or 200 letters; the theorems have no such bound.
  *Lists*: a strict total order numbers a finite set (`InOrderOf`: the number of elements before one grows along the order), so that a filtered or sorted list has exactly the
  elements it should, each once and in order (`FilterOf`, `SortedOf`, `ListedOnce`). The rest of the module stands on these. *Reports*: the households a batch scan
  reaches are a beginning of the book, those refused are the difference in length, and what the sort puts last bounds what is in front of it (`ReportsAccount`: for households with
  ids of their own, of any number, wherever the scan was cancelled, once the page shows the report). *Paperwork*: case by case over the custodians' tables, `RulesAreMet`
  for every custodian and type it has rules for, `PaperworkIsOwn` for every account whose owner is the first client, or both with an address for the second (for the second alone it is false, 3.4).
  *Imports*: whatever the number of rows, a family is a group of the rows of its name (`GroupOf`), its household is made with one client for each place of the family that Salesforce took, or it is reported with its reason
  (`ImportsAreReported`: any role, any calls and any single clients refused, addresses that fit a text; rows that differ. It also says when two places are one row, so that the other's client is lost). What a scan misses of an imported household is computed exactly from the calls refused (`Missed`): the property of the run is the
  case of the refusals it takes.
  *Home*: the book of an advisor taken a second time is the same book (`BookIsOwn`). *Dashboard*: parts of a finite set that share nothing add up to it: a number of units for each part, numbered by a bijection of their own, are together in bijection with the set (`PartsOf`);
  every household has one advisor and one stage, every task one assignee (`PartsAddUp`, for any list of households with ids of their own and any balances).
  *Task manager*: an open task is in one bucket, and "overdue" at home is "Overdue" or "Due Today" there, whichever side of UTC the browser is on; at most twenty tasks, since home lists no
  more (`ListsFollowHome`). *A household's pages*: its four pages are filters, filters of filters and reversals of one list of tasks, and two strict orders that agree on the days of tasks agree on the list
  (`PagesAgreed`: at most twenty tasks of different days, audit records completed, as the handlers file them; tasks of one day are shown in one order by a page and in the other by the next).
  Each has its states of the run as a last step. Give `FoundAgain`, `ScansAgree`, `RunIsTaken`, `ScanFollowsRecords`, `ReviewsAccount`, `PaperworkMeetsRules`, `OwnPaperwork`, `ImportIsReported`,
  `OwnBook`, `FiguresAddUp` and `ScreensAgree`: all the invariants of the run.
- `AccountOpeningProofs`. `Ready` states page by page what may be relied on
  (names, forms, owners, funding up to `fundIdx`). It is more than the properties say: they speak of the pages past
  selection, and going back leads through all of them. It is about openings that were walked through: `RunInv` knows of a timer of quick-fill that is still to
  fire that the opening is marked (`quick`), also behind Start Over, so that no jump reaches an unmarked one. `UniqueInv` is needed
  since toggling an account takes away one by id. Gives `EveryoneHasAnAccount`, `FundingShowsAccount`, `FundingDecided`,
  `CompleteUnlessResumed`, without the constraint of the run.
- `PaperworkRunProofs`. The steps of a run are first reduced to what they have in common (`Moves`, `Refs`, `Shown`), then each conjunct is kept.
  `AloneInv`: unless a mount was started over under a run, one run of it goes on at most, and the page says so. `RefInv`: a run that writes has made its household, and
  `sfRef` names it. `OnceInv`: an opening with a household is not on a page that could generate another, and no other run is about to make one for it; it rests on
  `OrderInv`, by which nothing belongs to an opening or mount that is still to come. `AskedInv` follows the envelope statuses from the poll to the page. `untold` households belong to runs that have ended, so that
  one can precede an opening's household but none follows it. Gives `OwnHousehold`, `ScreenIsOwn`, `OneHouseholdPerOpening`.
- `ScreensProofs`. The movement: `IInv` says what each page may rely on, and that at
  most one request of an uninterrupted mount is out, the one the page shows. Gives `CompleteIsOwn`,
  `OneAtATime` and the step property `OwnAccount`. The intake: `IntakeInv` says of everything that goes on behind the
  screen what the queue still shows of it. `LoopInv`: batches share no document, and what a batch has not classified yet is undecided and in no
  save, so that a late classification overwrites nothing (a request that hangs changes nothing of that, and a closed page has no loops and no saves). `VerdictInv`: what is shown as approved was approved. `OnceInv` accounts for
  the documents outside the two exceptions of `SentTwiceExplained`: such a document waits in one save at most, and once it was sent it cannot be approved
  again. That a save sends its lowest number first needs the least element of a set (`MinIn`), from the library's well-founded
  induction. Gives `SentTwiceExplained` and the step property `VerdictsKept`, which needs no exception: a batch that is still being matched can put an
  approved document back to pending, but never a rejected one to approved.
- `PracticeProofs`. The screens are functions of records, so there is one lemma per operator of `MeetingScreen` and `ComplianceScreen` (`SavedInv`,
  `ScannedInv`, ...), and a step of `Practice` is one of them or `Shows`. `MeetingInv` and `DraftInv` say that what is written, being read or stored is
  about the household shown unless the text was taken along, and that what was logged is in no draft. `ReviewInv` says of an uncrossed
  review that one scan goes on at most, and that from the stage where the scan has stored its data these are of its own household. The middle of the sequence
  of scans is removed when one ends: `RemoveAtOf`, `DroppedOf`, `FrontOf` are the facts on sequences that this needs. Gives `NotesAreOwn`,
  `LoggedOnce`, `ReviewIsOfOne`, and `BackPromise`, the refinement of `Trail`: a pushed page is the one a later back returns to, dropping the
  oldest of a full stack (`FrontOfAppend`) keeps the trail's end.
- `ConnectionProofs`, the setup. `RoleInv`: a role was chosen before any page or pending check that leads to discovery, and the connect page has saved it; the effects
  (`EffectsOf`) keep that. `MemoryInv`: a mapping in memory is of an organisation the process has worked for, or came with this browser's cookie. Gives `SetupInOrder` and
  `AloneIsOwn`.

Every invariant and every action property of the passing runs is stated by a theorem. Only model-checked: liveness (`BatchEnds`, the half of `EndsQuietly` that says when a call comes
back, `DiscoveryMovesOn`, `TakenIsSent`), since the prover does no fairness reasoning. The refutation is TLC's.

## 5. What the models leave out

- Texts: record descriptions, document and task wording, error messages, PDF and HTML; of a text only the words something looks for are kept.
- The audit log written behind calls: it is not awaited and answers nothing.
- Queries read Salesforce at one instant; pagination is not modelled.
- Browser: the CSRF token is one per tab and its fetch shared by calls; in the model each call waits for its own.
- Account opening: the contact search, the routing-number lookup, the right pane.
- Money movement: the debounce of the search, wire templates, withholding figures.
- Setup: the loading of statistics, the palette's own list, help; one browser tab is followed in full, other users of the server by what they do to it.
- Discovery: the AI's second opinion below a confidence, field-level security, more than one active household record type.
- Household pages: what the briefing reads out of descriptions (accounts' owners, funding, bank link), the family page's notes.
- Documents: corrected values, the recognition (simulated in the code).
- Two tabs: `sessionStorage` belongs to a tab; a draft therefore has one writer.
- Several server processes: `refreshPromise` and the organisation mapping are per process; one process is modelled.

## 6. Plan

Done: everything of 1.1. What would come next, in this order:

1. A refinement of `HouseholdCreation` to an abstract "create once, answer once", on top of `AnswerInv`.
2. The screens that read with overlapping loads (briefing, family, home statistics), with the interface of `ComplianceScreen`, into `Practice`; snoozing and completing in the task manager.
3. Settings (unsaved changes, schedules written back), the rate limiter's fixed window, offboarding of an organisation.

## 7. Running it

    tlc -workers 2 -config AccountOpening.cfg AccountOpening
    tlc -workers 2 -config PaperworkRun.cfg MCPaperworkRun
    tlc -workers 2 -config Practice.cfg MCPractice
    tlapm PaperworkRunProofs.tla
    tlapm FiguresProofs.tla

The longest runs are `documents`, `household_creation`, `practice` and `figures`, between one and four minutes each.
