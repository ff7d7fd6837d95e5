# Verification of the home bookshelf management system

This directory holds TLA+ models of the home bookshelf server (FastAPI, SQLAlchemy, SQLite or
PostgreSQL), of the parts of its Vue front end, its command line client and its batch script
that keep state across requests, TLC configurations that check them, and proofs checked by
TLAPS. Every definition is translated from the source under `src/`; `PROJECT.json` maps each
to its lines.

Contents: [the system](#the-system), [hard behaviours](#what-is-hard-to-test),
[modules](#modules-and-the-code), [runs](#runs), [fairness](#fairness),
[proofs](#proofs), [disagreements](#where-code-and-documents-disagree),
[not modelled](#what-is-not-modelled), [plan](#plan).

## The system

One process (uvicorn, several handler threads, one database session per request) serves a
household: members in browsers, agents over HTTP and MCP, and a command line client.
`backend/app/db.py` opens SQLite in WAL mode with `busy_timeout` 30 s and
`autoflush=False`; the location domain is written for PostgreSQL as well (row locks with
`FOR UPDATE`), and another instance of the server may run on the same database.

| Component | State it keeps | Operations | Hard about it | What makes it correct |
|---|---|---|---|---|
| Location write transactions, `services/storage_tx.py` | `location_operations`: key, digest, result; row locks | `begin_operation`, `complete_operation`, `run_in_txn`, `lock_resources`, `collect_*` | concurrent deliveries of one key, retries after an `OperationalError`, lock order | executed at most once, the receipt with the effect, the same answer for every delivery |
| Browser journal, `stores/storageOperations.ts`, `LocationOperationRecovery.vue` | entries in `localStorage`: key, payload, status | prepare, send, settle, check, reject | reloads, lost answers, two tabs that save the whole journal over each other, a panel that sends from an old list, refusal overtaking a commit | what was sent stays unconfirmed, under its one key, until its outcome is read; what is shown as completed was committed |
| Location domain, `services/storage_locations.py`, `storage_placement.py`, `storage_intake.py` | rooms, shelves, layers, cells (archived, version), the place and version of each copy | create, update, archive, restore, full layout replacement, placement, move preview and execution, copy intake | archive against placement in transactions that write different rows; locks collected before they are taken; versions quoted by clients | a located copy stands in an active chain; no lost update; the whole layout is replaced; no deadlock |
| Shelf photos, `services/storage_photos.py` | rows, staged and final files, collection jobs with leases | upload, update, delete, `process_gc_jobs`, `promote_staged_uploads` | file and row have no common transaction; death between any two steps; two instances | a shown photo has its file; nothing is left behind; one primary photo; the limit |
| Photo intake workbench, `services/intake_workflow.py`, `views/BatchIntakeView.vue` | work items, photos, candidates with versions, commands with leases; the page's copy of them and what is typed over it | upload, build, recognize, edit, split, match, confirm, execute, retry | reads outside the write transaction; leases that run out; editing while executing; a page that shows what was, and an owner who leaves it or opens another item while it waits | a photo in one confirmed candidate; a book created once; a receipt has its book; leases respected; what is confirmed is what was displayed |
| Book intake, `services/intake.py`, `metadata/` | books, covers, the process-wide intake locks | `intake_book`, deduplication, metadata policy | duplicate checks before a slow lookup, covers written before the locks | one book per content; no book loses its cover |
| Catalogue, `services/books.py`, `storage.py`, `catalog_read.py` | books, copies, attachments, cover, spine and thumbnail files | create, update, merge, delete, cover upload, listing by pages | files replaced and removed outside the transaction, ids used again, pages of a list that moves | no lost or left file, no orphaned row, one book per ISBN, a merge loses nothing, a walk misses nothing that stayed |
| Copies, purchases, notes, reading, logs, tags, custom fields, attachments | one or two tables each | CRUD | progress per member and book, default rows on demand | each row hangs on a book that is there |
| Agent clients, grants, tokens, `services/agent_access.py` | clients, grants with versions, token hashes | create, renew, revoke, rotate, authorise | a token is verified row by row while rows change | a revoked token authorises nothing that starts later; a token means the scopes it was issued under |
| Sign-in and permissions, `auth_context.py`, `api/v1/web_auth.py`, `members.py`, console commands of `admin.py` | members, credentials, sessions | sign in, out, change and reset password, disable, role change | commits in a row, a login that overlaps a change | sessions and tokens follow the role and the password; guessing is bounded |
| Rate limiting, `rate_limit.py` | in-memory windows | check, reset | check and count apart | no more than the limit per window and those let in before |
| MCP server, `mcp_server/`, `security_audit.py` | buckets, sampling tables, the audit log | one request at a time, tools over the same services | the log fails, is sampled or suppressed | nothing is handed out that is not in the log |
| Metadata providers, `services/metadata/` | none (a chain, timeouts) | lookup | partial failure | first acceptable answer |
| Recognition, `services/recognition.py`, `vision.py`, `cover_recognition.py` | cached settings | recognise | external service | |
| Queries and statistics | none | read only | | |
| Front end views and stores | per-tab state | lists that load more | stale answers | a list holds the books of one search |
| CLI, `cli/bookshelf` | a token file and the file that names it | login, logout, calls of the API | killed between two files, two processes | a login that succeeded holds |
| Batch import, `scripts/batch_import_covers.py`, `batch_manifest.py` | a manifest file with an entry per photo, paired by book | scan, edits by hand, run, reconcile, verify | runs that die, lost answers, requests carried out late, retries with other options, books merged afterwards | one book per pair, nothing repeated unasked, nothing sent that was not let pass, a clean report misses nothing |
| Start, backup, migrations, administration | database file | | | |

Interactions. HTTP handlers, MCP tools and the CLI (over HTTP) call the same services.
The location services share `storage_tx` and read copies that `books.py` may delete. The
workbench calls `intake_book`, which takes the process-wide intake lock and writes the
candidate's receipt in the same transaction as the book. Changes of a member's role sweep the
tokens of `agent_access`; every MCP request passes `auth_context`, the limits and the log. The
photo store reads the shelf
under `storage_tx`'s locks and is run once more at every start (`main.py` calls
`resume_gc_jobs`). The browser's journal speaks to the location API only.

## What is hard to test

`PROJECT.json` lists the hazards, each at its line. The ones the models are built around:

* two deliveries of one operation that both pass the look-up for its receipt, a
  transaction repeated after an error that may have come after the commit, a process
  that dies anywhere (`StorageTx`, `OperationJournal`);
* the rows to lock are read before they are locked, and the check that lets a copy be
  placed and the check that lets its room be archived are made in different transactions
  (`Storage`);
* SQLite reads before a request's first write are outside its transaction: the workbench
  writes whole columns from what it read earlier (`IntakeCandidates`);
* a lease that runs out while its holder is inside a slow metadata lookup
  (`IntakeExecution`), and a page that confirms by id what it displayed some time ago
  (`Workbench`);
* a password is hashed, a token verified row by row and a role changed in several commits,
  while sessions and tokens are made beside them (`Members`, `AgentAccess`, `McpServer`);
* a cover is written before the transaction that refers to it and removed after the one
  that lets go of it, under a name that others may choose (`Catalogue`, `CoverThumbnails`);
* a staged file, its row and its final file, with a retry, a second instance, a start-up
  recovery and a collector that can meet at any of them (`ShelfPhotos`);
* a manifest that remembers what was sent before it knows what was done, edited between runs,
  run again with other options and reconciled with a library that has changed (`BatchImport`,
  `BatchReconcile`);
* answers that arrive in any order, and pages cut out of a list that moves (`CatalogueLists`).

## Modules and the code

### `StorageTx`, `IdempotentOperation`: keyed writes

`StorageTx` follows one request through `begin_operation` (`find`, `insert`, `reread`), the
business part (`work`) and the commit. `pc`, `attempts` and `answer` belong to the
handler thread, `inserted` is the uncommitted row of `location_operations` that makes
other inserts of the key wait, `receipt` and `author` are the committed row and
`effects` counts the committed business writes under the key. `FindOperation` is
`_find_operation`; `RegisterKey` is `add` and `flush` with its unique constraint;
`RereadReceipt` the `IntegrityError` branch; `Commit`, `Refuse`, `Busy` and
`CommitUnacknowledged` are the four ways in which the rest can end, the last two through
the retry branch of `run_in_txn`. `Crash` rolls back whatever is under way.
`GlobalWriter` says whether one writer excludes all others (SQLite) or
only writers of the same key wait (PostgreSQL, where a commit's acknowledgement can also be lost).

`IdempotentOperation` is the promise in five lines: per key, one payload is performed
once, and answers repeat it. `ImplementsPromise` is the refinement under
`performed <- receipt, by <- author, answered <- answer`.

### `OperationJournal`: the browser's side

Extends `StorageTx` by the journal shared by all tabs (`payload`, `status` per key) and a row for each tab
(`tab`): where its handler is, the copy of the journal it has read and is going to save (`rows`), its request
and the unconfirmed entries it shows (`shown`). `Submit` is `prepareLocationOperation` up to its reading of the journal,
`SavePrepared` its saving, `Post` the sending; `ReceiveReceipt`, `ReceiveRefusal` and `LoseAnswer` are what
`sendLocationOperation` does with an answer or none, and `Settle` with `SaveSettled` what `settleLocationOperation` reads
and saves. A save replaces the whole journal by what was read with one entry changed: what another tab
saved in between is lost (`overwritten`). The recovery panel works on the list it read last
(`Refresh`): `CheckReceipt` takes an entry from it and asks the server, `ReceiptFound` settles it and `Replay` sends it again,
whatever has become of the entry meanwhile, as long as it is there (`Stored` is all that `assertOperationOwner` looks at).

### `ShelfMap`, `Storage`: rooms, shelves, layouts and copies

`ShelfMap` is the abstract specification: a tree of nodes in use or archived, copies that stand
only where the chain above them is in use, every change one step. `Storage` implements
it with transactions: a request is issued with the versions its client saw, collects the
rows to lock from committed data (`collect_*`, `LockSet`), locks them one by one in the
frozen order (`_LOCK_ORDER`, `IsNext`; ids are numbered so that the order of kinds is the
order of numbers), checks under the locks and forms its writes (`draft`), and commits
them in one step. There is one handler action per endpoint: `SetPlacement`, `ExecuteMove`,
`CommitIntake`, `UpdateRoom`, `UpdateShelf`, `CreateRoom`, `CreateShelf`, `PutLayout`;
`CreateCopy` and `DeleteCopy` are the catalogue's writes to copies. Names, codes,
sort orders and copy types only make a request be refused, which `Refuse` allows at any time.

### `IntakeCandidates`, `IntakeExecution`: the photo workbench

`IntakeCandidates` is one work item seen from the owner's tabs; a scene fixes which kinds of
requests, tabs, workers and rows there are. A candidate has a status, a
version, a content (title, authors and ISBN as one value), photos and a match; a command
row exists under the key that is the digest of its parameters. Requests that read before
their first write (`add_photos`, `update_candidate`, `split_candidate`,
`preview_matches`) are two actions, and the second writes column by column what differs
from the first's reading (`Column`): that is what SQLAlchemy does. `build_candidates` and
`confirm_candidates` start with a write (`_lock_work_item`) and are one action each.
`ConfirmationStands` says of these that what is confirmed is what was decided and what can be
executed is confirmed.

`IntakeExecution` adds the requests that execute (`Start`, `Mark`, `Retry`, `Take`), the lease
(`Claim`, `Expire`, `_lease_conditions` as `OwnLease`), the work (`Bind`, `Check`,
`Insert`, `Receipt`, `Fail`), the recovery of an overdue lease (`RecoverRead`,
`RecoverWrite`) and the recomputation of the item's status (`SumUp`, `WriteStatus`). A
worker may die anywhere, leases run out at any moment and the requester may be disabled.

### `Workbench`: the page before the work item

Extends `IntakeExecution` by one tab whose page is followed step by step (`page`): what it
last read of the candidates, what is typed over them, what is ticked, and the one request that it
waits for. An item is read by the handler that ends or by a click in the list (`asked`: "own" or "click"), in two
steps: the server reads it (`Read`), the page displays it (`Display`), and the two readings may be displayed in any
order. Fields, checkboxes, the way back (`Leave`) and the list (`Enter`) stay open while the page waits
(`BatchIntakeView.vue:424`, `:433`: no `busy`). A handler whose request is answered reads again the item displayed then,
and fails when it finds the list (`Ended`); `confirmSelected` reads the item it began with (`Reopen`).
`Display` is `syncEdits`, which keeps what was typed while the server's content is the one
it was typed over (`Kept`); `ClickConfirm`, `Pass`, `PassSaving` and `Confirmed` are
`confirmSelected`, which saves what was typed one candidate after the other and then confirms by
ids. `Refused` and `Lost` are its two kinds of errors: a lost request may still be carried out.
`SeenIsDone` says that a click that gets through confirms what was displayed, unless the owner left the item or opened
one while an answer was outstanding (`away`); without that exception it is false, as `SeenThoughAway` below tells. At most one
click in the list is unanswered at a time; another item is only "other", with none of these candidates, and nothing is
done in it; the buttons for execution, and that the creation of an item clears `busy`, are left out.

### `ShelfPhotos`: files without a transaction

A path is made for one upload and stands for the upload, its row and its job. `Stage`
writes the staged file, `Record` commits row and receipt, `PromoteFile` renames;
`Replay`, `LookUp` and `CleanUp` are a retry under a used key. `RecordUnacknowledged` is
a commit that was reported as a failure (PostgreSQL). `Delete` commits the removal of the row with
its job; `List`, `Take`, `Check`, `Unlink`, `Finish`, `Trouble` are `process_gc_jobs`
statement by statement; `RecStart`, `RecSee`, `RecPromote` are the recovery at a start.
An upload under way is never a day old (`OverGrace`).

### `Members`, `AgentAccess`, `McpServer`: who may do what

`Members` has the members, their passwords (a password is the number of times it was set), the
sessions and the window of failed logins. A request is a thread that reads and then commits once or
several times: login is `BeginLogin`, `CheckPassword` (the slow hash, then
the outcome of the count), `CountFailure`, `OpenSession`; a change of role commits the role with the end of
the sessions (`ApplyRole`), then the tokens (`SweepTokens` of `AgentAccess`), then the
disabling (`GuardDisable`, `SetDisabled`); a new password is `FetchCredential`, `StorePassword`,
`RevokeSessions`, from a session or from the console (`BeginAdmin`, `FetchOwner`: `cmd_owner_init_password` and
`cmd_owner_reset_password` of `admin.py`). `Column` writes a column only if it differs from
the reading.

`AgentAccess` adds clients, grants and tokens. The owner's requests that compute what they write
from what they read are two steps (`BeginScopes`/`WriteScopes`, `BeginIssue`/`InsertToken`,
`BeginGrant`/`InsertGrant`); an agent's request looks at token, grant, client and member with a step
each (`Verify`), as `verify_token` does, and reads the scopes after it has committed the time of use.

`McpServer` is one MCP request at a time (the coroutine has one `await`): authentication, limits,
gate, tool, size, audit, answer, against everything above. `Audit` is `log_security_event` with its
sampling table and the pause after a failed writing; buckets and tables disappear at a `Restart`.

### `CliLogin`: the agent's end of a token

The files behind `bookshelf auth login` and `logout`: token files and `token-path.json`. A process
writes each through a temporary file that bears its number (`OpenTemporary`, `Replace`), may fail
or be killed anywhere, and numbers are given again. `Resolved` is `resolve_token`. A token is the process that wrote
it. It extends `McpServer` only so that one instance has both ends of a token; its variables are its own.

### `Catalogue`, `CoverThumbnails`, `CatalogueLists`: books, files and lists

`Catalogue` has the rows of books and of what hangs on them, and the cover and attachment files. A
transaction is one action, since SQLite has one writer; what is read before the first write, and each
file that is written or removed, is an action of its own: `DeleteRead`, `DeleteCommit`, then
`Look` and `Unlink` for each path (`_delete_cover_if_unreferenced`); `CoverRead`, `CoverSave`,
`CoverSet`; `IntakeLook`, `Save` or `DownloadFails`, `Lock`, `Recheck`, `IntakeInsert` or `Fill`. The INSERT of a book is
flushed before the `try` that cleans up (`intake.py:402`, `:436`): an intake that loses its ISBN or meets a busy database there leaves its
cover behind (`IntakeInsert`, `Busy`; SQLite gives the write lock to the first write, so that no commit meets a busy
database). `Refused` is a receipt the workbench refuses, which is inside the `try`; `NotFilled` what happens to the
cover of a book that is known. File names
are built as the code builds them (`NameOf`, `ChosenPath`), ids are used again (`NewId`), and a process may die or find the database
busy at each step.

`CoverThumbnails` adds the modification times of covers and thumbnails and visitors of the public catalogue and
of MCP's cover resource, who make a thumbnail when there is none that is new enough.
`CatalogueLists` adds the order by last change, visibility and shelving, and a reader: an agent
with cursors bound to the conditions (`Digest`), a visitor who counts pages, or one of the two lists of
the front end, whose answers arrive in any order (`calls`, `Current`).

### `BatchImport`, `BatchReconcile`: the manifest of the batch script

`disk` is the manifest file, `run` the memory of the one run under way, `late` the requests whose
client is gone and which the server may still carry out. Between runs an agent reads photos
(`Recognize`) and the owner confirms or skips them. `Begin` is `cmd_run` up to its first
save: which entries the options take on (`Target`, `Held`), which photos go along with
their main photo (`Joins`, with the snapshot of an earlier attempt as `AsTried`), which
keep it back (`Blocks`), what is merged and recorded as confirmed (`Merged`, `SureNow`) and what
fails before anything is sent (`Prepared`). `SavePlan`, `SaveLinks` and `Record` are the
`save_manifest` calls, each a replacement of the file in one step. The server finds a book by any field it
was entered with, after the metadata added some (`Gathered`, `Enter`, from `intake_book`); the metadata replace the title
of a new book unless it is protected (`Protected` is `_confirmed_field_names`, `Replaced` the field policy). `approved`,
`vouched`, `asked`, `died` and `spoiled` are history for the properties.

`BatchReconcile` is `cmd_reconcile` and `cmd_verify` over a library in which a book is merged or deleted meanwhile (`Upkeep`):
the target of a `--map` is looked up first (`Redirect`), then the book of every entry (`LookUp`), the report is made
(`Report`) and, with `--apply`, the redirection saved (`SaveMap`). `BeginVerify`, the same look-ups and `ReportIssues` are
`cmd_verify`, which compares every photo with the book of its group (`Compared`, `NoIssues`). A server that cannot be asked is neither
there nor gone (`Told`).

## Runs

A bound is named in the module or in the configuration that sets it. The larger modules have
scenes, records that say what is there at the start and what may be asked: a run takes one
question at a time in a state space of its own, over the same specification.

| Run | Bounds | What it shows |
|---|---|---|
| `storage_tx` | 3 requests, 2 keys, 2 digests, `MaxRetries` 1, PostgreSQL | keyed writes: at most once and receipt with effect (`ReceiptIsExecution`), same answers, every request ends, and the abstract promise |
| `operation_journal` | 2 tabs, 3 requests, 2 keys, 2 digests, no retries in the server | an entry shown as completed was committed and the refusal of the only delivery is final (`OutcomesAreTrue`), what was sent stays unconfirmed under one key per payload until its outcome is read (`UnconfirmedIsKept`), a retry never meets a conflict; requests, keys, payloads and tabs are symmetric |
| `storage_house` | 2 requests; a room, shelf, layer and cell, to come another layer with its cell, another shelf with layer and cell and another room; 1 copy; placement, move, layout, updates, creation | sound placements, what was relied on before the locks holds at the commit (quoted versions, whole layouts), refinement of `ShelfMap` |
| `storage_requests` | 2 requests; 1 room, 2 shelves, a copy and a copy to come; placement, intake, updates, creation and deletion of copies | no circular wait, every request ends |
| `access` | 18 scenes; 2 members, 2 requests, 2 sessions, 2 passwords, 2 wrong ones to the lock; 2 grants, 1 token, 2 scope sets, 2 owner's jobs (side by side in four of the nine scenes with agents), 1 call; MCP limit 1; 2 processes, 2 files, 3 commands | sessions and tokens follow the role, an old password is out, a token means its scopes, what is answered is in the log, guessing is bounded, revocation holds, a login holds |
| `catalogue` | 12 scenes; 3 ids, 2 ISBNs, 2 titles, up to 6 requests, up to 3 side by side; with crashes and a busy database in two scenes and refused receipts in one; 1 visitor with up to 2 visits, 1 reader | files and rows match, rows have their book, one book per ISBN, a merge keeps all, thumbnails follow covers, a walk misses nothing that stayed, a list is of one search |
| `intake` | 8 scenes; up to 3 candidates, 2 photos, 2 contents, 2 tabs of which one has a page, 2 workers, versions to 3, 2 claims per command | a photo in one confirmed candidate, confirmations stand, one book per content, leases respected, receipts have their books, what is seen is done while its owner comes and goes |
| `shelf_photos` | 3 uploads, 2 keys, 1 collector, 1 recovery, limit 2, 2 attempts; a third upload only when another was answered and no collection or recovery has begun, a recovery with one job | content kept, one primary photo and no third one, nothing left behind |
| `batch_import` | 4 scenes; 1 cover and 1 barcode photo of one book, any number of runs with any options and requests carried out late, or with photos in doubt and without `--retry-unknown`; copies counted to 2, equal abandoned requests once; or one merge or deletion, reconciliations and verifications | one book per pair, nothing sent unapproved or in part, confirmed fields protected in every attempt and in the book that is made, no unasked second copy, redirections, reports and verifications sound |
| `intake_edit_after_execution`, `intake_page_after_error`, `catalogue_two_scans` | the smallest instance that shows it | violations of what a message or comment says, below |

Why these bounds. Keyed writes interact through one key only: two deliveries
of it and a stranger meet every branch, and `MaxRetries` 1 has both a retried and an
exhausted attempt. Every conflict of the location domain is between two transactions over one
chain; a third request is covered by the proof for any number. One candidate is enough for the
lease protocol, since commands of different candidates share no row but the item's
status; three candidates let two compete for photos while a third is made by a split. `MaxEpoch` 2 lets a command
be taken over once; the holder that lost it and the one that took it are then both there.
Sign-in races are between a login or an issue and one change; two requests overlap in all their steps, and two
members let the owner act on another and on himself. Versions to 2 let a token be bound to a version that is replaced.
In the catalogue, two books are what a merge, a shared cover and a stolen name need; a third id lets one be used again, and four to six requests
are long enough for a deletion, a creation under the same id and name, and a look at the outcome.
Uploads: two are a photo and its replay; three are needed to reach the limit with
two photos that both want to be primary. Books of a manifest share nothing but the file, which is
saved whole: one pair has a main photo, a member and every way of retrying them.
Two processes, one temporary name left behind and a third command are what the CLI's files can suffer.

`CHECK_DEADLOCK FALSE` in every configuration: requests end and none is issued again, so
the models stop. That nobody stops while waiting is `EveryRequestEnds` and
`NoCircularWait`.

Each property of a passing run has a mutant: a change of a mapped definition of the kind a
programming error makes (marked "Mutant" in the modules) under which TLC finds the property
violated with the same configuration.

## Fairness

`FairSpec` of `StorageTx` and of `Storage` assumes weak fairness of `Step(r)` for every received
request: a handler thread that is not killed goes on, and the database grants a lock
that is free. Nothing assumes that a client sends anything, that a lost answer is asked
for again, that a lease runs out, or that a process dies or does not; the other
specifications have no fairness and no liveness property is stated of them: what their requests wait
for is a slow computation, a person or a lock that one writer holds at a time. In `Storage` weak
fairness is enough although requests compete for locks, because each issues finitely many
operations; the endless wait that remains possible is a circular one, and that is what
the property is about.

## Proofs

TLAPS checks, for every value of the constants that satisfies the named assumptions:

* **`OperationJournal_proofs`**, of `StorageTx` (assuming `RetriesAssumption`, `NoneAssumption`):
  `TypeCorrect`, `ReceiptsAreExecutions`, `AnswersAgree` (with
  `ErrorOnlyWhenExhausted`), `ReceiptsAreStable` and `ImplementsIdempotentOperation`. The
  inductive invariant adds to the types: `KeyOwned`, a request in `work` owns the uncommitted row of its
  key, and there is then no committed one (this makes two executions of a key impossible); `RereadFinds`, whoever lost
  the insert finds a committed row (so that a lost race is never a server error); and the
  bound of the attempts. The refinement is shown action by action. `AttemptsRunOut` and `WaitsAreForWork` are about the way
  to an answer: a request takes at most three steps per attempt, each bringing it nearer to its end (`Rank`), and
  whoever waits to insert a key waits for a request at its business write (`OpenRows`), which waits for nobody.
* **`OperationJournal_proofs`**, of `OperationJournal` (the same assumptions): `ServerRunsUnderJournal`, the
  composition: whatever the tabs do, the server takes steps of `StorageTx`, so the theorems above hold
  of it; and from them `JournalTellsTheTruth`, `UnconfirmedStays`, `RetriesAgree`. The
  invariant `JInv` ties the two sides: what was sent and what was committed is what its key was made for (`SentAsMade`);
  the journal, and every copy of it that a tab is going to save, holds one unconfirmed entry per payload, shows as
  completed only what was committed and as settled only what a tab has read (`CopiesSound`); what was sent and
  not read is unconfirmed unless a save has lost it (`SentIsKept`);
  the author of a receipt is never refused, as it can only have lost the acknowledgement and then finds its own
  receipt (`AuthorsAreNotRefused`, which makes a sole refusal final).
* **`Storage_proofs`** (assuming what the module assumes of the house: kinds are disjoint,
  parents are of the right kind, `Born` rows have `Born` parents): `TypeCorrect` and
  `PlacementsAreSound`. Placements are not inductive by themselves, because the check and
  the commit are different steps: the invariant adds what a formed but
  uncommitted write relies on. A draft that places copies holds locks on every row of every
  chain it places them in, and those chains are open; a draft that archives holds the lock on
  the rows it archives, and no copy stands there. Nobody else's
  commit can then close a locked open chain, since any draft that archives a row has that
  row locked too.
* **`StorageRefinement_proofs`** (the same assumptions) adds a second layer, `Reliance`, which follows a request from
  the moment it is formed: what it names exists and goes on existing, the rows it collects hold every row it quotes
  (a layout whose shelf has not changed since collected the whole shelf), they are locked in ascending order, and a
  draft touches only rows it has locked or creates. From it follow `RelianceIsKept` (what was checked still holds
  at the commit); `ImplementsTheShelfMap`, where each commit is one step of `ShelfMap` under the refinement mapping and everything
  else a stutter; and `NoDeadlock`: among finitely many requests that wait, one waits for the greatest row; its holder
  waits for a row above all it holds, so for a greater one. In a finite house `RowsRunOut` bounds the steps of a request by the
  rows there are, each step bringing it nearer to its end (`Rank`), and `SomeoneGoesOn` says that the requests in flight
  never all wait: a row to lock next always exists among those missing (`NextRow`), rows are locked by requests
  in flight only (`HoldersAreInFlight`), and they do not wait in a circle.
* **`ShelfPhotos_proofs`** (assuming `LimitAssumption`, `NoneAssumption`): `TypeCorrect` (with
  "never staged and final at once"), `ContentIsKept`, `NothingIsLeftBehind`, `AlbumIsSound` and
  `JobsAreOfDeletedPhotos`. The invariant says for each place of an upload, a collector and
  the recovery what is known of its path (`UploadInv`, `GcInv`, `RecInv`), that jobs are
  of photos without a row (`Deleted`), that receipts are of committed uploads and that a final file is one of a
  committed upload (`Receipts`, `Finals`). `AlbumInv` is separate and uses the library's theorems about
  finite sets. They hold without the two constraints of the run.
* **`Workbench_proofs`** (assuming `SceneAssumption`, `WorkersAssumption`, `PageAssumption` and what the other modules assume),
  for any number of candidates, photos, tabs and workers, with the page at work. `BooksAreMadeOnce`, `LeasesAreRespected` and
  `ReceiptsAreOfBooks`: requests of the desk matter to the execution only by `DeskEffect` (they add pending commands and supersede
  some that are not being executed), and claims are numbered upwards (`ClaimsNumbered`), so that a lease in force has one holder.
  `PhotosAreClaimedOnce` and `ConfirmationsStand` rest on `Decided`: in one tab no request is overtaken, so that what an edit
  writes over is what it read, versions only go up, and a command with the version of its candidate belongs to a
  confirmed one. `ReceiptsAreOfBooks` rests on `Receipts`: a worker that is
  to write a receipt, its own or a recovered one, knows that the book is there, and books do not go.
  `WhatIsSeenIsDone` rests on `PageSound`: while the owner stays (`Attended`), what the page shows is what is stored, except where
  somebody else touched it or the confirmation in progress has saved it already.
* **`Access_proofs`** (assuming `MembersAssumption`, `AgentAssumption`, `McpAssumption`, `CliAssumption`): `AccessAlwaysFollowsRole`,
  `OldPasswordsAreOut`, `ScopesAlwaysHold`, `AnswersAreAlwaysAudited`, `GuessingIsBounded` and `RevocationAlwaysHolds`, for any
  number of members, sessions, grants, tokens and requests. The invariant has a layer per module, and no layer needs the
  ones above it. `MemberInv`: a session whose password is old is one that a request under way is about to end
  (`SessionKnows`), which needs what each request carries from step to step (`RequestRow`); and the logins that were let in
  and may still fail are counted with the failures (`WindowOK`). `AgentInv`: scopes read under a version are those of the
  grant while it has this version, whoever holds the reading (`UpTo`, for tokens and for requests of the owner); a token that
  was void when it was shown is still refused by one of the steps to come (`StillVoid`). `ServerInv`: what every stage of
  an MCP request has behind it, up to the row in the log (`Logged`).
  `SuccessfulLoginsHold` is about the client's files: `CliInv` says that the chosen path leads to a file that was written
  (`Chosen`), which rests on the order token before path, what a process under way has written of its two files
  (`Written`), and what a process that is alone may rely on (`Known`).

* **`BatchReconcile_proofs`** (assuming `PairingAssumption`, `SceneAssumption`, `NoneAssumption`, `TwinAssumption`,
  `OddAssumption`, `AliveAssumption`): `GroupsConsistentHolds`, `OnlyApprovedHolds`, `SentAsConfirmedHolds`,
  `CopiedOnceHolds` and `ReconcileSoundHolds`, for any photos, pairs, options, number of runs and reconciliations. What holds of
  the manifest is said of every copy of it (`Views`: the file and the memory of the run; `Manifests`: that of the reconciliation
  too), and the invariant has a layer per question: `PassInv`, what was attempted or is to be was let pass; `SentInv`, what was
  confirmed of a main photo stays in it and is recorded unless it still shows; `CopyInv`, a group nobody asked for again has one
  request or one copy, and its entry tells or is going to; `BookInv`, every field-made book is met by every request there is or
  may be, because the fields of the requests of a group are a chain; `LinkInv`, imported photos are linked as their main photo, and
  redirected ones to a book that is there; `SeenInv` and `RecInv`, what a reconciliation has seen and a redirection leaves
  behind. `CalmShape`, `NewViews` and the lemma of each action say what a step does, so that a layer needs only its own facts.
* **`Catalogue_proofs`** (assuming `BookAssumption`, `RequestAssumption`, `KidAssumption`, `NoneAssumption`, `SceneAssumption`,
  and for the pages `SizeAssumption`: a page has a row at least, as `search_catalog` makes sure),
  for any number of books, rows, requests, visitors and any scenes. `TypeInv` has what a request knows at each of its places
  (`Knows`); from it follow `OneBookPerIsbnHolds` and `MergeKeepsAllHolds`. `RowsInv` gives `RowsHaveTheirBookHolds`: rows
  with a foreign key always have their book; attachments and custom fields have none (`models/extension.py`), so for them it holds
  where requests come one at a time or none of them inserts one (`Careful`), and nowhere else. `FilesMatchRowsHolds` has three invariants,
  for the three kinds of scenes the run has: no referenced file is missing there, through crashes, a busy
  database and refusals, and none is left over, through refusals. One request at a time (`FilesInv`): it knows the
  rows as they are (`Held`), and of every file it is clear whether a row or this request has it (`Whose`, `Tidy`). Requests
  at once that write no file (`RemovingInv`): no row comes to refer to a file again, so what was found without a row stays so.
  Intakes, creations and edits at once whose covers have names of their own (`ScanInv`): no row and no other request
  has the path a request brings (`Brings`), and where each intake brings one and every book has a cover, no file is left over
  (`GatherInv`). Nothing is claimed of the remaining overlaps: among them are those where the property is
  false, two scans of one ISBN (`catalogue_two_scans`) and the ones noted below. `PictureInv`
  gives `ThumbnailFollowsCoverHolds` where covers get the time at which they are written, as an upload that brings
  its own does not (`Dated`). `HouseInv` gives `ListIsOfOneSearchHolds`: one page of the last number is under way at most, and what is shown is of
  the filter unless its first page is still to come. The shared shelf and a first page that fails are excepted because the property is
  false there, as noted below. `WalkInv` gives `WalkMissesNothingHolds` for any books, page sizes and changes between
  two pages: the books stand in one strict order (`Ordered`; `RestampOrdered`), so no two have one position (`Places`) and no more than `k`
  stand on `k` places (`FewBetween`). Of the books the reader may count on, those not seen that stand before the next page are
  at most as many as ceased to match (`Behind`): when `k` cease to match a book comes forward by at most `k` places (`ComesForward`), so at most
  `k` more slip in before the page, and reading it adds none (`PageRead`); after the last page every book stands before its end.

Each proof has one lemma or step per action and the temporal theorem at its end.

Attempts that failed have changed the models. `GuessingBounded` once had an exception for replaced passwords and
counted from the last lock-out; for three requests it was false: a correct password whose verification had begun before the
lock-out clears it, and the failures of others counted from before it. `wrong` now starts anew only when a lock-out
overlaps no other verification, and the exception is gone. `MembersAssumption` lost the finiteness of the members and gained that of
the requests, and that who is signed in at the start exists; `AgentAssumption` was added.

The order of the books was a sequence until it was to be reasoned about; it is the relation now, and its pages are cut by
the number of rows before a row: the same states, and no induction over a sequence.

Only model-checked: the two liveness properties, `EveryRequestEnds` of `StorageTx` and of `Storage`, which are out of the
prover's reach, as ENABLED is. What is proved of them is their safety core: steps run out (`AttemptsRunOut`, `RowsRunOut`) and
while a request is in flight the guard of a step of some request holds (`WaitsAreForWork`, `SomeoneGoesOn`, where the guards are
written out instead of ENABLED); that a step whose guard stays true is taken is the fairness assumed above.

## Where code and documents disagree

Three runs end in a violation, with the quotation in `PROJECT.json`:

* `intake_edit_after_execution`: an edit read before an execution commits and written after it turns an
  executed candidate back to review.
* `intake_page_after_error`: a confirmation saves what was typed and then fails; typed back to what the page last
  read, the text counts as saved, and the next confirmation confirms what is no longer displayed.
* `catalogue_two_scans`: two intakes of one new book download their covers under one name, and the one
  that finds the book made by the other removes that book's cover.

Properties that state further disagreements or limits are defined in the modules and can be shown by
changing a configuration:

* `RejectedMeansNotCommitted` (`OperationJournal`), as invariant of `MCOperationJournal.cfg`: the refusal
  of a second delivery settles an entry as rejected while the first one's commit is still
  to come.
* `UnconfirmedAlwaysKept` (`OperationJournal`), as invariant of the same configuration: two tabs read the journal and save it
  one after the other, and the later save drops the other's unconfirmed entry (`storageOperations.ts:67`, `:90`); the
  comment at `:49` says that all unconfirmed operations are kept.
* `SentWhileUnconfirmed` (`OperationJournal`), as property of it: the panel sends an entry of its list that another tab has
  settled as rejected since (`LocationOperationRecovery.vue:27-42`), and a form one it found unconfirmed before (neither `assertOperationOwner` nor
  `sendLocationOperation` looks at the status). The key is the same, so it is executed once at most, but perhaps after a refusal was shown.
* `SeenThoughAway` (`Workbench`), as property of `MCIntake.cfg`: the owner confirms, goes back to the list and
  opens another item before the loop is through; the candidates are not found there, what was typed is not saved
  (`BatchIntakeView.vue:309`), and the stored values are confirmed (`:340`), against the comment at `:302-304`. Going back to the list
  alone ends the loop with an error while a candidate is left to look at.
* `LosersCleanUp` (`Catalogue`), as property of `MCCatalogue.cfg`: an intake whose INSERT loses the ISBN leaves its cover
  file, because the INSERT is flushed at `intake.py:402` and the clean-up belongs to the `try` at `:436`; the comments at `:442`
  and `:449` say that the collision is met there and the cover removed.
* `ArchivedUntouched` (`Storage`), as property of `MCStorageHouse.cfg` with `Kinds = {"layout"}`:
  a layout that repeats `archived=true` archives and bumps a row that is archived already;
  comments in `put_layout` (`storage_locations.py:510`, `:562`) say it skips it.
* `ActiveOwner` (`Members`), in the scene with roles: two owners demoted at once, each on seeing the other, leave none
  (`api/v1/members.py:197`, `_guard_last_active_owner` reads before either commits).
* `OldPasswordIsOutAtOnce` (`Members`): a login that verified the old password before the change opens its session after
  it. The console's reset looks the owner up again between setting the password and ending the sessions
  (`admin.py:58`), so that after a change of owner in between the sessions of the wrong one end.
* `ScopesAlwaysAsIssued` (`AgentAccess`): two changes of one grant's scopes that overlap write the same
  version (`agent_access.py:257-263`), so a token issued between them is accepted with other scopes
  (`:343-344`). And no grant is ever stored as "expired" (`:325`, `:347-350`): its tokens have run out by then.
* `ConfirmedAsDecided` and `PhotoClaimedOnce` with two tabs: an edit read before another tab's confirmation and written after
  it leaves the candidate confirmed with another content and no command, where a docstring
  (`intake_workflow.py:513`) says that an edit takes the confirmation away; it may also then share photos with another. `PhotoClaimedOnce` likewise
  fails in one tab with a worker: an edit between a command's last check and its receipt is marked as executed with
  the photos it gave the candidate.
* `CompletedLeavesNothing` (`IntakeCandidates`), with candidates `{1, 2}`, photos `{p1, p2}` and kinds
  `{"upload", "build", "execute"}`: an item can be summed up as completed while new candidates wait (`intake_workflow.py:1016`).
  A slow upload likewise puts an item that was confirmed meanwhile back to review (`:159`).
* `ReceiptAsConfirmed` (`IntakeExecution`), with kinds `{"upload", "build", "update", "execute"}`:
  where no book is written, the confirmation is checked before the transaction that
  stores the receipt.
* `ResumeOffered`, with candidates `{1, 2}` and kinds `{"upload", "build", "execute", "retry"}`:
  a command that a dead worker left in execution in a partial item is offered by no button.
* `DoneMeansGone` (`ShelfPhotos`): a deletion collected between the commit and the rename of the upload is
  done before the file exists; the file then stays (`storage_photos.py:470`, against `:8-9`).
* `ContentKept` without its exception: on PostgreSQL, an upload whose commit was not
  acknowledged removes the staged file of a photo that exists (`storage_photos.py:254`).
* `ThumbnailIsOfCover` (`CoverThumbnails`) without `scene.exact`: a cover uploaded with an old time (`storage.py:224`, `copy2`)
  or replaced while the thumbnail is made is never shown: the thumbnail counts as newer
  (`public_catalog.py:157-161`).
* `CheckedFieldsProtected` (`BatchImport`): with `--yes`, a confirmed photo whose main photo was only recognised is sent
  under the default policy, and the metadata may replace what the owner checked
  (`docs/batch-import.md:368` and `:138-139` against `batch_import_covers.py:447-466` and `:612-622`).
* `CopiedOnce` without `died`: a run that dies with a request sent leaves its entry confirmed, and
  the advice to run again (`docs/batch-import.md:366`) repeats the request without the question
  that an unknown outcome would raise; with `--location` a second copy is registered. `run` and `reconcile` take no lock on
  the manifest, and after a second merge a redirected main photo and a photo linked late may be on two books.

Noted while modelling, outside the scenes:

* Catalogue: two changes of one book's cover leave a file, as do two intakes that fill one coverless book; a crash after a commit leaves the
  files it would have removed (`books.py:249-253`); `delete_book` reads the attachment paths before its
  first write (`:229-253`), so that a merge in between leaves or removes a moved attachment's file; an
  attachment or custom field inserted after the deletion of its book stays, and a reused id adopts it.
* Lists: `load()` and `loadMore()` of `SharedBookshelfView.vue` ask with what is typed, not with what was searched
  (the comment at `:24-25`): with the reader "shared", `ListIsOfOneSearch` is violated; a failed first page of `useBooks` keeps the old list; `GET /books` counts
  before it reads; paging by offset loses one book for each that leaves.
* Members: the uniqueness of a channel binding (`members.py:93`) is checked before it is written, in a JSON column where two
  changes overwrite each other; a disabled member's channel still counts in `authorize_member_bind`.
* CLI: a temporary file left by a killed login makes every later one with the same process number fail; a login
  whose second file fails reports that the token was not saved although it was.
* Concurrent updates of reading progress can leave "finished" below 100 %.

## What is not modelled

Reading, formatting and validation of input (they only refuse); caption, sort order and the versions of photos; image decoding;
two runs of the batch script at once, or an editor open during one (each saves the
whole manifest over the other's changes); conflicts of ISBN ownership in the workbench; the creation of work items and the `force_link`
resolution; PostgreSQL's behaviour in the catalogue, where a merge is not alone with its rows. In the components: metadata
providers and recognition are external services
that answer anything or fail; queries and statistics answer from one read; bindings of members to channels, bootstrap tokens and the
trusted network decide each request by itself; reading progress, tags, purchases and notes change one row in one
transaction; migrations and backup are run while the server is not.

## Plan

1. Keyed writes and their browser journal: `StorageTx`, `IdempotentOperation`, `OperationJournal` — done
   and proved.
2. The location domain: `ShelfMap`, `Storage` — done and proved, the refinement and the lock order included.
3. The workbench: `IntakeCandidates`, `IntakeExecution`, `Workbench` — done and proved.
4. The photo store: `ShelfPhotos` — done and proved.
5. Members, agents and MCP: `Members`, `AgentAccess`, `McpServer` — done and proved.
6. The client's token file: `CliLogin` — done and proved.
7. Batch import: `BatchImport`, `BatchReconcile` — done and proved.
8. Catalogue: `Catalogue`, `CoverThumbnails`, `CatalogueLists` — done for SQLite and proved; to come: reading progress and merges on PostgreSQL.
