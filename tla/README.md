# Formal model of experts-backend

TLA+ models of the parts of experts-backend where requests, worker processes, background passes
and outside services meet, the TLC runs that check them, and TLAPS proofs about them.

## The system

A FastAPI service over one SQL database (PostgreSQL, or SQLite), an object store (MinIO, or a
local directory) and an agent gateway reached over HTTP. A request opens a connection, runs
synchronous service code, and commits. Inside one process a request gives way only at an `await`
or, while it streams, at a `yield`; separate processes and instances run at the same time, and the
database is what they share. So the hard behaviour is between statements of requests in different
processes, between the database and the object store, and, in chat, at the awaits.

| Component | State | Operations | Talks to | What makes it correct |
|---|---|---|---|---|
| Knowledge bases | `knowledge_bases` | create, update, soft delete | documents, collector | a deleted base and what it held are gone for good |
| Documents | `documents`, `upload_sessions`, objects | upload URL, complete, update, delete, list | object store | what users see has its bytes; rows and objects do not drift apart |
| Storage collector | none of its own | five passes, `POST /ops/storage/gc` | documents, library, bases, store | never removes what is in use, gets rid of all that is not |
| Object store | objects, presigned URLs | PUT, stat, remove, read | clients directly | outside the transaction |
| Chat | `chat_sessions`, `chat_turns` | session CRUD, stream a turn, cancel, replay | agent gateway | one answer per turn; record, stream and binding agree |
| Agent gateway client | none | stream, list sessions, permission | gateway | fails in bounded ways |
| Tenant members and roles | `tenant_members`, `tenants` | role endpoints, tenant endpoints | users | a tenant keeps an admin; actors keep their right until they write |
| Authentication | `users`, `refresh_tokens`, `platform_activation_tokens` | register, login, refresh, logout, activate | | a token is used once, by an active user |
| Platform roles | `platform_user_roles`, `users.status` | grant, revoke, disable | | the platform keeps an admin |
| Plans, subscriptions | `plans` and details, `tenant_subscriptions`, snapshots | CRUD, lazy default, change, listings | tenants | one current subscription, one recommended plan, no write of what was not asked for |
| User library | `library_files`, sessions, objects | as documents | object store, collector | as documents |
| Skills | `skills`, files in the store | upload, update, delete | object store | a listed skill has its files |
| Experts, categories | `experts`, `expert_categories`, links | CRUD, market lists | skills, bases, plans | references exist |
| Builds | none | answer 501 | | |

`PROJECT.json` lists each with its sources and status, and under `hazards` the places in the code
where these properties could fail, each at its line with the properties that watch it.

## Modules

| Module | Models |
|---|---|
| `Documents` | `document_service.py`, its repositories, `knowledge_base_service.py`, the store calls, the collector's document passes |
| `Lifecycle` | the promise to users that `Documents` and `Library` implement |
| `AdminSet` | the promise of a last-admin check, which `TenantMembers` and `Accounts` implement |
| `DocumentsProofs` | theorems about `Documents` |
| `Chat` | `chat_service.py`, `chat_repository.py`; the gateway is its environment |
| `ChatProofs` | theorems about `Chat` |
| `TenantMembers` | membership in `auth_service.py` and `tenant_service.py` |
| `TenantMembersProofs` | theorems about `TenantMembers` |
| `Accounts` | users, platform roles, invitations and refresh tokens in `auth_service.py`; `bootstrap_admin.py` |
| `AccountsProofs` | theorems about `Accounts` |
| `Billing` | `plan_service.py`, `subscription_service.py`, a tenant's row and subscription in `tenant_service.py`, and their repositories |
| `BillingProofs` | theorems about `Billing` |
| `Catalog` | `skill_service.py` with its files, `expert_service.py`, `expert_category_service.py`, and their repositories |
| `CatalogProofs` | theorems about `Catalog` |
| `Library` | `library_service.py`, its repository, the collector's library passes |
| `LibraryProofs` | theorems about `Library`, which implements `Lifecycle` too |
| `Summaries` | what the user and tenant listings compute from rows: subscription status, usage, filters, orders, pages |
| `SummariesProofs` | theorems about those operators |
| `MCDocuments`, `MCChat`, `MCTenantMembers`, `MCAccounts`, `MCBilling`, `MCCatalog` | instances for TLC: symmetry sets, values of function constants, state constraints |
| `MCSummaries` | `Summaries` against its definitions over bounded inputs; `MCBilling` extends it |

There are two abstract specifications. In `Lifecycle` an item is unpublished, shown, retired, or
contended for, and one that is retired is never shown again; `Documents` and `Library` each
implement it with a mapping of their own. In `AdminSet` someone is promoted, or one admin is demoted
who is not the only one, check and write being one step, until something goes past the check;
`TenantMembers` implements it with the admins of the tenant, `Accounts` with those of the platform.
The other modules are separate databases' worth of state: `TenantMembers`
and `Accounts` share only the `users` table, of which the first needs no column, and `Catalog` sees
of a knowledge base only whether it is deleted.

### Documents

`kb`, `session`, `document` are the status columns of the three tables, `object` the store,
`expired` the sessions past `expires_at` (the URL expires at the same time: both come from
`presigned_url_ttl_seconds`), `inflight` the PUTs whose URL has been accepted. One element of
`Upload` stands for a session, its document and its object key, whose ids are made together in
`create_upload_url`. A worker (`pc`, `target`) is a request between two of its points; a collector
(`phase`, `todo`, `done`, `bases`, `base`, `drop`) is an invocation of the endpoint.

- A request's actions end where another process can get in with effect: after the reads, after the
  stat, after a commit, after a removal. Writes of a transaction become visible at its commit, so
  the commit is the action that makes them. Where the code writes several rows over time in one
  transaction (the passes), PostgreSQL's row locks make other writers of those rows wait, so that
  they come after, as if all writes had happened at the commit.
- `complete_upload` is `CompleteUpload` (reads), then `CompleteExpired`, or `CompleteStat` and
  either `CompleteFailed` and `CompleteRemove`, or `CompleteInsert`. The batch endpoint calls it
  for one item after the other, which is one worker doing several requests.
- A pass selects (`List`), removes objects one at a time (`Remove`, `RemoveFails`) and commits.
  `all(...)` is `RemoveFails` in the phase `bases`: the base is skipped, its rows stay.
- `Abort` and `Crash` end a request or an invocation anywhere: rows roll back, removals stay.
  `MaxFaults` bounds them and the failing removals.
- `late` and `clash` are history: PUTs that landed after their base was deleted, and completions
  that overlapped another completion, or a collector pass, on the same key. The code has no guard
  for those overlaps (hazards list what then happens), so the promises are stated for the rest.

### Chat

One session and its turns. `title`, `deleted`, `binding` are the session row (`binding` has one
column for each route: with search and without, which `AcpRoute` chooses from); `turn` the status
of the turn rows. `Replay` is what `GET /turns/{id}/events` later makes of a row: one that is still
running ends as a completed one does. The other
variables are the locals of the generator `_stream_turn_acp` and of `_drive_acp_turn`. A stream is
at `opened` (at the yield of `turn_started`), `request` (the call to the gateway), `drive` (reading
events), `finalize` (at the yield of the last held event), or `fetch` (awaiting the session list).
One action runs from such a point to the next, with all it writes on the way. Gateway events come
in any order and number: the gateway is outside the repository.

`Yield` is the buffering of a resume: events are held until there is a sign of life. A delta is
yielded at once here, while the code gathers text in chunks; an attempt that received text is never
one that is retried in either, because its tail is yielded before the retry is decided.

`RenameOutlivesNewStreams` and `BindingFollowsStream` are stated up to what the code cannot
promise: `raced` marks streams that read an empty title before a rename, `overlap` streams that ran
beside another on their route.

### TenantMembers

`role` is the `tenant_members` table of one tenant. A role endpoint (`GrantTenantRole`,
`RevokeTenantMember`) selects the rows of its snapshot `FOR UPDATE` (`want`), locks them one by one
in the order of ids (`held`), reads and checks (`CheckUnderLock`), and writes and commits
(`WriteMember`). The tenant endpoints (`UpdateMember`, `RemoveMember`) check without a lock and
write through the same `WriteMember`; `AddMember` and `UpdateOwner` write without a check. Users
are numbers so that rows have an order. A row inserted later gets a random id in the code and its
user's number here; it can be locked by no one who took a snapshot before.

SQLite's `begin immediate` runs role requests one after the other: fewer behaviours, all of them
included. `bypassed` is history: a removal or demotion whose check another one's overlapped without
both holding the lock, or `add_member` demoting an admin.

### Accounts

`status`, `roles`, `invite` and `token` are the four tables. A request reads and checks in one
action and writes with its commit in another (`pc`, `op`); `revoke_platform_role` has a step in
between, since it selects the role rows `FOR UPDATE` and checks when it has them (`rows`).
`register`, `logout` and the bootstrap script each are one action. `current_principal` reads the
actor's status and roles on every request, so every endpoint checks `Manages`.

- `update_user_status` counts admins without a lock on PostgreSQL. The other admin's role may be
  revoked between its count and its write, and the last admin is then disabled, which
  `docs/api/users.md:289-290` excludes: `accounts_claim` shows it. It also counts role rows whatever
  the status of their users, so that disabling one admin after another can leave no active one; the
  properties speak of role rows, as the code does.
- `stale` is history: another commit has written a status since a login or a refresh read it.
  `contested` and `doubled` are tokens and invitations that two requests were using
  at once, `bypassed` an admin revocation whose rows were all deleted while it waited for them.
- Expiry of tokens, which only takes some away, is left out.

### Billing

`code`, `recommended` and `prices` are the plans, `state` and `planOf` one tenant's subscriptions,
`owner` the owner in its row. A request reads, and finds the rows its UPDATEs and DELETEs will touch
(`seen`), in one action, and commits in the next: a row inserted in between is neither locked nor
seen by it. Unique codes and the foreign keys are conjuncts of the commit; a violation is an
`Abort`. `overlapped`, `missed` and `stale` are history, of overlapping inserts of subscriptions, of
plans recommended behind a clearing request, and of columns rewritten since a request read them.

### Catalog

`skills` are the rows of slugs and `files` the objects in the store, each a slug and one of the files
of an upload (`File`); `categoryOf`, `skillsOf` and `basesOf` are the experts and their links.

- An upload inserts its row (`UploadInsert`), puts its files one by one (`UploadPut`) and commits;
  an error rolls back and then removes by slug what there is (`UploadFails`, `UploadCleanup`).
- A delete finds the row (`DeleteSkill`), deletes it (`DeleteSkillRow`), waiting for another's
  DELETE, removes the files and commits. The DELETE may find no row by then, which nobody looks at:
  `row` records it. Such a delete holds nothing (`DeleteHolds`), goes on to remove the files all the
  same, and takes no row away when it commits.
- `remove_prefix` lists the objects of a slug (`RemovePrefix`) and removes one after the other
  (`RemoveFile`), for the clean-up and the delete alike. An error or a lost process stops either at
  any file (`UploadEnds`, `DeleteSkillFails`): rows roll back, objects stay as they are.
- `clobbered` is history: slugs that lost files to a request not holding their row (the clean-up of
  another upload, a delete that found no row), or whose delete failed after it had begun to remove.
  `SkillsHaveFiles` promises nothing of these until the slug is uploaded again: the code has no
  guard there.
- An update of an expert checks what its request names, writes the row (`UpdateExpertRow`, which
  waits for another update of the same expert), and then replaces the links; `seen` are the links
  its DELETE finds. A link to a skill that a delete holds waits for it (`Linkable`).

A slug uploaded again while a request that found the old skill runs stands for the old one.

### Library

The protocol of `Documents` in `library_service.py`, with the same points and faults, but no bases,
session rows that are never deleted, and previews, which read the row and then the object
(`PreviewFile`, `PreviewRead`). `ListDeleted` is a page: a pass takes any subset of the deleted
files, which covers its limit of 100.

### Summaries

Pure operators, each for a function of `auth_service.py` or `tenant_service.py` (which hold a copy
of many of them each) or of `subscription_service.py`. What reading the two copies side by side
showed, and the theorems or checked assumptions state:

- `GET /users?sort=expiresAt` raises `TypeError` when one listed user has no subscription and
  another one without an end (`None < ""`, `auth_service.py:1104-1110`). `KeysCompare` is the
  condition, `WhenExpirySortWorks` and `ExpirySortFails` say when it holds. Tenants always have one.
- The tenant list's filter for expired subscriptions never matches: the list gives each tenant a
  current subscription first (`NoTenantIsExpired`).
- "14 days" is anything under 15, as whole days are rounded down (`ExpiringIsFifteenDays`).
- Tokens are never counted: usage is paused by questions or expiry only.
- The user filter takes the page's Chinese labels, the tenant filter the raw statuses.

## Runs

| Run | Instance | Shows |
|---|---|---|
| `documents` | 1 base, 2 uploads, 2 workers, 2 collectors, 2 faults, within `Explored` | all safety properties, bases whose removal is partial, and `Lifecycle` |
| `documents_liveness` | 1 base, 1 upload, 2 workers, 1 collector, 2 faults | everything stale or deleted goes in the end |
| `documents_orphans` | 1 worker, 1 collector, no faults | **violated**: finding 1 |
| `chat` | 2 turns, 2 routes, 1 gateway session | overlapping turns |
| `chat_resume` | 1 turn, 2 routes, 3 gateway sessions, all stop reasons | all sequences of events of one turn |
| `chat_title` | 1 turn | **violated**: finding 2 |
| `members` | 3 users, 2 requests | locks, checks, unchecked upserts |
| `members_claim` | 2 users, 1 request | **violated**: finding 3 |
| `accounts` | 2 users, 3 refresh tokens of one of them, 2 requests | roles, status, invitations, token rotation |
| `accounts_claim` | 2 users, 1 refresh token, 2 requests | **violated**: finding 4 |
| `billing` | 2 plans, 2 codes, 1 period, 2 subscriptions, 2 owners, 2 requests | lazy default, write-backs, recommended plan, prices; and the assumptions of `MCSummaries` |
| `catalog` | 1 slug of 2 files, 2 categories, 2 bases, 1 expert, 2 requests, within `Explored` | skill files, links of experts |

Bounds. Uploads interact only through their base, and the interactions of one key need two workers
and two collectors at most: a reader, a writer, and a pass before or after; the theorems have no
bound. Two turns are one pair of overlapping streams, and a third gateway session lets a rebound
session differ from both the first and the next. Three users are an actor, a target and a remaining
admin; two requests are one pair of overlapping checks.

In `accounts` and `catalog` a third token and a second category let a rotated token and a changed
category differ from the first. The role is `admin` alone: only it is counted, and whoever holds
another role has fewer rights. Instances with two roles and with two tokens each were checked by
hand and are too slow to run routinely.

Four runs have a state constraint; the proofs have none. `NoRace` (`accounts`, `billing`) stops a
behaviour at the first race that the properties exclude, two inserts overlapping or a token used
twice: behind it the properties promise less. `Explored` in `MCDocuments` follows one upload with
all the instance has, and two only while one worker and one collector are busy, one fault has
happened, one PUT is under way and sizes are right, which is enough for a base whose objects a pass
removes in part. `Explored` in `MCCatalog` follows skills with two requests through everything that
can happen to them while nothing else changes, and experts and categories while one request at most
is at work on skills and it removes no files.

`Library` has no routine run. It was checked by hand with all its properties (1 file, 2 workers, 2
collectors: 34 523 states; 2 files, 1 worker, 1 collector: 239 726 states), and its safety
properties and the refinement are proved for all values of its constants.

`MCSummaries` compares the sort with its definition (a permutation, in order, stable under another
sort) for every list of up to three of five kinds of items, cuts lists into pages, and tries the
percentages and statuses around their limits.

`CHECK_DEADLOCK FALSE` is said for chat only: when all turns of the instance are over and the
session is deleted nothing is left to do. Waiting in a circle for row locks is a property of its
own, since in the model a request may always be aborted.

Fairness (`FairSpec` of `Documents`): the collector's endpoint is called again and again, as
`run_storage_gc` asks ("call it from a cron"), and a pass that began goes on; a request that began
goes on; a PUT ends; time passes. Weak fairness is enough: a pass step stays possible until the
pass takes it. Failing removals and crashes are not fair and end at `MaxFaults`. Nothing forces a
user to complete or delete anything. For the violated claim the same fairness holds and no fault
is allowed.

## Findings

1. `documents_orphans`: `complete_upload` marks an expired session `expired` and leaves its object;
   `list_expired_sessions` selects `initiated` sessions only. The object stays until the base is
   deleted, although `expire_stale_sessions` and the storage specification say that it is reclaimed.
2. `chat_title`: a rename during a turn is overwritten, against the comment in `_drive_acp_turn`.
3. `members_claim`: `add_member` demotes the last admin, against `docs/api/tenants.md`.
4. `accounts_claim`: with two admins, the revocation of one that commits between the count and the
   write of a disable of the other leaves the last admin disabled, against `docs/api/users.md`.

## Proofs

`DocumentsProofs` proves for all values of the constants, from the module's three assumptions on
them, that every reachable state has its type and that the safety properties, the action property
and the refinement of `Lifecycle` hold. The invariants are not inductive alone; `IInv` adds, in
layers of which each uses those before it:

- `RowInv`: how the rows of one upload go together: a document has a session, a purged base has
  no session, a session that was never there has no object and no PUT under way;
- `RequestInv`: a request under way is on a base that exists and, but for the one creating it, on
  a session that was created; one that is creating has the upload to itself;
- `PassInv`: which of `todo`, `done`, `bases`, `base`, `drop` are in use in each phase, that they
  belong to the base at hand, and that bases being looped over stay deleted or purged;
- `EmptiedInv`: a key no row names, or of a base a pass has emptied, has no object but one PUT
  after the base was deleted; this is what a restarted or overlapping pass relies on;
- `QuietInv`: what holds of a key nothing contends for: a completion of it is the only one and
  meets no document, what a pass has listed is not completed, a visible document has its object.

The step of each layer is a lemma with a case for each action (`RowInvNext` and so on).
`Implements` shows that each step maps to a step or a stutter of `Lifecycle` (`LifeNext`).
`BytesStayInTurns` removes the exception of contended keys: they come only of a completion that
overlaps another, or a pass, on its key (`NoClash`), so if those took turns, as a lock of the session
row held by both would have it, every visible document would have its bytes.

`TenantMembersProofs` proves, for any number of users and requests, `AdminRemains`,
`ActorStaysAdmin`, and that the row locks exclude (`LocksExclude`). The last is the heart of it:
two requests that hold rows need not hold the same ones, since each locks the rows of its own
snapshot. `NestedInv` says that of any two requests one has asked for all that the other has, as
far as it still exists: a later snapshot contains what an earlier one contained, and a deletion
takes the row from both. If both hold all they asked for, and some, a row would be held twice,
against `LockInv`. `LowerInv` then has at most one request about to lower a role, and an admin
besides the one it is about.

`NoCircularWait` needs no induction over the length of a circle. By `OrderInv` a request has locked
of the rows it asked for only those before the one it waits for. In a set of requests each of which
waits for another one of the set, take the last row that one of them waits for (`LastRow`; there is
one, since by `FiniteInv` the table is finite). Whoever has locked it waits in turn, hence for a
later row, against the choice (`NoCircle`). It cannot wait as it writes: the row it writes is its
own, or was inserted after its snapshot, which the property leaves out.

`Implements` shows that each step of `TenantMembers` is a promotion, a demotion of one of several, a
step past the check, or no step of `AdminSet` (`GuardNext`): although check and write are two steps,
a demotion takes effect at its write as if it had been checked there. `ClaimHoldsUnderLock` says
what the claim refuted by `members_claim` needs: requests that lower an admin are between check and
write one at a time (the lock that the role endpoints take and the tenant endpoints do not), and
`add_member` and the owner change lower no one. Then `TenantKeepsAdmin` holds.

`ChatProofs` proves all that the passing runs of `Chat` check, for any number of turns, routes and
gateway sessions and in any order of gateway events. Its invariants are independent of each other:

- `ShownInv`: output that reached the caller is of a committed attempt, which is never given up;
- `ToldInv`: at each point of a stream, what it holds back, what it has told and whether it has
  failed go together, and its row is `running` or `cancelled` until it settles; from this follow
  both `RecordMatchesStream` and `RecordsSettle`;
- `BindInv`: two streams on one route have both been noted as overlapping, so that of streams not
  noted only one can move the route's binding;
- `RaceInv`: while the title is the user's, streams that think there is none are in `raced`.

`ClaimHoldsIfRenamesWait` says that the race is all there is to the claim that `chat_title` refutes:
if no rename lands while a stream that found no title is under way, the comment is right.

`AccountsProofs` proves what `accounts` checks for any number of users, roles, tokens and requests.
`RowsInv` says of the rows revocations wait for and have locked what `NestedInv` and `LockInv` say
in `TenantMembers`: they exist, are nested by when they were selected, and are locked by one request
at a time. So two revocations of admins that both hold a row hold a common one, which cannot be, and
`AdminInv` follows: at most one of them is about to write, and not about the last admin.
`DisablesInTurnSpare` says what the claim refuted by `accounts_claim` needs: if of the requests that
lower an admin, revocations and disables alike, one at a time is between count and write
(`OneLowers`), what it counted still holds when it writes (`CountInv`), the last admin is not
disabled, and there always is one, `bypassed` or not. `SpentInv`
adds that what an uncontested request is about to use is still there, and `ActiveInv` that a check
of a status holds until another commit outdates it. `Implements` has that the platform's admins
change as in `AdminSet`. `SpentOnceInTurns` removes the exceptions of `SpentOnce`: if no two
requests were between read and commit of one token or invitation, which a lock of the row they read
would give, each would be spent once.

`BillingProofs`: `CurrentInv` (who is about to insert a subscription has seen all current ones,
until two inserts overlap), `RecommendInv` (who is about to recommend a plan will clear every other
recommended one, until one is missed) and `ReadInv` (what was read holds until outdated).
`OneOfEachInTurns` removes the exceptions of `OneCurrent` and `OneRecommended`: it is enough that the
requests which insert a subscription of the tenant take turns, and those which recommend a plan;
lapses, owner changes and deletions need not wait.

`CatalogProofs`: `LockedInv` (at most one update of an expert has written its row and not
committed), from which `BaseInv` has that the links its DELETE found are all there are, hence
`OneBase`; and `ReadInv` for the category written back. For the files, `SlugInv` (proved on its own
as `SlugsAreHeldByOne`) has that one upload or delete at a time holds a slug's row, an upload only
while nobody sees one and a delete only while all do. So nothing but a removal noted in `clobbered`
meets the files of a row, or what an upload has put so far, which is `FilesInv`.

`LibraryProofs` has the layers of `DocumentsProofs` without bases (`RowInv`, `PassInv`, `QuietInv`)
and proves `FilesHaveBytes`, `PurgedFilesLeaveNothing`, `PreviewsFindBytes` and `NeverListedAgain`.

`SummariesProofs` proves statements about the operators for all inputs, lists of any length among
them. `ListsAreStablySorted`: the orders compare as weak orders, and then what is at or before a
place ranks the places without gaps (`Ranking`, from the theorems on injections of finite sets), so
`Sorted` is a bijection of the list, in order and stable. `EveryItemOnOnePage`: a place is
`(page - 1) * size + k` for one page and one `k`, by division. `PercentIsRight`: for limits of 20000
and more the rounded percentage may reach 100 before the limit does.

The theorems about what would hold in turns, or under a lock, have a condition on the behaviour that
the code does not enforce (`KeysTakeTurns`, `OneLowers`, `RenamesWait`, `UsersTakeTurns`,
`WritersTakeTurns`). They say of the code that the races its properties except are the only way to
lose what these promise, and which requests would have to wait for which to close them.

Only model-checked: the three liveness properties of `documents_liveness`, since the prover has
neither `ENABLED` nor fairness. The violated claims are refuted by TLC. All other properties of the
runs are theorems.

## Not modelled

- The limits of the passes (100 documents, 50 bases): no instance reaches them, so starvation by
  entries that can never be removed is not seen.
- `archived` bases: no code writes the status.
- `update_document`, `update` of bases, pins and archives of sessions: columns nothing modelled reads.
- Transcripts and permission answers: reads, or calls passed on to the gateway.
- A turn left `running` by a broken connection is modelled (`Drop`); nothing repairs it, as
  `docs/api/chat.md` says.
- The name, slug and status of a tenant.
- `update_status` of experts, updates of a skill's metadata and of categories: one row written by
  one statement, which no other modelled operation reads.
- `replace_entitlements` and `replace_experts` of plans: the statements of `replace_prices` over
  tables nothing else writes.
- The market lists of experts and the dashboards' counts: reads of several statements, each of which
  may see another state; nothing is written from them.
- Rename in the library, and the conversion of a previewed file to text.
- Password hashes, the encoding of JWTs, and their expiry.
- Everything listed as `not_modelled` in `PROJECT.json`.

## What could be added

1. Runs of `Library` beside its proofs, and liveness of its passes, whose page of 100 is taken oldest
   first: files whose object can never be removed can fill it.
2. The limits of the document passes, with the same question.
3. `Accounts` and `TenantMembers` over one `users` table, for users that are disabled while they
   hold the last admin role of a tenant.
