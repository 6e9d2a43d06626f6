# Verification of GisOrders

TLA+ models of the GisOrders backend (`src/backend`): customers post orders, executors
send proposals, a customer chooses one, both sides talk in chats; users log in with
rotating refresh tokens. The service is several uvicorn workers on one PostgreSQL
database and, optionally, Redis. Almost every rule of the README is enforced by an
`async` handler that reads some rows, decides, and writes others, while other handlers
do the same. That is what the models are about.

## 1. Inventory

| Part | State | Operations | Talks to | What makes it correct |
|---|---|---|---|---|
| Orders and proposals (`api/v1/orders`) | tables `order`, `order_proposal` | create, update, close, delete an order; create, update, accept, delete a proposal | chats (created, closed, unlinked with proposals), users (owner, author, admin) | one executor per order; order and proposals agree; a decision is complete and final; one proposal per executor and order; daily limit |
| Chats and messages (`api/v1/chat`) | tables `chat`, `message` | create and close a chat, send, mark as read, counters | orders (closing a chat withdraws its proposal), realtime | a proposal has its chat; the chosen executor's chat stays open; nothing is written to a closed chat |
| Refresh tokens (`users/services.py`) | table `refresh_token` | issue, rotate, revoke, revoke all, purge | users | a token is exchanged once; an ended session stays ended; a revocation reaches every token |
| User accounts (`api/v1/users`) | table `user` | register, login, profile, password, block, delete, set admin | tokens, and by `ON DELETE CASCADE` every table | no row outlives its user; a block and a password change end sessions |
| Access tokens (`core/security.py`, `core/auth.py`) | none (JWT) | sign, check, load the user | users | - |
| Transactions (`core/database.py`) | one session per request | commit after the handler, rollback when it raises | PostgreSQL | nothing half done |
| Realtime (`api/v1/ws`, `core/redis.py`) | connections per worker, the listener task, a Redis channel | connect, disconnect, publish, listen, dispatch, typing/read events | chats, Redis | events only of what is committed, to participants, once |
| Rate limiter (`core/rate_limit.py`) | sorted sets in Redis, deques in each worker | allow | Redis | at most `limit` attempts per window |
| Uploads (`api/v1/uploads`, `scripts/cleanup_media.py`) | files under `MEDIA_ROOT` | save, cleanup of orphans | `order.photos` | a referenced file is not removed |
| Search, schemas, errors, logging, settings, migrations | none at run time | - | - | - |

Hard behaviours, each with its line in `PROJECT.json` under `hazards`:

* rows that are read without a lock, checked, and used after another transaction
  committed (`create_proposal`, `update_*`, `delete_*`, `close_chat`, `create_message`);
* bulk `UPDATE`s and `DELETE`s that see the rows of the moment they begin;
* rows locked in different orders by different handlers: deadlocks, broken by PostgreSQL;
* a handler that raises after writing (its writes are rolled back), a worker that dies
  before `COMMIT`;
* deletions that cascade or set references to null behind the ORM's back;
* events that are published after the commit, a listener that dies, a publication whose
  answer is lost and that is repeated;
* a limiter whose clocks differ, whose script runs late or twice, and which falls back to
  the memory of a worker;
* files that are looked at one after another while orders are saved;
* unique indexes that decide what two checks before them could not, and of which only the
  text of an error says which one it was.

## 2. Plan

Done, each with its runs:

1. `OrderLifecycle` - orders, proposals and the life of their chats; proofs of its safety
   in `OrderLifecycleProofs` and `OrderLocksProofs`.
2. `RefreshTokens` with the abstract `Sessions` it implements; proofs, the refinement among
   them, in `RefreshTokensProofs`.
3. `ChatMessages`, the messages of a chat against what closes or deletes it; proofs in
   `ChatMessagesProofs`.
4. `EventBus`, the delivery of events to WebSockets; proofs in `EventBusProofs`.
5. `RateLimiter`, the window of attempts in Redis and in the memory of the workers; proofs
   in `RateLimiterProofs`.
6. `MediaCleanup`, uploads and orders against the job that removes files; proofs in
   `MediaCleanupProofs`.
7. `Accounts`, the identities of users on their unique indexes; proofs in
   `AccountsProofs`.

Left, in the order of what they would add:

8. What the deletion of a user does to orders and how it waits for their requests, in
   `OrderLifecycle`, and the price range that a partial update can turn around (`orders/schemas.py:77`).
9. Access tokens that outlive a block, and the connections that they opened.

## 3. What the modules model

### Common ground: transactions

`session_getter` (`core/database.py:72`) gives every request one session, commits after
the handler and rolls back when it raises. The engine runs at PostgreSQL's default, READ
COMMITTED. The modules about the tables of orders, chats and tokens follow from this
(`Accounts` has a coarser form of it, see there):

* `req[r]` is a slot for a request in flight; `req[r].pc` names the SQL statement it is
  at. A statement is one atomic step once it has the row locks it needs.
* `owner[w]` is the request that locks row `w` (`FOR UPDATE`, `UPDATE`, `DELETE`, or
  `pg_advisory_xact_lock`); `sharers` are those that hold `FOR KEY SHARE` on a parent
  row because they inserted a child. `Targets`, `Needs`, `Blockers` say which rows a
  statement must lock and who is in its way, `LockRow` takes one of them. A bulk
  statement takes its rows one by one in any order, and skips a row that no longer
  matches when its turn comes.
* Nobody else sees a row before `COMMIT`, and nobody else can write a row that is locked.
  So a transaction's writes are applied at its `...Commit` action, to exactly the rows it
  holds. The checks in between read committed rows, as the code's `SELECT`s do.
* `Check(r, ok, pc)` is "go on to `pc`, or raise": an `AppError`, an `IntegrityError`
  turned into one, or a `StaleDataError` of the ORM all end in `Rollback`.
* `DeadlockAbort` is PostgreSQL choosing a victim; `Crash` is the loss of the worker or of
  its connection at any statement. Both leave the tables as they were.

PostgreSQL itself, and the loss of a process, are not part of `src/`: their operators are
marked external in the map and follow PostgreSQL's documented lock conflicts, restricted
to the modes this code uses.

### OrderLifecycle

`order`, `proposal` and `chat` are the three tables; `chat[p]` is the chat created with
proposal `p`. A row has the columns that decide something: `status`, `accepted`
(`accepted_proposal_id`), `order`, `executor`, `recent` (`created_at` within a day),
`linked` (`chat.proposal_id` is not null) and `terms`, which stands for all columns a
`PATCH` can change. Titles, prices, places and dates are left out.

| Code | Actions |
|---|---|
| `OrderService.create_order` | `CreateOrder` |
| `update_order`, `delete_order` | `UpdateOrder*`, `DeleteOrder*` (with the ORM cascade, the cleared reference and `ON DELETE CASCADE`) |
| `close_order` | `CloseLockOrder`, `CloseOrderChats`, `CloseRejectPending`, `CloseCommit` |
| `accept_proposal` | `AcceptLockOrder`, `AcceptReadProposal`, `AcceptRejectOthers`, `AcceptCloseOtherChats`, `AcceptFlush`, `AcceptCommit` |
| `create_proposal` | `CreateReadOrder`, `CreateCheckDuplicate`, `CreateLockExecutor`, `CreateCheckLimit`, `CreateInsert`, `CreateCommit` |
| `update_proposal`, `delete_proposal`, `ChatService.close_chat` | `UpdateProposal*`, `DeleteProposal*`, `CloseChat*`, and the flush the last two share, `Withdraw*` |

`close_chat` also marks the messages of the chat as read; that is in `ChatMessages`.
A blocked user never gets past `get_current_active_user`, so the users of the model are
active ones. The bound `NProposals` limits how many proposals are ever created: a
`create_proposal` request only arrives when an unused number is left for it.

### RefreshTokens and Sessions

`user` and `token` are the tables. Of a token the model keeps whether it is revoked
(`status`), whose it is, whether it has expired, `by` (`replaced_by_id`), and the history
column `session`: the login that the chain of exchanges started from. Hashing and the
random value are left out: a token is its number. `NTokens` and `NPasswords` bound how
many tokens are issued and how often a password changes.

A bulk statement is two steps, because READ COMMITTED lets it see only rows committed
when it began: `RevokeAllBegins` and `PurgeBegins` remember the rows that match
(`req[r].rows`), `RevokeAllEnds` and `PurgeEnds` end the wait for those that others hold.

`Sessions` says what the tokens promise: a login opens a session, an exchange changes
nothing, and a session that ended never comes back. `RefreshTokens` implements it under the
mapping `SessionState`: a session is live while one of its tokens is.

### ChatMessages

One chat with its table of messages, from the moment that `create_proposal` opened it
with the text of the proposal. `chat` and `message` are the tables, `created` and
`counted` stand for the events handed to the event bus: which messages were announced
by a `message.created`, and in how many `message.read` events a message was counted.

| Code | Actions |
|---|---|
| `send_message`, `create_message` | `SendReadChat`, `SendWriteChat`, `SendInsert`, `SendCommit`, `SendPublish` |
| `mark_as_read`, `mark_messages_as_read`, the `read` frame of a WebSocket | `ReadReadChat`, `ReadBegins`, `ReadEnds`, `ReadCommit`, `ReadPublish` |
| `close_chat` | `CloseReadChat`, `CloseBegins`, `CloseEnds`, `CloseWriteChat`, `CloseCommit` |
| `_close_order_chats`, `delete_proposal` | `SettleWriteChat`, `SettleCommit` |
| `delete_order`, as the ORM and the foreign keys carry it out | `DeleteReadChat`, `DeleteRows`, `DeleteChat`, `DeleteCascade`, `DeleteCommit` |

After its commit a request is at `publish` without locks; a crash there loses the event.
A `read` remembers, as history, which messages were unread when it arrived (`known`).
A stranger is turned away where the chat is read, so the requests are those of the two
participants. `NMessages` bounds how many messages are sent.

### EventBus

The connections of one chat over several workers. `bus[w]` is the `EventBus` object,
`inbox[w]` what its subscription has not read, `members` the registry of
`ConnectionManager`, `job` the dispatches in progress with the connections still to be
sent to. `conn[c]` is the handler of a WebSocket object in slot `c`; a slot has a worker
and an address, which is `id()`: a later object in the same slot has the same one. A slot
is free again only when no dispatch refers to the object.

| Code | Actions |
|---|---|
| `EventBus.start`, `_listen`, the end of a process | `Start`, `Take`, `ListenerStops`, `WorkerStops` |
| `EventBus.publish` | `PublishRedis`, `PublishLocal` (Redis not used, or not reached), `PublishUnsure` and `Fallback` (Redis took the event, its answer is lost) |
| `_dispatch`, `broadcast` | `Snapshot` and `Dispatch` (the snapshot), `SendNext` (each send), `Advance` (the dead ones are unregistered) |
| `chat_events`, `_handle_event` | `Connect`, `MayPublish`, `Disconnect`; the client's end is `Break` |

`Connect` is one step because until `manager.connect` a handler touches nothing that
others see, and asyncio does not switch tasks between it and `auth.ok`. A step of the
event loop lasts until an await that really waits: the lock of the registry is never held
across one. `owed` is history: what a connection that is registered and alive at the time
of a publication should still receive. `Faults` lists what may go wrong in an instance.
`Fault` is one of the at most `NFaults` failures of an instance: a listener that ends, an
answer that is lost, a worker that stops. Redis is external: it pushes a publication to all
subscriptions in one order. `Resend` is its client library, which repeats a command that
it got no answer to, so that an event may be published twice. A reconnection inside the
library is not modelled apart from the end of the listener. The client is created with a
`socket_timeout` of half a second (`core/redis.py:13`); whether a quiet channel is enough to
end the listener is up to the library, and if it is, the fault is the rule and not an exception.

### RateLimiter

One key. `zset` is the sorted set that the Lua script keeps, `expires` its time to live,
`memory[w]` the deque of worker `w`. Time is in ticks, `Second` of them in a second, so
that the rounding of `Retry-After` is visible. A worker reads its clock, which may be
`Spread` ahead, and the script runs up to `Lag` later.

| Code | Actions |
|---|---|
| `RateLimiter.allow`, `_allow_redis`, `RATE_LIMIT_SCRIPT` | `AllowRedis` (one execution of the script is atomic in Redis) |
| the client library repeats the command | `Repeat` |
| `SlidingWindowLimiter.allow`, without Redis or after an exception | `Fallback` (`Popped` says after how many calls of `popleft` its loop ends) |
| a worker is restarted | `Restart` |

`counted` and `local` are history: when Redis last recorded an attempt, and what the
present process of a worker let pass. `MaxTime` ends an instance and `NFaults` bounds the
faults. `RetryIsEnough` leaves open what the clocks leave open: it asks that who waits for
`Retry-After` plus `Spread` is refused only if somebody else used the place. A failing Redis
does multiply the limit by the number of workers; `AtMostLimit` says what is true of each.

### MediaCleanup

`file[f]` is a file with its time of modification, "open" while (or because) its upload was
not finished; `photos[o]` the files an order names; `job[j]` a run of the job. `since` is
history: since when orders have named a file without a break.

| Code | Actions |
|---|---|
| `_process_and_store` | `OpenFile`, `StoreFile` |
| creating, changing or deleting an order, as far as its photos go | `SavePhotos` |
| `cleanup_orphans` | `Start` (reads the time), `Collect` (the references), `List`, `Check` and `Unlink` for each file |
| the job is killed | `Crash` |

`Stuck` files cannot be removed; `unlink` then raises and ends the run, and every later run
stops at the same file, which is why `OrphansGo` speaks only of files listed before it. A
photo whose URL has a host in front is not recognised by `_collect_references`; in the model
it does not count as named. What no property protects, because the code does not: a photo
that is saved later than `min_age_seconds` after its upload, while a run is under way,
although the comment at `cleanup.py:14` speaks of unreferenced files only.
`MaxPhotos`, `MaxCrashes` and `MaxTime` are bounds.

### Accounts

`user` is the table as committed. A request is at a statement (`pc`); what it has read of
its row is `seen`, what it wants to write is `ask`, and `todo` are the unique indexes its
write still has to enter. PostgreSQL enters the indexes in the order in which the migration
created them and waits at each for a transaction that has put, or is rewriting, the same
value; that, and the detection of a circle of waits, is external to `src/`.

| Code | Actions |
|---|---|
| `create_user`, the loading of a user for the other requests | `Read` |
| `update_user` | `Load`, `CheckEmail`, `CheckPhone` |
| the flush of `create_user`, `update_user`, `set_admin`, `delete_user`, `create_or_promote` | `Write`, `Enter` (each index), `Commit` |
| what `session.delete(user)` deletes and changes in other tables, before the row of the user and after it | `Cascade`, `Trigger` (each row) |
| `IntegrityError`, sorted out by its text | `Refused` |
| a victim of the deadlock detector, a lost connection | `Victim`, `Fail` |

`clash` is history: which identities a request asks for somebody else has had since it
began. `Menu` is the bound: what the requests of an instance ask for. `Spelled` are values
with "username" in them: the code looks for that word in the whole text of the error, so an
email that contains it is reported as a taken username; and a null email is reported as a
duplicate. `RefusalIsTrue` makes an exception of exactly these (`Misleading`). Two users
who swap their emails deadlock, and one of them gets an error 500.

The deletion of a user takes the rows of other tables with it: the session has loaded the
orders, proposals, chats and messages that its relationships cascade to (`users/models.py:24-58`)
and deletes them before the user, after clearing the accepted proposal of an order
(`post_update`, `orders/models.py:90`); foreign keys clear or delete what depends on these
rows, and after the row of the user whatever was inserted in the meantime. `Related[u]` are
these rows, and a deletion takes them one by one and waits for the deletion that holds the next
one. Which comes next is left open: the order depends on tables, keys and foreign keys, two
deletions need not agree on it (the one of the customer reaches the order first, the one of the
executor reaches it last, from the proposal), and an order of rows that no code fixes is nothing
to rely on. Two deletions of users who share rows do deadlock, in the model as in the program.
`DeadlockNeedsChange` therefore speaks of deadlocks with anybody in them but deletions: the rows
of other tables are taken by deletions only, and no deletion waits for a registration, a
promotion or a grant of rights that itself waits. The model has more orders of locks than the
program, and it forgets the locks on rows that went with a user whom another request has deleted.
What the requests about orders and chats lock is not in this module.

A promotion also sets `is_active` (`scripts/create_admin.py:37`), which is left out, as no other
request of this module reads or writes it; blocking is in `RefreshTokens`.

## 4. Runs

All runs use model values and, where no liveness is checked, symmetry over the request
slots (and over the two executors in `OrderCore`).

| Run | Instance | Question |
|---|---|---|
| `OrderCore` | 2 requests, 2 executors, 2 orders, 2 proposals, limit 1; create, accept, close, withdraw, a day passes | do the tables agree, do statuses only move forward, are decisions complete, do the limit and the uniqueness survive races, where do deadlocks come from |
| `OrderProgress` | 2 requests, 1 executor who is also an administrator, 1 proposal; all order operations and `close_chat`, fairness | the inductive invariant of the proofs on reachable states; every request ends |
| `TokenCore` | 2 requests, 3 tokens, 2 passwords; login, refresh, logout, password change | one live token per session, refinement of `Sessions`, reach of a revocation |
| `TokenAccounts` | 2 requests, 2 tokens; login, refresh, block, unblock, delete the user, purge, expiry, fairness | chain of replacements, no orphans, every request ends |
| `ChatCore` | 2 requests, 2 messages, all operations, fairness | true events, read marks that neither miss nor count twice, no orphans, every request ends |
| `BusCore` | 2 workers, 3 connections (one with the `id()` of another worker's), 2 events, one fault of any kind, one broken connection, fairness | nothing forgotten, order, no echo, registry and handlers agree, every event arrives, twice only if its publication had no answer |
| `RateLimit` | 4 attempts, limit 2, 2 workers, a window of 2 seconds of 2 ticks, clocks that differ by 1, commands late by 1, 1 fault, with and without Redis | the limit, the cause of a refusal, the use of `Retry-After` |
| `MediaClean` | 2 files (one cannot be removed), 1 order, 2 overlapping runs, one kill, fairness | photos saved in time stay, only unused files go, orphans go |
| `Accounts` | 3 requests on 2 users and 3 emails, usernames; register, change, promote, set rights, delete; 2 rows that both users' deletions take | identities unique, refusals true, no lost change, where deadlocks come from |
| `OrderAcceptedTouched`, `TokenReuse`, `ChatClosedWritten` | the smallest instance that shows it | see the next section |

The type invariants of the modules are proved where there are proofs, and were checked with
the same instances; they cost a run more than they say.

Why these bounds are enough to be interesting: a stale read needs one transaction that
reads and one that commits in between, a lost decision needs two deciders and a proposal
that is neither's, a deadlock needs two holders, the limit needs two orders and one
more proposal than allowed, a day after which it is allowed again, and a chain of tokens needs a token that was exchanged, its
successor, and one inserted while a bulk statement runs. A read mark needs one message
that was there and one that comes; overtaking needs two events, and a broadcast needs a
connection that dies next to one that lives. The limiter needs one attempt more than a full
window and one that comes after it; the job needs a second run beside it and a file it stops
at; a swap of identities needs two users, and losing both to a newcomer a third request; a deadlock of deletions needs two rows. What more requests could do to orders is
answered by the proofs, which hold for any number of them.

Fairness: `FairSpec` asks for strong fairness of `Progress(r)`, the statement of a request
(taking a row, running a step, or being chosen as the deadlock's victim). The event loop
polls every coroutine that is ready and PostgreSQL queues the transactions that wait for a
row, so a request that can move again and again does move; weak fairness would not do, as
a row can be freed and taken again. In `EventBus` each worker is weakly fair: its
event loop does not idle while a task is ready, whichever it picks, and a send ends because
the server drops clients that do not answer its pings. In `MediaCleanup` time goes on, cron starts a real run again and again, and a run that is not
killed takes its steps. Nothing is assumed about clients, crashes or faults.

## 5. What the code does not keep

Three statements of the documentation are properties of their own run, and TLC finds a
behaviour of the modelled code that breaks each (`findings` in `PROJECT.json`):

* `AcceptedLeftAlone`: an accepted proposal is withdrawn or edited by a request that had
  read it as pending. With it `order.accepted_proposal_id` becomes null and the order is
  assigned to nobody.
* `ReuseRevokesAll`: `rotate` revokes all sessions and then raises, which rolls the
  revocation back. The test of it passes because its session has no rollback.
* `ClosedStaysSilent`: a message whose chat was read as active is committed after the chat
  was closed.

The same kinds of race have consequences that no run of their own shows: a proposal whose
order was still open when it was read is inserted, undecided and with an open chat, after the
order was closed; an assigned order
can be edited or deleted by a request that read it as open; a token committed while the
`UPDATE` of a password change runs survives it (`RevocationReaches` states what does hold);
a message sent during `close_chat` can stay unread in the closed chat. `DailyLimit` counts
the proposals that exist, so with withdrawals more than the limit can be sent. A worker whose
listener has ended goes on publishing through Redis and hears nothing of it any more, which
is why `NothingForgotten` and `EveryEventArrives` exempt it. Registration and profile errors
that name the wrong column, and a cleanup that one file stops for good, are described with
their modules above.

The safety properties of the passing runs are stated so that they hold in spite of these:
`VerdictAgrees` says that an order which names a proposal names its accepted one, not
that an assigned order names one; `OpenUndecided` says nothing about late proposals of
closed orders.

## 6. Proofs

### OrderLifecycleProofs

Proved for any number of requests, users, orders and proposals and any limit, with only
the assumptions named in `OrderLifecycle` (`NumbersAssumption`, `CustomerAssumption`,
`NobodyAssumption`):

| Theorem | Property |
|---|---|
| `Invariance` | `[]IInv` |
| `TypeCorrect` | `[]TypeOK` |
| `VerdictsAgree` | `[]VerdictAgrees` |
| `OpenOrdersUndecided` | `[]OpenUndecided` |
| `OnlyOneExecutor` | `[]OneExecutor` |
| `OrdersMoveOn` | `OrderMovesOn` |
| `VerdictsAreFinal` | `VerdictIsFinal` |
| `DecisionsAreComplete` | `DecisionIsComplete` |

`VerdictAgrees` is not inductive: that an `AcceptCommit` keeps it depends on what the
transaction knows of rows it read earlier. `IInv` adds it, as parts about one request:

* `SlotInv`: a request is at a statement of its own program, with its parameters;
* `DecideInv`: past its first statement a deciding request owns the order row, which is
  still in a status it may decide from;
* `ChosenInv`, `BulkInv`: the chosen proposal can only have been withdrawn, and after its
  bulk `UPDATE` a decision holds every proposal (and chat) that is still undecided (open) -
  also those inserted meanwhile, because an insert must share the order row that the
  decision owns (`ShareInv`, `ShareExcludes`);
* `HeldInv`, `DeleteInv`: the proposals that a transaction holds are rows of its request;
* `ForeignKeyInv`: a proposal has its order.

The proof goes by the actions: taking a lock, moving on, rollback, and one lemma for each
commit. `OneExecutor` follows from `VerdictAgrees`. The action properties follow from
`IInv` and lemmas that say which columns a kind of step can write (`WritesAtCommit`).

### OrderLocksProofs

On top of `IInv`, from the same assumptions:

| Theorem | Property |
|---|---|
| `LocksInvariance` | `[]LocksInv` |
| `ChatsFollow` | `[]ChatFollowsProposal` |
| `ChosenChatsOpen` | `[]ChosenChatOpen` |
| `OneProposalEach` | `[]OneProposalPerExecutor` |
| `LimitHolds` | `[]DailyLimit` |
| `DeadlocksNeedRemovals` | `[]DeadlockNeedsRemoval` |

What a creating request counted stays true because it holds the advisory lock of its
executor from the count to the commit (`CreatorInv`); the commit adds one element to a set
smaller than the limit. A chat is open as long as its proposal is undecided or chosen
(`UndecidedChatOpen`), because a withdrawal that still finds the proposal holds it and its
chat (`WithdrawInv`), a decision never holds the chat of the proposal it chooses
(`HeldChatInv`), and `delete_order` takes all chats (`DeletesChatsInv`). `HeldRowInv` says
which rows each handler can hold at all. The theorem on deadlocks uses no more than this. In
a circle of requests that delete nothing, one that has decided would wait for a row whose
holder owns the same order, and only one request can; so nobody waits for an order (who
holds one and waits has decided), nor for a proposal to edit; and two requests that wait for
an advisory lock would need a holder that itself waits for the same lock.

### RefreshTokensProofs

For any users, requests and bounds (`BoundsAssumption`, `NobodyAssumption`):

| Theorem | Property |
|---|---|
| `TypeCorrect`, `Invariance` | `[]TypeOK`, `[]IInv` |
| `OnlyOneLiveToken` | `[]OneLiveToken` |
| `ChainsAreTrue` | `[]ChainIsTrue` |
| `NoTokenIsOrphaned` | `[]NoOrphanToken` |
| `RevocationsReach` | `RevocationReaches` |
| `TokensImplementSessions` | `SessionsSpec` |

`IInv` says of the tables that tokens are numbered in turn and that the session of a token is
a login (`RowInv`), and of a request what its locks give it: the token being exchanged is
locked and stays live (`RefreshInv`), a token is inserted under a share of its user
(`ShareInv`), which keeps deletions out (`DeleteExcludes`), a deletion ends with all tokens of
its user in hand (`DeleteInv`), and a revocation with all that it matched and that still live
(`RevokeInv`). For the refinement each commit is shown to open one session, to end those
whose last live token it revokes, or to change none; all other steps stutter.

### ChatMessagesProofs

For any participants, messages and requests (`MessagesAssumption`, `NobodyAssumption`):

| Theorem | Property |
|---|---|
| `TypeCorrect`, `Invariance` | `[]TypeOK`, `[]IInv` |
| `EventsTellTheTruth` | `[]EventsAreTrue` |
| `MessagesAreCountedOnce` | `[]CountedOnce` |
| `NoMessageIsOrphaned` | `[]NoOrphanMessage` |
| `ReadsReach` | `ReadReaches` |
| `RecipientsMark` | `MarkedByRecipient` |

A bulk `UPDATE` holds only unread messages that it matched (`MarkInv`), and in the end all of
them that are still unread, those known at its arrival included (`ReadInv`). So the sets that
two requests have marked and not yet reported are disjoint (`CountedApart`) and not reported
before (`CountInv`). A message is inserted under the lock of its chat (`SendInv`), which a
deletion holds before its cascade looks for messages (`DeleteInv`).

### MediaCleanupProofs

For any files, orders and runs of the job, and any `MinAge` of at least a tick:
`TypeCorrect`, `Invariance`, `UsedFilesStay` (`UsedFileStays`) and `PromptReferencesStay`
(`PromptReferenceStays`), from `FilesAssumption`, `TimesAssumption` and `BoundsAssumption`.
The two properties are about one step; what they need is known when a run looked at the
file, steps earlier. `IInv` carries it: the history is true (`HistoryIsTrue`), a file that
the references of a run lack has been named, if at all, only since after the run began
(`KnowsReferences`), and a file that is about to be unlinked was old enough and unreferenced
when it was checked (`UnlinksOrphans`), and no younger now.

### AccountsProofs

For any number of requests and users, any first table without clashes (`RowsAssumption`) and
any menu (`MenuAssumption`, which says what schemas let through), whatever rows the deletions of
users have in common (`RelatedAssumption`):

| Theorem | Property |
|---|---|
| `TypeCorrect`, `Invariance` | `[]TypeOK`, `[]IInv` |
| `IdentitiesAreUnique` | `[]IdentitiesUnique` |
| `NoChangeIsLost` | `NoLostChange` |
| `RefusalsAreTrue` | `[]RefusalIsTrue` |
| `DeadlocksNeedChanges` | `[]DeadlockNeedsChange` |

Uniqueness rests on `NotTaken` and `NotBoth`: what a request has entered into an index nobody
has in the table, and no other request in the index. They are inductive only together with
who may be writing a row (`Alone`) and what a request knows of its row (`Good`, `RowThere`).
`RefusalsAreTrue` adds `Answered` to it: a request that has not ended has no answer, and the step
that ends it names an identity that is taken in the table of that moment, which `clash` records.
`DeadlocksNeedChanges` adds `Orderly`: only a profile change brings an old row into an index
(`Kind`; `set_admin` sets nothing but the rights), and the indexes a request has passed come
before those it has left (`InOrder`). `OnCycle` are those that are in every set closed under
waiting that has whom they wait for, so whoever is on a cycle waits for somebody who is, and who
waits for him in the end (`Leads`, `CycleGoesOn`). If none of them changed a profile at an index,
whoever does not delete would be a newcomer who waits at an index (`CycleAtIndex`,
`CycleInserts`). A deletion waits for deletions and for whoever writes the row of its user, which
a newcomer never does (`DeletionsWait`), so behind a deletion there would be only deletions, and
a newcomer could not wait for one and be waited for by it (`NoDeletionNext`). Each newcomer would
wait at an index that the next one has passed, hence for a later one, and there are three.

### EventBusProofs

For any number of workers, connections, events, faults and users, with Redis or without
(`RedisUrlAssumption`, `HomeAssumption` and the other assumptions of `EventBus`):

| Theorem | Property |
|---|---|
| `TypeCorrect`, `Invariance` | `[]TypeOK`, `[]IInv` |
| `NothingIsForgotten` | `[]NothingForgotten` |
| `ChannelIsOrdered` | `[]ChannelOrder` |
| `ComesOnce` | `[]OnceUnlessUnsure` |
| `AuthorIsExcluded` | `[]NotEchoed` |
| `RegistryMatchesHandlers` | `[]RegisteredHasHandler` |

What a connection has received is in order and comes once only because what is still on the
way to it is: in the subscription of its worker, then in one dispatch there. `IInv` states
both of the whole way, pair by pair of the places an event may be in: order in `InboxOrder`,
`JobOrder`, `GotOrder`, and being in one place in `JobOnce`, `GotOnce`. `OneListener` (a
listener dispatches one event at a time) lets the next one start only behind the last.
`NothingForgotten` needs `Dispatches`: what a dispatch took for dead is not an open
connection, and its object is still referenced, so that no later one has its `id()`; otherwise
`Advance` could unregister a connection that something is owed to. `Waiting` says where an
event can be whose publication has no answer yet: in a dispatch of its own. The lemmas follow
the moves of an event: it is lost by a worker (`LostFlow`), pushed to all subscriptions
(`PushedFlow`), or dispatched in its own worker (`LocalFlow`).

### RateLimiterProofs

For any attempts, workers, limit, window, length of a second, difference of the clocks and
delay, any number of faults and any length of the run (`LimitAssumption`,
`WindowAssumption`, `ClockAssumption`, `FaultsAssumption`, `NobodyAssumption`):

| Theorem | Property |
|---|---|
| `TypeCorrect`, `Invariance` | `[]TypeOK`, `[]IInv` |
| `WindowIsLimited` | `[]AtMostLimit` |
| `RefusalsHaveCause` | `RefusalIsDue` |
| `WaitingIsEnough` | `RetryIsEnough` |

`AtMostLimit` counts attempts, the code counts entries. `IInv` joins the two: an attempt that
was counted has its own entry (`Entry`) in the set, under a key that lives, until no script
that may still run has a window with it (`Recorded`); every entry is one of an attempt that
was counted (`Genuine`); and the set never holds more than `Limit` (`Small`). So the attempts
of a window map one to one into the set, and the entries of a full window one to one back to
the attempts that caused a refusal. For the memory of a worker, `Deques` says the same of every
part of the window at once: the last n events of a deque are those of the n attempts let pass
since then; the number that `popleft` leaves follows from it. `RedisRefusals` and
`MemoryRefusals` remember of each refusal that, as long as nobody took a place, there is one or
the event that `Retry-After` was computed from is still there. `RetryAfterIs` is the rounding:
the waiting is long enough for any length of a second. An execution of the script, the first or
a repeated one (`Executes`), and a decision of a worker (`Decides`) are the two kinds of
steps that all theorems are proved for.

### Only model-checked

`EveryEventArrives` of `EventBus`, `OrphansGo` of `MediaCleanup` and `EveryRequestEnds` of
`OrderLifecycle`, `RefreshTokens` and `ChatMessages`: liveness, which is out of the prover's
reach. About `Accounts` nothing of the kind is checked: a request may fail at any step, so that
TLC's search for deadlocks says nothing about it.

## 7. Not modelled

Listed with reasons under `components` in `PROJECT.json`: search and lists (single
queries), JWT and password hashing (cryptography), image decoding (library), schemas,
errors, logging, settings, migrations. Planned but not there yet: what the deletion of a user
does to orders, and prices. A WebSocket is authorised once and keeps its database session; no
model has both accounts and connections, or the pool. Times of messages and the order of
lists are left out.

## 8. Running

    tlc -config OrderCore.cfg MCOrderLifecycle
    tlc -config TokenCore.cfg MCRefreshTokens
    tlc -config ChatCore.cfg MCChatMessages
    tlc -config BusCore.cfg MCEventBus
    tlc -config RateLimit.cfg MCRateLimiter
    tlc -config MediaClean.cfg MediaCleanup
    tlc -config Accounts.cfg MCAccounts
    tlapm OrderLifecycleProofs.tla
    tlapm OrderLocksProofs.tla
    tlapm RefreshTokensProofs.tla
    tlapm ChatMessagesProofs.tla
    tlapm MediaCleanupProofs.tla
    tlapm AccountsProofs.tla
    tlapm EventBusProofs.tla
    tlapm RateLimiterProofs.tla
