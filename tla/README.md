# Velora, specified

A verification project for the Velora backend (Go): TLA+ modules translated from
the code under `src/`, TLC configurations that check them on small instances,
and TLAPS proofs of what matters most for instances of any size.

Velora is a dating service. One binary serves an HTTP and WebSocket API
(`velora serve`), runs background jobs (`velora work`) and migrates the database
(`velora migrate`). All durable state is in PostgreSQL; the processes share
nothing else, so what is hard in this code is what concurrent transactions, a
LISTEN/NOTIFY connection that may fail, and long-lived socket handlers do to
each other.

## 1. Inventory

Packages are under `src/internal/`.

| Component | State it keeps | Operations | Talks to |
|---|---|---|---|
| `social` (matching) | `likes`, `passes`, `matches`, `notifications` | Pass, Like, RemoveLike | `chatlog` inside its transactions |
| `safety` | `blocks`, `reports`, `users.status` | Block, Unblock, Unmatch, Report, Resolve | `chatlog`; `auth` (RequireAuth) |
| `chatlog` | `user_events`, `users.event_seq` | LockPair, Emit, EnsureMatch, ClosePair | called by `social`, `safety`, `chat`; notifies the hub with `pg_notify` |
| `chat` service | `conversations`, `messages`, `conversation_participants`, `reveal_consents` | Open, Send, Receipt, Action, Bootstrap, Events, prune | `chatlog`, `chatpush` |
| anonymous pairing (`chat/anonymous.go`) | `chat_queue` | join and pair, leave | `chatlog` |
| realtime hub (`chat/realtime.go`) | clients, slots and channels in memory; `chat_tickets` | ticket, hello, serve, Hub.Run, Close | one LISTEN connection, `chat` Events |
| `auth` | `users`, `auth_identities`, `refresh_tokens` | Register, Login, Google sign-in, Refresh, SignOut, CurrentUser | hub (logout notice), `chat_tickets` |
| `chatpush` | job queue, `chat_push_subscriptions` | subscribe, enqueue with the message, work | called by `chat` Send; push provider |
| `profile` | `profiles`, `profile_prompts`, `personality_answers` | create, patch, touch, who may see whom | `media` |
| `media` | `photos`, files | upload, reorder, delete | file store |
| `discovery`, `compat` | none | score, filter, suggest | read `profiles` |
| `httpx` limiter | counters in memory | allow | every handler |

### What makes each one correct

* **Matching.** Two people never both wait for each other; a match has its
  conversation, and whatever ends the match ends the conversation.
* **Safety.** A block leaves nothing between the two, whatever ran at the same
  time; what was ended is never reopened by a retry, an unblock or a new match.
* **Chat.** Positions are gap-free; a retry never stores a second message; a
  request carries one introduction until it is answered; receipts move forward
  and stay in range; both must consent before identities show; what changes a
  member's inbox is written to that member's event log in the same transaction,
  except a suspension.
* **Event log.** Positions become visible in order, a device skips nothing that
  is still kept, and one whose cursor is too old is told so.
* **Hub.** A wake-up is never lost, missed notifications are made up for, slots
  are bounded and given back, a ticket opens one socket, and a socket whose
  session has ended is closed.
* **Refresh tokens.** A token buys one successor; a family has one usable token;
  a revocation reaches every token the family had.
* **Accounts.** An address leads to one account; linking a Google subject takes
  the password and the sessions it opened; a suspended account is not linked.
* **Moderation.** A pair has one live report; the daily limit is exceeded by a
  bounded number; an open report leaves the queue, unless it is renewed for ever.
* **Profiles.** What a profile lists comes from one save.
* **Push.** A job announces what is still unread, or ends, or uses up its
  attempts; what was settled meanwhile is announced at most once more, and only
  a dead subscription is deleted.
* **Visibility.** Whoever reached out can be seen by the person they reached out
  to; the end of a match does not bring the two back into each other's feeds.
* **Photos.** No row names a file that is gone, unless its bytes were uploaded
  twice; concurrent uploads exceed the limit by a bounded number.
* **Discovery, compatibility.** Scores and percentages stay in range; the order of
  a feed is settled; whoever was introduced can be found; openers never run out.

### Where it is hard

`PROJECT.json` lists each hazard with its line and the properties aimed at it.
In short: concurrent transactions over one pair; retries whose answers were
lost; receipts that arrive late and out of order; the allocation of positions
in a log that several transactions append to while a prune deletes from it and
a device pages through it in separate statements; notifications lost while the
listener reconnects; a handler, a reader goroutine, the hub and the clock all
acting on one socket; and updates under READ COMMITTED that cannot see rows
inserted after they began.

## 2. Modules

| Module | Models | Extends |
|---|---|---|
| `Store` | the tables shared by matching, safety and chat | |
| `Chatlog` | `chatlog.go`: Emit, EnsureMatch, ClosePair | `Store` |
| `Social` | `social.go` | `Chatlog` |
| `Safety` | `safety.go`: blocks, unmatching, suspension | `Chatlog` |
| `Chat` | `service.go`, `anonymous.go` | `Chatlog` |
| `Velora` | the three services together, and the properties of the whole | `Social`, `Safety`, `Chat` |
| `Visibility` | `profile/query.go`: who is shown to whom, over the tables of `Velora` | `Velora` |
| `PairTransactions` | Like, RemoveLike, Unmatch, Block and anonymous safety of one pair, with requests in flight | `Visibility` |
| `AnonymousQueue` | `anonymous.go`, statement by statement | `Velora` |
| `Moderation` | `safety.go`: reports, the queue, decisions | |
| `Compat` | `compat`: scores, filters, ranking, completion, openers | |
| `Profiles` | `profile.go`, `patch.go`: saves of a profile, statement by statement | `Visibility`, `Compat` |
| `Discovery` | `discovery.go` and the reads it rests on: feed, picks, search, openers | `Profiles` |
| `EventLog` | one account's event log, statement by statement | |
| `Realtime` | hub, listener, ticker, tickets, handlers | |
| `RefreshTokens` | one family of refresh tokens, statement by statement | |
| `Accounts` | registration and sign-in, by password and with Google, statement by statement | |
| `Push` | `chatpush/push.go`: subscriptions, jobs, workers | |
| `Photos` | one profile's photo rows and stored files, statement by statement | |
| `MCVelora`, `MCPairs`, `MCQueue`, `MCEventLog`, `MCRealtime`, `MCAuth`, `MCPush`, `MCPhotos`, `MCModeration`, `MCDiscovery` | instances for TLC | |
| `VeloraProofs` | theorems about types, blocks, matches, who is shown to whom | `Visibility` |
| `ThreadProofs` | theorems about conversations | `VeloraProofs` |
| `RefinementProofs` | `AnonymousQueue` and `PairTransactions` implement `Velora` | `AnonymousQueue`, `PairTransactions`, `ThreadProofs` |
| `AuthProofs` | theorems about tokens and accounts | `RefreshTokens`, `Accounts` |
| `DeliveryProofs` | theorems about push and the event log | `Push`, `EventLog` |
| `LimitProofs` | theorems about reports and photos | `Moderation`, `Photos` |
| `DiscoveryProofs` | theorems about `Compat`'s operators and overlapping saves | `Discovery` |
| `RealtimeProofs` | theorems about slots, tickets and wake-ups | `Realtime` |

### Velora: transactions as steps

Every transaction that writes a pair of accounts first takes the advisory lock
of that pair (`chatlog.LockPair`), and rows of different pairs meet only in
`users.event_seq`, which Emit increments. So each transaction is one action:
its guard is the conjunction of the checks that let it through, its primed
variables are its writes, and a refused request is a state in which the action
is not enabled. That this granularity is right is itself checked where it is in
doubt: `RemoveLike` and the queue's DELETE take no lock, `Unmatch` reads the
match before it takes the lock, and a join decides on what it read in earlier
statements. `PairTransactions` and `AnonymousQueue` model them statement by
statement, and both are shown to implement `Velora`. What this asks of `Velora`
is written there: `LateUnmatch` is the unmatch that finds its match gone, and
`PairAnonymously` looks again at nothing but the block.
The status check of RequireAuth is a separate statement, so an action asks for
an active caller only where the handler itself looks again.

State and code:

* A conversation is named by its pair and its origin, the unique key of the
  table; the state `"none"` is the absent row. `NewRow` is the insert.
* `messages[c]` holds seq, sender, client id, body and reply position.
  The limits and the validation of texts decide which inputs get this far, so
  `SendInput` is the set of inputs that were accepted.
* `unseen[u]` stands for the events a person's devices have not consumed, as
  the conversations they name: Emit adds, `Events` empties. Positions and pages
  of the feed are in `EventLog`.
* `Access`, `CanWrite` and `insert` are the functions of those names;
  `Receipt`, `Answer`, `Reveal`, `Mute` and `Archive` are the cases of Receipt
  and Action; `JoinQueue` and `PairAnonymously` are the two ways
  handleAnonymous can end when nobody is already paired with the caller.
* `InboxRow` is the row Bootstrap computes for a member, or none where its joins
  and conditions leave the conversation out.
* Matches may exist at the start without a conversation: the matches table is
  older than the conversations table, and Open makes up the missing row.

### PairTransactions

`req[u]` is the request of an account that has read but not committed: a Like
holds the advisory lock of the pair from its read to its end (`LockFree`), an
Unmatch has read its match and waits for the lock, a request of
`chat.handleSafety` has read who the other person is and goes on to Block.
RemoveLike takes no lock and waits only for a row that an open Like has written
(`Withdraw`). `found` is what the request read; an Unmatch keeps the id of its
row, so a later match of the pair is another row (`AfterMatch`). All else is
`Velora`'s, taken when the lock is free. The refinement (`Abs`, checked as
ImplementsVelora) maps a like that a transaction has read, and is about to
answer, to a like that is still there: whoever withdraws it in between was too
late.

### AnonymousQueue

A join holds a global advisory lock to its end (`QueueLockFree`). `JoinCheck` is
its first statements; then the caller waits, or `Pick`s somebody, and `PairCommit`
takes the lock of the pair, looks at the block again and commits. Leaving,
expiry, blocks, hiding and suspensions run in between. `left` and `late` are
history variables: whoever left the queue, and how often each was paired since.

### Moderation

`Count` and `File` are the two statements of Report. `order` is the order of
`created_at`, which a renewal moves a row to the end of. `Load` is Queue, `Decide`
the decisions on the page read earlier, `DecideAgain` a decision on a report that
has left the queue. `DayPasses` lets rows fall out of the daily count, oldest first.
`Forget` is not a step of the program: a decided row of an earlier day that nobody
has on a page is followed no longer and its name is used again, so that three
rows are enough for a queue that never ends. The status `decided` stands for
actioned and dismissed, which no statement tells apart.

### Compat

Operators for what `compat` computes. Percentages and scores are rounded as in the
code, from exact fractions where the code has float64. Prompts, interests and
photos are counted; an answer, a tag or a place is a value. A sort is `InOrder`:
the k-th is the one that k - 1 others come before. A loop that appends what it
keeps is `Kept`: the positions that stay, in their order.

### Profiles

`saves[r]` says how far a POST or PATCH is. The UPDATE of the columns locks the
profile's row to the end of the transaction (`HoldsRow`); a list of prompts or
answers is replaced by a DELETE, whose snapshot is taken when it begins (`See`) and
which waits for whoever is deleting the same rows (`Drop`), and by INSERTs, which
wait for keys that others hold and fail or overwrite where a key is taken
(`AddPrompts`, `AddAnswers`). `Valid` is Patch.validate, `Cleaned` what is done to tags.
The rows there are at the start are any that the code lets in (`ValidRow`).

### Discovery

A feed is the pool of a query, in the order of last activity and cut off at
`PoolSize`, ranked by `Compat`. `recent` is the order of `last_active_at`, as a
relation; at the start it is the order of the ids (`ById`). Profiles are saved
(`SaveNext`), visited (`Touch`),
fall silent (`Fade`), are liked, passed and blocked meanwhile, and each read is one
state. `met` is a history variable: whom a viewer has been shown. Each person's
search text matches or does not; the set of those it matches is a parameter.

### EventLog

A writer begins a transaction (which fixes `created_at`), allocates a position
by updating `users.event_seq`, and commits or rolls back. `Allocate` fixes the
position, in `tx[w].seq`, and holds the row lock to the end of the transaction;
`Commit` publishes the row at that position, wherever the counter has got to
meanwhile. The prune deletes rows by age. `Events` is three statements: it
reads `event_seq`, then the oldest kept row, then the page; an answer may be
lost and asked for again. `Bootstrap` gives a device a snapshot and a cursor.
`known` and `pruned` are history variables: what a device has learned, and what
the prune has removed.

### Realtime

The steps are what a goroutine does between two points where it can wait.
`notices` are the notifications on the LISTEN connection: unordered, and lost
when it fails. `wake` is the fill of a handler's channel of capacity one: the
hub's sends give up when it is full (`Signalled`), the handler's own first send
waits (`InitialWake`). A page either goes out (`ReadPage`) or fails, for a cursor
ahead of the account or too old, an account that is not active or a failed
query, and then the handler returns (`PageFails`). `open` is the connection, `cancelled` the handler's
context. `Returned` is the state after the deferred calls. Typing frames store
nothing and are left out.

### RefreshTokens

Calls run as READ COMMITTED transactions: LockRow is `select ... for update`,
`todo` is what the revoking update found when it began, `RevokeRow` is the
update reaching one row, waiting for its lock and testing `revoked_at is null`
again; a rotation's spent mark and successor become visible when it commits.
`Abort` covers lost clients, failed statements and deadlock victims.
`from` is a history field: which token a token was bought with.

### Accounts

Register, Login and signInGoogleIdentity as READ COMMITTED transactions.
`req[c]` says how far a request is and what it has read; a transaction's writes
reach `status`, `google`, `email` and `sessions` when it commits. Locks are not
variables: `KeyHeld` (the unique key of an address that an open transaction has
inserted), `SubjectHeld` and `EmailHeld` (the two advisory locks) and `UserHeld`
(`for update of u`) follow from how far the requests are. `googleOnly` is the
configuration, which decides what routes exist and whether linking is allowed;
it is chosen at the start, with any accounts that passwords made before.
`EndSessions` is what refresh tokens do on their own (`RefreshTokens`); `claim`
is a history variable, the address an account was created for.

### Visibility

`Visible`, `FeedCandidates` and `LoadMany` are the SQL conditions of those names
as sets, over the tables of `Velora`. Nothing but these queries reads the
incognito switch, so it is a parameter and the properties quantify over it:
every step is looked at under every setting of every switch.

### Push

A message and its jobs, one for each subscription of the recipient, commit
together (`Enqueue`). A worker's attempt is the steps of `Work`: `Look` is its
query, which copies the endpoint; `Deliver` the provider's answer; then `Finish`
or `Drop`; `LookFails` and `Fail` are an error of a statement or the provider, or
a worker that died, after any of them. The queue and the provider are not under
`src/`: `Again` is what River does with an error (it runs the job again until
MaxAttempts, and rescues jobs of dead workers), `EndpointDies` what makes the
provider answer 404 or 410, for good. `settled` stands for those conditions of
the query that never become true again: the message is read, or the
conversation is closed, declined, blocked or of a suspended account (`Velora`
has EndedStaysEnded; nothing reopens a suspended account). Muting goes both
ways. A subscription is named by its id, which an endpoint keeps when another
account registers it and which is never used again once deleted. `late` is a
history variable. A queue without keys only snoozes its jobs, and is left out.

### Photos

The concurrent requests of one owner. `req[r].pc` is the next statement of a
request: an upload counts, puts the bytes, inserts; `deletePhoto` deletes the
row, unlinks the files, renumbers; a save (PATCH /me with a photo list) reads
the list, deletes what it does not name one by one, reorders. `Abort` ends a
request anywhere, for a lost client, a failed statement or a stopped process.
The transaction of reorder is one step: it locks every row it will renumber
before anything else. Renumbering statements check the unique position row by
row in an order that nothing fixes, so they may fail whenever a row takes a
position that another row has now (`MayCollide`). A file stands for the three
sizes of an image, which share a name; `stored` is a history variable.

## 3. Runs

| Run | Instance | Checks | Shows |
|---|---|---|---|
| `relations` | `MCPairs`: 2 accounts, matches, 1 message | BlockSevers, MatchThreadBacked, NoMutualLikes, ReachedOutIsVisible, EndedStaysEnded, EndedMatchStaysOut, ImplementsVelora | what a block severs, what backs a match conversation, who is still shown to whom, and that requests in flight have the outcomes of one-step transactions |
| `conversations` | `MCVelora`: 2 accounts, a request or an anonymous conversation, 2 messages (anonymous: 1), 2 client ids | GapFree, RetrySafe, OneIntroduction, RevealNeedsBoth, OnlyForward, ChangesAreAnnounced | a conversation from its introduction or pairing to its end, with retries, late receipts, consents, muting and archiving |
| `suspension` | as `conversations` | EveryChangeAnnounced | violated: a suspension changes an inbox and writes no event |
| `queue` | `MCQueue`: 3 accounts, two of the three pairs compatible | OnePartner, LeaverPairedOnce, QueueImplementsVelora | joins, leavers, expiry, blocks and suspensions between the statements of a pairing |
| `moderation` | `MCModeration`: 2 accounts, 1 moderator, 2 calls, 3 rows, 1 report a day, pages of 1, 1 reopened decision | OneLivePerPair, FilingsBounded, NothingWaitsForever | reports filed, renewed, decided and reopened in every order |
| `discovery` | `MCDiscovery`: 3 accounts, 2 saves out of 5, 2 places, a pool of 2 | ListsFromOneSave, IntroducedAreFindable, RankingSettled, OpenersFit | saves that overlap, and what feed, search and openers make of profiles that change |
| `event_log` | 2 writers, 1 device, 4 events, pages of 1, 3 clock ticks, retention 1 | CommitOrder, SkipsOnlyPruned | what a device can rely on while the log is written and pruned |
| `realtime` | 1 account, 2 sockets, 2 tickets, 1 slot, 2 events, pages of 1, cursors to 2 | NoLostWake, SlotsBounded, TicketOnce, CatchesUp, EndedSocketsReturn | no wake-up is lost, sockets catch up and end, slots and tickets are given once |
| `auth` | `MCAuth`: a family of 3 tokens and 3 calls; 3 requests, 2 addresses, 2 subjects, 3 accounts, both modes | OneLive, RevokedTogether, GoogleOnePerAddress, GoogleMeansNoPassword, LinksOnlyActive | rotations, reuses and sign-outs in every order; who ends up with an address, and what linking takes away |
| `photos` | 2 requests, 2 images, at most 2 photos, 3 rows ever inserted, 2 ids or URLs in a request, shift 3, positions to 6 | BrokenOnlyIfShared, OvershootBounded | what rows and files agree on whoever fails in between |
| `push` | 1 message, 2 accounts, 2 endpoints, 2 subscriptions, 2 attempts | LateAtMostOnce, OnlyDeadDropped, Announced | what is announced, dropped and forgotten when reads, re-registrations and dead workers fall between the steps of an attempt |
| `socket_expiry` | 1 socket, 1 ticket, 1 event | ExpiryClosesSocket | violated |

Each state module has a type invariant, `TypeOK` or named after its module; `Profiles`
and `Discovery` state theirs with the proofs. Most of the theorems rest on it, so it
is proved with them. Of `Moderation` and `Photos` only that part is proved which
the theorems need (`RowsOK` and `OrderOK`, `ShapeOK`). Each of them can be added to
a configuration as an INVARIANT, and so can the definitions that do not hold
(section 6).

### Bounds

* Two accounts are enough for `Velora`: every property and every guard is about
  one pair, and a third account would add independent copies of the same
  states. (The theorems are about any number.) The exception is a person whom
  two others could be paired with, which `queue` has: alice is compatible with
  both others, and they are not with each other.
* `queue`: one block, one hidden profile or one suspended account at a time
  (`OneTrouble`); each of them changes what one join has read, and joins do not
  overlap. A leaver can join, be picked and leave again.
* `moderation`: two calls, so that one counts before the other files; a page of
  one, so that a renewed report loses its turn; three rows, so that a pair has a
  decided and a live report at once while another pair waits. `MaxReopens` bounds
  how often a decision is taken back: without it a moderator could send a report
  back for ever.
* `discovery`: account 1 looks, account 2 saves twice, account 3 joins, with the
  same score as account 2; a pool of two holds everyone else or, where somebody is
  decided about, fewer. Six of the seven interests have a playful opener, the most
  that one tone can have. `OneViewer` keeps apart saves, activity and decisions,
  which act on different parts of what a read sees: every read is looked at after
  each of them, and the lists after every interleaving of two saves.
* `relations` has one kind of conversation, whose one message is enough to tell a
  conversation that was used from one that was not.
* `conversations` looks at one conversation of the pair at a time (`OneAtATime`):
  a request that nobody mutes or archives, or an anonymous one of one message.
  No guard on a conversation reads another of the same pair, and muting and
  archiving are the same action for both kinds; what is cut is only their
  product. The theorems of `ThreadProofs` hold without that bound.
* `MaxMessages` bounds messages per conversation: two are needed for an
  introduction and a reply, for a receipt that skips a position, and for a
  retry after another message; one is enough where the subject is the relation
  of a pair.
* Two client ids and one body: a retry with the same id and another body is
  refused like a retry with another reply position, which is present.
* `event_log`: two writers overlap; a page of one makes every second event a
  page boundary; with retention 1 and three ticks the prune takes old rows
  while later rows, and rows whose transaction began early, are still there.
* `realtime`: two events and pages of one make a handler page twice and be
  signalled meanwhile. Two sockets of one account share its signals
  and compete for its one slot. A client starts from any cursor up to two, so
  also from one that the account has not reached. The limit of the process is out of reach of one
  account; SlotsAlwaysBounded proves both limits for any of them.
* `auth`, tokens: three calls, so that a rotation, a reuse and a sign-out overlap;
  three tokens, so that a middle token can be presented.
* `auth`, sign-ins: three requests, so that a suspension or a third claim falls between
  two that contend; two addresses and two subjects, so that either is shared or
  not; three accounts, as many as can be created for two addresses and one more.
  The two modules share no variable, so `MCAuth` takes steps of the one while
  the other is at its start: what is cut is only their product.
* `push`: two subscriptions, so that a browser unsubscribes and comes back under a
  new id while a job of the old one runs; two endpoints and two accounts, so
  that a browser changes hands and only one of the recipient's is dead; two
  attempts, so that one fails after the push and the other looks again. Jobs
  of different messages meet only in the subscriptions, which every action of
  the environment changes as well, so one message is enough.
* `photos`: two requests, so that an upload or a save meets a delete half way;
  two images, so that rows share one and differ; three rows, one more than the
  limit, which is how far two uploads go over it; positions for two shifts
  beyond the limit, so that the third reorder meets the end of the column.
  Clients name at most two ids or URLs (`MaxNamed`; the code has no such bound),
  among them ids whose rows are gone: one more or one fewer than the rows there.

`MaxMessages`, `MaxEvents`, `MaxTime`, `MaxTokens`, `MaxIds` and `MaxReopens` are guards on the
actions that count up; `MaxCursor` and `MaxNamed` bound what a client sends. `OneAtATime` and `OneTrouble` are constraints: states beyond
them are not continued. `OneViewer` is a guard on every step of its instance. The
runs allow deadlock because an instance that has used up its bounds, or whose accounts are all suspended, really stops. Accounts, client ids, writers,
calls, sockets, tickets, requests and images are interchangeable where a run says SYMMETRY; the
runs with liveness use none.

`conversations`, `relations` and `queue` each leave out services that do not act on
their kind of conversation, and take every step of `Velora`'s `Next` between them.

### Fairness

`Realtime`, `Push` and `Moderation` have liveness properties. `Fairness` of `Realtime` asks for weak fairness of
the ticker, which fires every five seconds until shutdown; of the listener's
connection attempts and of the signal it gives when connected; and of each step
of a handler and its reader, where reading a page ends with the page or with an
error, whichever, because Go runs every goroutine that can run and
the statements they execute end by their deadlines. It asks for nothing of
clients, of notifications, of failures, of token expiry: nothing guarantees
that a notification is delivered before the connection fails, so `CatchesUp`
rests on the ticker alone.

`FairSpec` of `Push` asks for weak fairness of the work on each job: River hands
every job to a worker sooner or later, ends an attempt by its deadline, and
rescues the jobs of dead workers. Nothing is asked of which step it is: an attempt may
fail every time, and then the job is discarded.

`Spec` of `Moderation` asks that each moderator keeps loading the queue and
deciding what the page shows. It asks nothing of reporters, and of no decision
in particular. That is a statement about people, not about the code: what
NothingWaitsForever says of the code is that a moderator who works through the
queue leaves nothing behind but what is renewed for ever.

## 4. Proofs

The theorems hold for every set of accounts, calls, sockets and tokens, and every
bound, infinite sets of sockets included. What they assume is named where the
constants are declared: that what stands for nothing is not one of the things
(no account is `Nobody`, no call `NoCall`), that bounds and sizes are numbers and
a page, a pool and a day's limit not empty, and where something is counted, that
there are finitely many: calls in `Moderation`, requests in `Photos`, accounts
in `Discovery`. `SubmissionsAssumption` is what a decoded request body is: lists
that are sequences, an age that is a number.

* `VeloraProofs`: `TypeCorrect`, the type invariant of the shared tables. Its
  lemmas are one per service; `MaxMessages` plays no part.
  Of one-step transactions it proves:
  * `BlockAlwaysSevers`: BlockSevers is inductive given the types. Each action
    that could put something between the two is stopped by `Blocked`, and Block
    removes what is there.
  * `MatchThreadAlwaysBacked`: a live match conversation has its match. The
    only steps that make one are EnsureMatch for a pair that is matched, and
    the only ones that remove a match also close its live conversations.
  * `LikesNeverMutual`: a returned like becomes a match instead of a like.
  * `ReachedOutAlwaysVisible` and `EndedMatchesStayOut`, about who is shown to
    whom: the first because a pair with a like or a match is not blocked
    (BlockSevers), the second because whatever ends a match leaves a pass or a
    block behind.
* `ThreadProofs`, of any accounts, messages and client ids: `AlwaysGapFree`,
  `RetriesAreSafe`, `IntroducedOnce`, `RevealedByBoth`, `EndedForGood`,
  `OnlyEverForward` and `ChangesAlwaysAnnounced`. `Change(c)` lists the six things
  a step can do to one conversation: nothing, open it, close it, post to it,
  answer a request, consent to a reveal; `EveryChange` shows that every action of
  every service is one of them. `ThreadInv` adds to the first four properties
  that a conversation with no row has no messages and no consents, which is what
  makes the first message of a new conversation its position 1. The last theorem
  goes action by action, with BlockSevers and MatchThreadBacked to know what an
  action that removes a match or a block can close. `OnlyResolveSuspends` and
  `ResolveShows` are for its exception: no step but a suspension changes the status
  of an account, and a suspension shows in no inbox but those of the account's peers.
* `RefinementProofs`: two modules that take requests statement by statement
  implement `Velora`, whose transactions are single steps.
  * `StatementsRefine`: likes, removals, unmatches, blocks and safety actions in
    flight (`PairTransactions`). `PairInv` adds to the types: `LikesOK` (an open
    Like is of two people, alone holds their lock, has no block between them,
    and has missed no like that is there), `UnmatchesOK` (the match an Unmatch
    has read is there or has ended) and `NamesPeer`. The interesting steps are
    RemoveLike, which takes no lock, against a Like that has read the like it
    removes, and an Unmatch whose match is gone when its turn comes.
  * `StatementsSever`, `StatementsBacked`, `StatementsNeverMutual`,
    `StatementsShow`, `StatementsNeverReopen` and `StatementsKeepOut` carry the
    theorems about `Velora` over to requests in flight: `ThreadProofs` is taken
    as an instance with the mapped likes, its theorems apply to the mapped
    behaviour, and what they say of the mapped likes is read back.
  * `OnePartnerAlways`, `LeaversPairedOnce` and `QueueRefines`, of
    `AnonymousQueue`. A join never looks at the conversations of the person it
    picks, so that nobody gets two partners rests on an invariant of the whole
    queue. `QInv` adds to the types, OnePartner and BlockSevers: `OneJoin` (one
    join at a time, of somebody without a partner who has not left: the global
    lock), `Waiters` (whoever waits has no partner), `Picks` (whoever is picked
    has got none since) and `Late` (only leavers are paired late). The step from
    `PairCommit` to `PairAnonymously` is where it is used, since that action
    asks that neither has a partner. The assumption is that the queue's origin
    is among `Origins`.
* `AuthProofs`, of tokens: `TokensBuyOnce`, `LatestIsLive`, `RevocationReachesBack`.
  None is inductive as it stands. `IInv` adds: `Chain` (each token was bought
  with the one before it, all but the latest are spent, what has not been
  issued is not revoked); `Held` (a call that has read its token holds its row,
  and a rotation under way is of an unspent token, hence of the latest);
  `Sweep` (what a revocation has yet to reach or has reached leaves out no
  predecessor that is not revoked already). `Held` is where the row lock of
  `select ... for update` is used; without it two rotations could both be of
  the latest token.
* `AuthProofs`, of accounts: `AccountsTypesCorrect`, `OnePerAddressAlways`,
  `PasswordsEndWithGoogle` and `OnlyActiveLinked`. `AccountsInv` adds to the types
  and the two invariants: `Stages` (what a request knows at each of its stages,
  and which stages are of which kind of sign-in), `Exclusive` (the locks: one
  sign-in at a time per address, one link at a time per account, a new id is
  nobody else's), `Rows` (an account not made yet has no identity, one that is
  made one address at most) and `Decided`: what a request read in an earlier
  statement still holds when it acts on it, which is what the locks are for.
* `DeliveryProofs`, of push: `PushTypesCorrect` (of the types, that an endpoint
  has one subscription is the part with content), `LateAtMostOnceAlways` and
  `DropsOnlyTheDead`. `LateInv` adds that a late push leaves a job that has not
  looked and can never find anything to announce again, because its message is
  settled or its subscription deleted, and neither comes back. `CopyInv` adds
  that the endpoint a worker copied is still its subscription's while that is
  there, and that an endpoint that answered gone stays so. Whose the subscription is
  when it is deleted, nothing says: another account may have registered it.
* `DeliveryProofs`, of the event log: `AlwaysInCommitOrder` and `NothingSkipped`.
  `LogInv` adds to the types and the two properties what the row lock is for
  (`Allocated`): one transaction at a time has a position that is not published,
  and the counter has not moved since it was given. So what a commit publishes is
  still the next position. A counter that nobody waits for lets the later
  of two positions appear first. A page's rows are the least that are above the cursor, so
  what lies between them and is not shown was pruned.
* `LimitProofs`, of reports: `OneLiveAlways` and `FilingsAlwaysBounded`. `ModInv`
  counts what a reporter has filed today together with the requests that have
  counted and not filed; counting is where the limit is compared, so the sum
  exceeds it by at most all calls but one.
* `LimitProofs`, of photos: `BrokenImagesAreShared` and `OvershootAlwaysBounded`.
  `HoldersOK` follows a file from its upload to its unlinking: an image stored
  once is held by one row, or by one upload about to insert it, or by one
  deletion about to unlink it, and the first two find the file there.
* `DiscoveryProofs`, of the operators: `OverallBetween` (the overall score lies
  between the least and the greatest of the six), `CompatibilityRange` (it is a
  percentage, whatever the profiles), `CompletionRange` (a profile is between 16
  and 100 per cent complete, and at 100 exactly if nothing is missing) and
  `BeforeIsTotal` (the ranking is a strict total order on different ids).
* `DiscoveryProofs`, of saves: `ListsStayWhole`. `SavesInv` shows that the two
  lists are safe for different reasons. Prompts need no lock: every list that is
  not empty has a first prompt, so of two saves that insert one waits for the
  other's key and fails, and a DELETE takes a whole list or nothing. Answers
  have no such key and rest on the row lock of the UPDATE (`HoldsRow`).
* `DiscoveryProofs`, of reads: `FeedsAreSettled`, `SearchFindsTheIntroduced` and
  `OpenersAlwaysFit`. `ReadInv` says what a read relies on (activity is a strict
  total order of all accounts, every row is one the constraints let in, the
  lists are finite, whoever was introduced has a profile); `PatchesOK` what a
  save carries until its statements check it. Sorting is treated without
  induction: the rank of an element is how many come before it, ranks are
  different numbers below the size, so each is taken once (`InOrderLists`), and
  orders that a bijection carries into each other list the same things
  (`SameOrder`). The candidates of a feed in two orders of activity are such a
  pair as long as the pool holds them all. The openers fit because those of one
  tone have different numbers up to six (`SharedAreNumbered`, `ToneFits`).
* `RealtimeProofs`: `TypesCorrect`, `SlotsAlwaysBounded`, `TicketsOpenOnce`,
  `WakeNeverLost`. The
  limits are checked once, when a handler registers, so `IInv` adds what ties
  the hub's clients to the handlers: `ClientsHold` (the clients are exactly the
  handlers that have registered and not returned), `WithinLimits` (the clients
  are a finite set within both limits), and `TicketsSpent` (a ticket some
  socket has is gone, so none can redeem it again). Cardinalities are compared
  through the library's facts about finite sets. `WakeInv` extends NoLostWake to
  a handler that writes its last page: an event that commits while that page goes
  out signals a channel nobody is reading yet, and the signal has to be there
  still when the handler gets back to its select.

Every invariant and every action property of the runs is stated by a theorem.
Only checked by TLC is liveness, which the prover cannot treat (fairness and
ENABLED): Announced, CatchesUp, EndedSocketsReturn and NothingWaitsForever, and
the counterexamples of `socket_expiry` and `suspension`.

## 5. Not modelled

* Validation of texts, wording and layout of answers: they decide only which inputs
  get through.
* The rate limiter: a token bucket per key under one mutex, in the memory of one
  process. It refuses before any handler runs and no other component reads it. Nor
  the daily limit of likes, which is counted as the one of reports is.
* Typing frames and presence, and whether a notice was read: nothing else reads them.
* Insights, summaries and the words of openers; the letter case of tags.
* Scores at an exact half, where float64 may round the other way; the order of the
  shared interests in a list of openers.
* Reads of a feed that mix columns and lists of two moments (`enrich` runs several
  statements), and a latitude that is set without its longitude.
* `config`, `apidocs`, `db`, `httpx`, `cmd` (start, stop, and a client that tests a
  running server): configuration, documents and pure I/O.

## 6. Where the code and its words differ

Two runs are expected to be violated: `socket_expiry` shows item 1, `suspension`
item 2; `PROJECT.json` quotes the words. Items 3 to 5 are definitions kept in their
modules: TLC finds each violated when it is added to the named configuration.

1. `socket_expiry`: a handler registers its client and then sends itself a
   first wake-up, waiting for room. If the hub has signalled in between there
   is no room and nobody to make it: the handler never reaches the select that
   would see the deadline of its token, and its slot is gone for good.
   EndedSocketsReturn is therefore about sockets being served.
2. `suspension`: "every fact that changes a thread is written as an event, not
   merely pushed" (`0006_messages.sql:8-9`). Resolve sets the status of an account
   and writes no event (`safety.go:397`), while Bootstrap leaves out conversations
   with a peer who is not active (`chat/service.go:176`): the thread is gone from
   the peer's inbox, and a device that follows the feed is not told. What does
   hold is ChangesAreAnnounced: nothing else changes an inbox without an event.
3. NoBrokenImage (`photos.cfg`): the name of a stored image is a digest of the uploaded bytes,
   and deleting a photo deletes the file of that name, whoever else uses it. A
   photo uploaded twice loses its image with the first of the two rows. What
   does hold is BrokenOnlyIfShared.
4. FamilyRevoked (`auth.cfg`): a successor inserted by a refresh that has not committed
   is invisible to the update that revokes its family. What does hold is
   RevokedTogether: a revocation takes every token that was there when it began.
5. OneAccountPerAddress (`auth.cfg`): where passwords are enabled, Register takes no lock on its
   address, and the lock of a Google sign-in keeps out other Google sign-ins
   only. A Google sign-in that does not see a registration under way makes a
   second account, then clears the password of the row the registration has
   committed and leaves that row with the first. What does hold is
   GoogleOnePerAddress: where Google is the only way in, an address has one
   account.

Also seen, and left to the reader:

* Like does not look at the matches (`social/social.go:170`), so liking a match
  again leaves a pending like beside the match, where `social.go:106-107` says
  that committing half "would leave someone matched but still listed as a
  pending like".
* The prune can delete rows between the staleness check of Events and its page,
  or, since `created_at` is the start of a transaction, out of the middle of the
  log; a device then moves past events it never saw without being told to start
  again (`chat/service.go:557-560` says it would be told). What does hold is
  SkipsOnlyPruned: what it skips has been pruned.
* "You can have at most 6 photos" (`media/handlers.go:209`): two uploads that
  count five, and a partial reorder that frees the place of the first before
  the second takes it, leave seven. OvershootBounded says how far this goes.
* A delete that stops before it closes the gap, or a partial reorder, leaves a
  profile whose next upload counts a position that is taken; every upload
  fails until a delete or a reorder renumbers the rows.
* Two uploads of the same bytes at once write through the same temporary file
  (`media/media.go:76`), so one can rename what the other has half written.

* A block removes the blocker's notices about the other person and not the
  blocked person's (`safety.go:106`, against its comment at 59-61). BlockSevers
  states the half that holds.
* A decision is applied to a report by its id, as it is now (`safety.go:381`): its
  reporter may have rewritten it since the moderator read it.
* "oldest first so nothing waits forever" (`safety.go:317`): a renewal gives the
  report a new `created_at` (`safety.go:268`), so one that is renewed often enough
  can wait for ever. NothingWaitsForever says so.
* Whoever leaves the queue can be paired once more, by the join that had picked
  them (LeaverPairedOnce), and whoever leaves during a join of their own, from
  another device, leaves nothing: the row is not committed yet.
* A person paired with an account that is then suspended is handed the same
  conversation, which they cannot use, by every join (`anonymous.go:37`).
* A birth date has no earliest day (`profile.go:75-88`), and a search opens ages up to 120
  and distances up to 20000 km (`discovery.go:146-152`): a feed whose filters go
  further shows people whom the search by name leaves out
  (IntroducedAreFindable has the conditions).
* Two saves at once that name no column take no lock, and their answers may mix,
  where `profile.go:233` says "replace rather than merge". ListsFromOneSave
  says what holds.
* A PATCH whose photo list is refused has committed the rest, where `patch.go:118`
  says that a rejected patch "leaves the row exactly as it was".
* Age limits set one at a time are not compared (`patch.go:258-260`), so the least
  age may exceed the greatest, and the feed is then empty.
* The pool of 300 is filled before the filters apply, so a viewer with narrow
  filters can get an empty feed while others would fit.
* RelationshipScore is not symmetric: casual is near to not sure (78), and not sure
  is not near to casual (42). (LocationScore is not symmetric on purpose: it is
  about the viewer's own distance.)
* A feed with genders of its own shows people whom the search by name leaves out,
  since that asks for the viewer's own (IntroducedAreFindable has the condition).
* A sign-out between the redemption of a ticket and the registration of its socket
  (`realtime.go:185`) finds no client to close; the socket lasts until its token
  expires.
* A push that finds its endpoint gone deletes the subscription by id
  (`chatpush/push.go:134`), although another account may have registered it since.
  OnlyDeadDropped says that its endpoint is dead.
* A handler whose cursor is ahead of the account, or too far behind, is closed
  without a word (`realtime.go:230-233`): what Events answers to the HTTP caller,
  that the device should reload, does not reach the socket.
* "Already reached out" (`profile/query.go:280-282`) means a like or a match: an
  incognito account that opens a message request stays invisible to the person
  it wrote to, except inside that conversation.
* People who match again after an unmatch keep their closed conversation:
  EnsureMatch inserts on conflict do nothing, and EndedStaysEnded says so.

## 7. Plan

Every component with behaviour of its own is modelled, and every safety property
of the runs is proved. What is left:

1. From the theorems about single modules to the whole: that the allocation of
   positions in `EventLog` is the Emit of `Velora`, so that ChangesAreAnnounced
   and NothingSkipped together say what a device learns of its conversations.
2. The daily limit of likes and of blocks, which are counted as the one of
   reports is (FilingsBounded).
3. The steps of liveness that are not temporal: that the measures which
   CatchesUp and Announced rest on go down with every step of a handler or a job.
