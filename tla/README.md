# Verification of the movie service

TLA+ models of the NestJS application in `src/` (a streaming catalogue with
likes, accounts and a support chat), the TLC configurations that check them on
small instances, and the TLAPS proofs of what holds on instances of any size.
Source paths below are relative to the repository root.

1. Inventory - 2. Plan - 3. Modules and code - 4. Runs and bounds -
5. Fairness - 6. Proofs - 7. Where code and documents disagree -
8. Assumptions and what is not modelled - 9. How to run

## 1. Inventory

The application is one Node process. Handlers interleave only at `await`s;
between two awaits they run alone. State lives in MongoDB (movies, details,
likes, directors, genres, users), in PostgreSQL (chat rooms, messages and the
users the chat refers to) and in the process itself (the cache of
`cache-manager`, the chat's map of sockets, sessions). Nothing the process holds
survives its exit; the platform (`Procfile`) starts it again.

| part | source | state | operations | hard behaviour | what makes it correct |
|---|---|---|---|---|---|
| movie likes | `src/movie/movie.service.ts` `toggleMovieLike` | `movieuserlike` documents, unique per movie and user | POST `:id/like`, `:id/dislike` | check-then-act over five awaits; a save that is not awaited; its rejection, for whatever reason, ends the process | a press acts at most once, on the record it read; a press nobody overlaps toggles its button unless a call fails |
| movie catalogue | `movie.service.ts` `create`, `update`, `remove` | movies, details, references to directors and genres | POST, PATCH, DELETE | a transaction used by create, opened and ignored by update, absent from remove; swallowed errors; a rejection or an exit between two writes | a movie always has its detail and a title of its own; movies appear and vanish whole |
| movie pages | `movie.service.ts` `findAll` | none; the cursor travels with the client | GET | pages read one after the other from a moving collection; likes that outlive their movie | a walk meets every movie that stays exactly once, and ends |
| recent movies | `movie.controller.ts` `getMoviesRecent`, `movie.service.ts` `findRecent` | an entry of the route's cache interceptor, and one of the service that never expires | GET `recent` | a list cached over writes; two requests that fill the entries in the other order; eviction | a client is not taken back to an older list; nothing outlives the two entries |
| authentication | `src/auth/**` | verified payloads and blocked tokens in the cache | login, `login/passport`, register, `token/access`, `token/block`, the bearer middleware, two guards | a token cached as good and blocked by another request; eviction from a bounded cache; expiry between two awaits; restarts | a blocked or expired token opens nothing, a good one is not refused, a role comes from a login |
| throttling | `src/common/interceptor/throttle.interceptor.ts` | a counter per user, handler and minute of the hour | around `@Throttle` handlers | check before, count after, each through the cache; keys come back after an hour | calls one after the other are limited; nobody is refused on an old count |
| support chat | `src/chat/**`, `ws-transaction.interceptor.ts` | the map from users to sockets, rooms, messages, connections of the database pool | connect, disconnect, `sendMessage` | two sockets of one user; a socket that goes while it comes; a room made outside the transaction; a message emitted before its commit; a second connection asked for while one is held; a socket that goes while its message is handled, and a failing begin or rollback, after which nobody releases the connection | who is there is in the map and in its rooms; what is shown is shown to the right people and stored; work that has begun goes on |
| users | `src/user/**`, `auth.service.ts` `register`, `authenticate`, `login` | user documents, unique e-mail | create, read, update, remove, log in | the look-up of the e-mail and the insert are separated by a slow hash, as are the reading of a role and its use; a record is read again by its e-mail | one account per e-mail; a registration answers its own account; a login gets a role that went with the password |
| genres, directors | `src/genre/**`, `src/director/**` | documents | create, read, update, remove | find, then write, then read again | a removal is not undone by an update; an answer tells of its own update |
| files | `src/common/common.service.ts`, `common.controller.ts`, `tasks.service.ts`, `src/worker/**` | files in the temporary and the permanent folder | upload, move, sweep | a sweep racing an upload | a file in use is not swept |
| session counter | `movie.controller.ts` `getMovie`, `main.ts` | `session.movieCount` | GET `:id` | a session is loaded when a request comes and saved when it ends | no view of a client who waits for his answers is lost |
| wiring | `src/main.ts`, `src/app.module.ts`, pipes, filters, migrations, `prisma/**` | none of its own | start-up | none | not modelled |

Some code has no live caller and so nothing to compose with: `TasksService` is
provided by no module and its `@Cron`s are commented out; the thumbnail worker
is registered by no module; `TransactionInterceptor`, `CacheInterceptor`,
`saveMovieToPermanentStorage` and the two SQL pagination helpers are only
called from commented-out code.

`PROJECT.json` lists these parts with what is modelled of each, and the hazards
found while reading, each at its line with the properties that cover it.

## 2. Plan

Done, in this order:

1. `LikeButtons` (abstract), `MovieLike`, `MovieLikeProofs`
2. `MovieShelf` (abstract), `MovieCatalog`, `MCMovieCatalog`, `MovieCatalogProofs`
3. `TokenAuth`, `MCTokenAuth`, `TokenAuthProofs`: middleware, cache, block list,
   guards, time
4. `Throttle`, `MCThrottle`, `ThrottleProofs`: the counter, its overlaps and the
   wrap of the minute
5. `MoviePages`, `MoviePagesProofs`: the cursor walk over a moving collection
6. `SupportDesk` (abstract), `Chat`, `MCChat`, `ChatProofs`: sockets, rooms,
   messages and the pool of connections
7. `Records`, `MCRecords`, `RecordsProofs`: users, genres, directors, registering
   and logging in
8. `MovieViews`, `MovieViewsProofs`: the recent list and the session's counter

What composes with what: `Chat` holds the gateway, the service, the interceptor
and the pool in one module, since the hazards lie between them; `MovieCatalog`
takes directors and genres as things that come and go, which `Records` shows
they do, and `MovieViews` takes movies as versions of a list; `TokenAuth` and
`Throttle` share one bounded cache, and each is given the other's traffic as
evictions (`OtherSet`, `Evict`), so each is checked against every behaviour of
the other and a composition would add none.

## 3. Modules and code

In every model, an action is what one request does from one `await` to the
next, so all interleavings of requests at their awaits are behaviours. A request
is named by a model value and its place in the handler by `pc`. `PROJECT.json`
maps every definition to the lines it translates. Definitions that start with
"A bug the checks must notice" are faulty variants of the definition they
precede, used by no specification; each breaks one property, which shows that
the property depends on the code.

### MovieLike (`toggleMovieLike`, `movie.service.ts:817-929`)

| model | code |
|---|---|
| `movies`, `likes` | the collections; a like's `_id` is the press that created it |
| `press`, `found`, `write` | the arguments, the record read, what the branch decided |
| `sent` | writes on their way to MongoDB, the un-awaited save included |
| `stray` | writes that may still arrive though nobody waits for them: their process has gone, or was told they failed |
| `failed` | as history, the calls MongoDB or the network failed |
| `Press`, `FindMovie`, `FindUser` | the controller, and the two look-ups with their 400 and 401 |
| `FindNoLike`, `FindSameLike`, `FindOtherLike` | `findOne` and the branch: create, `findByIdAndDelete`, or `likeRecord.save()` without `await` |
| `Create`, `FindByIdAndDelete`, `Save` | the write arriving; the unique index refuses a second record |
| `SaveFails`, `SaveRejected` | the save rejects, since the record is gone or since MongoDB or the network failed it, with nobody to catch it: Node ends the process (`Exit`) |
| `ReadFails`, `WriteRejected` | a call that is awaited is rejected, a write whether or not it was or will be carried out: Nest answers 500 |
| `FindResult`, `Restart`, `RemoveMovie` | the answer, the platform, `MovieService.remove` |

`LikeButtons` says what users may rely on: a press acts at most once, on the
button as it saw it, and only while the button is still lit by the press that
lit it then. `ImplementsLikeButtons` is that refinement; the mapping reads
the record's creator as who lit the button and reconstructs what a press saw
from what it decided.

### MovieCatalog (`create` 316-379, `update` 504-571, `remove` 768-805)

| model | code |
|---|---|
| `movies`, `details` | the collections; both documents of a create bear its request's name |
| `directors`, `genres` | not there yet, here, or gone |
| `held` | open transactions that hold a title in the unique index |
| `Post`, `Patch`, `Delete` | the three routes; ids of movies that never existed included |
| `Find`, `Populate` | `findById().populate('detail')`, two queries |
| `FindDirector`, `FindGenres` | the checks, outside the transaction; a repeated genre id fails the comparison of lengths |
| `CreateDetail`, `CreateMovie`, `CommitTransaction` | create's transaction; `CommitUnacknowledged`, `AbortTransaction` its failures |
| `UpdateDetail`, `UpdateMovie` | update's writes, each on its own since no session is passed; the second waits for, or loses to, a title held elsewhere |
| `DeleteMovie`, `DeleteDetail` | remove's two deletes |
| `ReadFails`, `WriteRejected` | a query is rejected, a write carried out or not: create and remove answer 500, update answers nothing, and each may stop half-way |
| `Crash` | the process exits: requests lost, open transactions dropped |

`MovieShelf` says what the two collections promise when they are looked at
together: a movie appears whole and once, under a free title, is edited only
while it is there, vanishes whole and never comes back. `ImplementsShelf` maps a
movie to its document joined with its detail at one moment. A reader's `populate`
is a second query, so a reader may find a movie and, after a removal in between,
not its detail.

### TokenAuth (`src/auth/**`, the bearer middleware, both guards)

| model | code |
|---|---|
| `claims`, `issued` | the payloads of tokens, `Foreign` ones signed with another secret |
| `until` | the cache: when each `BLOCK_TOKEN_`, `TOKEN_` or other entry expires |
| `Login`, `RotateAccessToken` | `issueToken`; the rotated payload has no `sub` |
| `Request`, `CheckBlock`, `CheckCache`, `Verify`, `Store` | the middleware, one action per await; a foreign signature goes on without a user, an expired token is refused |
| `Guard` | `AuthGuard` and `RBACGuard` in one turn |
| `TokenBlock` | `auth.service.ts` `tokenBlock`: the entry lives as long as the token |
| `OtherSet`, `Tick`, `Restart` | other users of the cache, the clock, the process |

A request slot is used again when it has been answered, so that a bounded
number of slots stands for any number of requests, this many at a time.

### Throttle (`throttle.interceptor.ts`)

`Call` takes the minute and reads the counter, `Handle` or `HandleFails` is the
handler, `GetCount` and `SetCount` are the two awaits of the `tap` behind it.
Keys carry the minute of the hour, so `Hour` minutes later the same key comes
back. `served` counts, as history, what was answered per user and real minute;
`spoiled` marks the minutes whose calls overlapped or whose counter was evicted,
where the code promises no limit.

### MoviePages (`findAll`, `movie.service.ts:116-237`)

`FindMovies` filters by the cursor, sorts, reads one movie too many and takes
the next cursor from the last one kept; `FindLikes` reads the likes of the page,
populated with their movies, a step later. `CreateMovie` and `RemoveMovie` may
come between any two queries; an `_id` may become visible after a larger one,
since it is drawn before the commit.

### Chat (`src/chat/**`, `ws-transaction.interceptor.ts`)

| model | code |
|---|---|
| `owner`, `connected`, `phase`, `identified` | a socket: whose token it brings, whether it is up, where `handleConnection` is, `client.data.user` |
| `clients`, `roomsRead`, `joined` | `connectedClients`; what `joinUserRooms` has read; the rooms of the socket |
| `rooms` | the rooms in the database; a room bears the name of the message that made it, and its people are that message's author and the administrator `findOne` returns |
| `pc`, `from`, `asked`, `room`, `shown` | a message: where its handler is, its socket, the room it names, `chatRoom`, the sockets it went to |
| `pool`, `Holders`, `Free` | the connections of the driver; a message holds one from `connect()` to `release()` |
| `leaked` | the messages whose connection nobody will release |
| `failed`, `unheard` | as history, the messages the database rejected a step of, and the rooms it made though it rejected their making |
| `Connect`, `TokenVerified`, `TokenRefused`, `ReadRooms`, `ReadFails`, `JoinRooms` | `handleConnection`, one action per await, and its `catch`; `join` does nothing for a socket that has gone |
| `Disconnect`, `Expel` | `handleDisconnect`, run when the connection ends or the gateway ends it |
| `Send`, `Begin`, `Commit`, `Rollback` | the event, and the interceptor around the handler |
| `FindUser`, `FindAskedRoom`, `FindOwnRoom`, `FindNoRoom`, `MakeRoom`, `Announce`, `Emit` | `createMessage` and `getOrCreateChatRoom`, in the order of their awaits; those that use a repository and not the query runner need one more connection |
| `Throw`, `Done` | where the handler's error or result goes: to `catchError` or `tap` while the socket is up; to nobody once it has gone, since the adapter listens only until the disconnect (`takeUntil`), and then the connection stays held and the message is lost |
| `BeginFails`, `HandlerFails`, `RollbackFails` | the database rejects `connect()` or `startTransaction()`, a query or the insert of the handler, or the rollback; the first and the last skip `release()` |
| `Restart` | the process ends, since a commit that fails rejects with nobody to catch it, and comes back with an empty map |

`SupportDesk` says what people may rely on: a message is shown only to the
people of one room, of whom its author is one unless an administrator; one that
is shown while its sender is there is stored, not refused, unless the process
stops in between; one that is shown after its sender has left is lost; a room
once opened stays. `ImplementsSupportDesk` forgets sockets and connections: a
message is `sent` from the event to the emission, `shown` until its commit, and
its sender has `left` when its socket has gone.

### Records (`user.service.ts`, `genre.service.ts`, `director.service.ts`, `auth.service.ts:117-186`)

The three services have one shape: look a record up, write, read it again, with
no transaction around. `service` picks one of them for a behaviour, since their
collections are kept apart, and `Serve` gives each its own steps.

| model | code |
|---|---|
| `docs` | the collection; a record's id is the request that made it |
| `ask`, `id`, `found`, `result` | the body and id of a request, what a login has read, what was answered |
| `FindEmail`, `Create`, `RereadEmail` | `UserService.create`, with the hash between the first two; genres and directors are inserted without a look-up |
| `FindById`, `FindByIdAndUpdate`, `UpdateNothing`, `RereadId` | `update`; an update of nothing that is there any more writes nothing |
| `FindByIdAndDelete`, `FindOne` | `remove`, `findOne` |
| `FindAccount`, `Compare` | `authenticate` and `issueToken`, with bcrypt's comparison between them |
| `Conflict`, `DatabaseFails` | the unique index, and MongoDB failing a call |

### MovieViews (`movie.controller.ts:55-81`, `movie.service.ts:66-97`, `main.ts:45-49`)

A list is the version of the movies it was made from. `GetRouted`, `GetRecent`,
`Find`, `SetRecent`, `PutRouted` are the awaits of a request for the recent list,
through the interceptor's entry and the service's; `ViewMovie` is `getMovie`.
Every request loads its client's session in `Arrive` and saves it in `End`.
`Drop` is the expiry of the route's entry or an eviction, `Change` a movie that
changes, which neither entry is told of.

## 4. Runs and bounds

| run | question | bounds and why they are enough |
|---|---|---|
| `MovieLike_presses` | does every press act once, on what it read; does an undisturbed press toggle, and is it answered; what ends the process; does the code implement `LikeButtons`; does every press and its write come to an end | three presses of one movie by two users, and one call that fails: two presses race over a record that a third has made, two buttons let one button's race end the process under the other's press, and one failed call is the most that tells a press with a reason from one without. That a user has no document is in the proofs and in `MovieLike_answer`. A record removed and made anew under an old write takes four presses; that case is left to the proof of `ImplementsLikeButtons`, which has no bound |
| `MovieLike_answer` | is an undisturbed press answered with what it did (no, section 7) | three presses of one button |
| `MovieCatalog_requests` | do movies keep detail, title and real references; who leaves orphans, whatever is rejected; does the code implement `MovieShelf`; does every request end, an update that waits for a title included | three requests of any kind: two that race and one that made the movie they race for; two titles, a repeated genre id, one director and one genre that come and go; any read or write may be rejected, any number of times |
| `MovieCatalog_atomic` | does a failed update leave nothing (no, section 7) | as above, with one more body |
| `TokenAuth_block` | does a block hold; whose payload is a request's user; does a good token pass | two requests at a time, two tokens, a cache of two entries used by a third party, so every insertion may evict; three milliseconds cover a token before, at and after its expiry |
| `TokenAuth_roles` | who reaches an admin handler | two roles, a free token to rotate into and a foreign one that claims role 0; `Margin = 3` exceeds every lifetime, so each payload is cached for the clamped 1 ms |
| `TokenAuth_rotate` | do issued tokens name their user (no, section 7) | one login, one rotation |
| `Throttle_safety` | is the limit kept; is anyone refused on an old count | a limit of two and four calls; minutes of two ticks and hours of three minutes over seven ticks, so a key is used in two hours |
| `MoviePages_safety` | does a default walk meet what stays once; when does a page fail; does the cursor fall and the walk end, in either order | five ids, pages of none, one and two, so a walk has up to five pages with a partial one; walks share nothing, so one suffices |
| `Chat_messages` | who is missing from the map, and why; when has a user two rooms; when is a message refused, or echoed; does the code implement `SupportDesk`; what stops the work, and does anything but a restart lead on from there | two sockets, the first of one user and the second of the same, another, the administrator or somebody without an account; two messages; one restart. In a pool of three connections two messages can hold one each and either still find a third, so they race; one of two is the smallest in which both can hold one and wait for a second; one of one is wedged, or left empty, by one message. Over the last two the database may fail any step of the first message, before, while or after the second runs; failures among racing messages are left to the proofs, which have no bounds. The driver's default of ten needs ten messages |
| `Records_requests` | whose account does a registration answer; when does the unique index break it; what role does a login get; when does an update answer another's doing; does a removal stand | three requests: two that race, one that made what they race for; two names and two passwords (and the empty one), so names collide and change; a role that changes beside them |
| `MovieViews_requests` | is a client taken back to an older list; how old can a list be; are views counted | three requests, so that one finds in either entry what two others have left there; two clients; two changes of the movies and one restart |

`Restart`s, versions, ids and times are bounded by `MaxRestarts`, `MaxVersion`,
`MaxId` and `MaxTime`, failed calls by `MaxFailures` (`MovieLike`) and `Frail`
(`Chat`, the messages that may fail), and the cache by `CacheMax`; requests, sockets and
messages by the sets given. Where they are interchangeable until they act, they
are permuted (`SYMMETRY`) or come in the order of their numbers (`Chat`,
`Records`, `MovieViews`, whose sets of requests are numbers for that reason);
runs with liveness use no symmetry. Deadlock is not checked where everything is
used once and the system really comes to rest when all is answered;
`TokenAuth_block` and `TokenAuth_roles` check it, and `WorkGoesOn` says for the
chat what a deadlock check could not: that an unfinished message or socket has a
step to take.

## 5. Fairness

`FairSpec` adds weak fairness of each request's own steps: MongoDB answers
every operation and the event loop runs every continuation, so a request whose
next step stays possible takes it. Where operations may be rejected (`MovieLike`,
`MovieCatalog`) that is fairness of `Works(r)` only: nothing obliges a call to
fail. In `MovieLike` the platform also restarts a
dead process (`Procfile`); in `MoviePages` a client that has a cursor asks on.
Nobody is obliged to send a request, remove a movie, crash or let time pass, and
an update that waits for a title relies on the holder's own fairness to commit
or abort, not on a timeout.

The chat gets no fairness, because with it the property one would want, that
every message ends, is false: a pool can wedge. Its progress is stated in two
parts that need none. `WorkGoesOn`: as long as a message or a socket on its way
in is unfinished, one of them has a step to take that is no failure, unless every
connection is held by a message that asks for another one or was left held by one
that has ended. `WedgedForGood`: no step but a restart
leads out of that. A socket takes at most three steps and a message at most
seven (`WorkAdvances`), so under any fair schedule the work either ends or the pool wedges.

## 6. Proofs

For any sets of requests, movies, users, titles, directors, genres, tokens, sockets,
messages, records and walks, any size of cache, pool and page, any limit, any
lifetimes and any number of restarts:

| theorem | says |
|---|---|
| `MovieLikeProofs!TypeCorrect` | `Spec => []TypeOK` |
| `MovieLikeProofs!RecordsStayApart` | `Spec => []LikeInv` |
| `MovieLikeProofs!PressesImplementButtons` | `Spec => ImplementsLikeButtons` |
| `MovieLikeProofs!AlonePressIsAnswered` | `Spec => []AlonePressAnswered` |
| `MovieLikeProofs!AlonePressDoesToggle` | `Spec => AlonePressToggles` |
| `MovieLikeProofs!ExitHasRace` | `Spec => ExitNeedsRace` |
| `MovieLikeProofs!PressesNeverWait` | `Spec => []NoPressWaits` |
| `MovieLikeProofs!PressesDoAdvance` | `Spec => PressesAdvance` |
| `MovieCatalogProofs!TypeCorrect` | `Spec => []TypeOK` |
| `MovieCatalogProofs!CatalogHolds` | `Spec => []CatalogInv` |
| `MovieCatalogProofs!NoOtherOrphans` | `Spec => []OrphansAreRemovals` |
| `MovieCatalogProofs!ReferencesAreReal` | `Spec => []ReferencesWereReal` |
| `MovieCatalogProofs!CatalogImplementsShelf` | `Spec => ImplementsShelf` |
| `MovieCatalogProofs!AnswersDoHold` | `Spec => []AnswersAreTrue` |
| `MovieCatalogProofs!RemovalsAreForGood` | `Spec => RemovedForGood` |
| `MovieCatalogProofs!NobodyWaitsInACircle` | `Spec => []NoCircle` |
| `MovieCatalogProofs!WaitsAreDecided` | `Spec => WaitIsDecided` |
| `MovieCatalogProofs!RequestsDoAdvance` | `Spec => RequestsAdvance` |
| `TokenAuthProofs!TypeCorrect` | `Spec => []TypeOK` |
| `TokenAuthProofs!BlocksHold` | `Spec => []BlockedIdentifiesNobody` |
| `TokenAuthProofs!UsersAreBearers` | `Spec => []UserIsBearer` |
| `TokenAuthProofs!AdminsLoggedIn` | `Spec => []AdminNeedsAdminLogin` |
| `TokenAuthProofs!GoodTokensOpen` | `Spec => GoodTokenOpens` |
| `TokenAuthProofs!OnlyAccessTokensPass` | `Spec => []AccessBehindGuard` |
| `TokenAuthProofs!CacheStaysBounded` | `Spec => []CacheIsBounded` |
| `ThrottleProofs!TypeCorrect` | `Spec => []TypeOK` |
| `ThrottleProofs!SequentialCallsAreLimited` | `Spec => []LimitedWhenSequential` |
| `ThrottleProofs!RefusalsMeanTheLimit` | `Spec => []RefusedOverLimitOnly` |
| `MoviePagesProofs!TypeCorrect` | `Spec => []TypeOK` |
| `MoviePagesProofs!DefaultWalksAreComplete` | `Spec => []DefaultWalkIsComplete` |
| `MoviePagesProofs!FailuresMeanRemovals` | `Spec => []FailsOnRemovalOnly` |
| `MoviePagesProofs!CursorsDoFall` | `Spec => CursorsFall` |
| `MoviePagesProofs!DefaultPagesAreFull` | `Spec => PagesAreFull` |
| `MoviePagesProofs!WalksOnlyGoDown` | `Spec => WalksGoDown` |
| `MoviePagesProofs!AscendingLeavesMovies` | `Spec => []AscendingPagesLeaveMovies` |
| `ChatProofs!ChatTypeOK` | `Spec => []TypeOK` |
| `ChatProofs!EntryKnowsItsRoomsHolds` | `Spec => []EntryKnowsItsRooms` |
| `ChatProofs!StaleEntryWentEarlyHolds` | `Spec => []StaleEntryWentEarly` |
| `ChatProofs!MissingEntryMetAnotherHolds` | `Spec => []MissingEntryMetAnother` |
| `ChatProofs!SecondRoomNeedsRaceHolds` | `Spec => []SecondRoomNeedsRace` |
| `ChatProofs!RefusalHasReasonHolds` | `Spec => []RefusalHasReason` |
| `ChatProofs!EchoNeedsSecondSocketHolds` | `Spec => []EchoNeedsSecondSocket` |
| `ChatProofs!WedgedForGoodHolds` | `Spec => WedgedForGood` |
| `ChatProofs!PoolIsNeverOverdrawn` | `Spec => []PoolHolds` |
| `ChatProofs!WedgeTakesAPoolful` | `Spec => []WedgeTakesPoolful` |
| `ChatProofs!WorkIsShort` | `Spec => WorkAdvances` |
| `ChatProofs!NothingElseWaits` | `Spec => []OnlyWedgesStop` |
| `ChatProofs!ChatImplementsSupportDesk` | `Spec => ImplementsSupportDesk` |
| `RecordsProofs!RecordsTypeOK` | `Spec => []TypeOK` |
| `RecordsProofs!RegistrationAnswersOwnHolds` | `Spec => []RegistrationAnswersOwn` |
| `RecordsProofs!ConflictNeedsRaceHolds` | `Spec => []ConflictNeedsRace` |
| `RecordsProofs!LoginIsSnapshotHolds` | `Spec => []LoginIsSnapshot` |
| `RecordsProofs!UpdateAnswerShowsItHolds` | `Spec => []UpdateAnswerShowsIt` |
| `RecordsProofs!RemovedIsGoneHolds` | `Spec => []RemovedIsGone` |
| `MovieViewsProofs!ViewsTypeOK` | `Spec => []TypeOK` |
| `MovieViewsProofs!ListsGoForwardHolds` | `Spec => []ListsGoForward` |
| `MovieViewsProofs!NothingOutlivesTheCacheHolds` | `Spec => []NothingOutlivesTheCache` |
| `MovieViewsProofs!ViewsAreCountedHolds` | `Spec => []ViewsAreCounted` |

*MovieLike.* The wish is that a button has one record (`OneRecordPerButton`). A
step of `Save` or `FindByIdAndDelete` preserves it only if the record it
addresses belongs to the press's own button, which in turn needs that a record
is named by a create that has arrived and can arrive no more, and that a press
decides on its write once. These are the other three conjuncts of `LikeInv`;
together with `TypeOK` they are inductive. For the refinement each action is
mapped: a reading that decides to `Look`, an arriving write to `Light`, `Switch`
or `Miss`, an exit to a `Miss` of every press whose write is dropped, a rejected
write to nothing as long as it may still arrive and to a `Miss` if it will not,
all else to a stutter. The one subtle step is that a lit button's `CHOOSE`n record is its
only one, which is `OneRecordPerButton` again.

What a press that nobody overlaps may rely on (`AlonePressAnswered`,
`AlonePressToggles`) needs `AInv` besides, whose parts hold each other up.
`AloneOnButton`: a press still alone shares its button with no press or write that
is under way. `AloneIsShown`: so the button shows what it showed at the start until
the press's write arrives, and is toggled from then on. `AloneDecidesOnStart`: so
what it reads, and decides, fits the start. `GoneByRace` is about the others: the
record a write is on its way to is gone only if another press of the button has
deleted it, and neither was alone; `ExitNeedsRace` is that, at the moment the save
is refused, unless MongoDB has just failed the save itself. An alone press that is
answered 500 has therefore a failed call of its own (`failed`). `ProcessAgrees` says which writes belong to the process that is up,
and that a handler waits for a write only while it is on its way; so
`NoPressWaits` follows, and no press depends on another one's step.

*MovieCatalog.* `IInv` is `TypeOK`, `CatalogInv`, `ReferencesWereReal` and
`OrphansAreRemovals`. That a movie has its detail (`DetailOutlivesMovie`) is not
inductive alone: `remove` deletes a detail, so the place before that must already
say that the movie is gone for good, which needs that ids are not reused
(`made`). That titles differ needs the titles that transactions about to commit
hold (`TitlesApart`). That references are real needs what a request past its
checks has seen (`ChecksStand`), and for genres a lemma on cardinalities
(`AllGenresFound`): as many genres found as ids given means all were found.

The answers are proved from an invariant on top: an id that was made and has gone
stays gone (`GoneStays`), so what a request past its write knows stays true. Of an
error nothing follows: a removal answered 500 has removed both documents, the movie
alone, or nothing, and one of those is behind every detail without a movie that no
running removal is about to delete (`OrphansAreRemovals`). An update that waits
for a title waits for the one transaction that holds it, which is a create at its
commit: no circle of waiting can form, and the wait ends with the title taken by a
movie or free (`WaitIsDecided`).

*TokenAuth.* The properties speak about requests past the middleware; what they
rest on was in the cache long before. `IInv` adds four parts. `PlacesAgree`: a
request has a user only past the middleware, and there a genuine bearer always
is one. `CacheAgrees`: a cached payload is a genuine token's and leaves the cache
by its expiry or was stored late; a block was asked for, and while it stands its
entry lives until its token expires, which holds because `tokenBlock` keeps the
entry for all that is left of the token (`LaterType`). `BlocksStand`: so a request
that finds no entry for a standing block carries an expired token (`NoBlock`), and
a payload it still finds was stored late (`CacheHit`). `RolesFromLogins`: roles
are copied from token to token and start with a login. An insertion into the
cache is dealt with once, in `PutChanges`, for a cache of any size: it sets one
entry, may evict one, and a block it evicts no longer stands. `CacheIsBounded`
counts instead (`PutFits`): an insertion under a new key into a full cache evicts
first. `AccessBehindGuard` and `RolesAreLogins` are inductive together: a rotated
token copies its role from a payload behind the guard, and the guard lets only
payloads pass whose token came from a login or a rotation.

*Throttle.* Two invariants, since one property holds however calls overlap and the
other while they do not. `CountInv`: a counter that is there belongs to one minute
(`CounterOf`), which began no longer ago than a minute's length, a call's latency
and a ttl, and counts no more calls than that minute had. It needs what a call
about to write has seen (`SeenIsDone`), when it came (`CallsAreTimely`), and that
no two minutes alive together have the same key, which is what
`Latency + 2 * Minute <= Hour * Minute` buys (`OneAlive`). A refused call looked at
a counter of its own minute, which is `RefusedOverLimitOnly`. `SlotInv` is for
slots nothing has spoiled: one call at a time (`OneAtATime`) reads and writes the
counter, which is then exact and lasts to the end of its minute
(`CounterIsExact`), so a call that passes finds room (`RoomIsLeft`).
`LimitedWhenSequential` alone is not inductive: it says nothing of the call that
has passed and is not yet answered.

*MoviePages.* What `sort` and `limit` leave is defined by counting, so the proofs
begin with lemmas about it: the movies ahead of a movie are fewer than those ahead
of the next (`AheadGrows`), so no more than `n` are left (`FirstSize`, by an
injection into `0 .. n - 1`), what comes before one that is left is left, too
(`FirstIsUpward`), and a set has a last movie (`HasLast`, since strict subsets of
a finite set are well-founded). `DefaultWalks` is the inductive form of
`DefaultWalkIsComplete`: nothing under the cursor was met, and what stayed and is
not under it was (`CursorIsExact`); a page held while its likes are read goes on
from the cursor to the next one and leaves out nothing that stayed (`PageIsExact`).
A movie created meanwhile under the cursor or above it disturbs neither, since it
has not stayed. A removed movie does not come back (`MoviesAreKnown`), which keeps
up the reason of a failed page. `CursorsFall` holds in both orders, since a cursor
is a movie of its page and the page lies under the cursor before
(`PagesAreUnder`); it is the measure behind `WalkEnds`. That a page is full
(`PagesAreFull`) needs `FirstSize` as an equality when there are more movies than
asked for (`FirstIsFull`), and from `CursorIsExact` that none of them was met
before. Of an ascending walk it is proved what goes wrong: since a cursor was met
(`CursorsAreMet`) and what is read lies under it, nothing above is ever met
(`WalksGoDown`), while a page that hands a cursor on leaves a movie above it.

*Chat.* The properties name, as history, who has met whom: sockets of a user that
were there together, messages that were handled together. `IInv` keeps up what
that rests on. `SocketsMet` and `MessagesMet`: those who are there, or running,
together have met; so `handleDisconnect` can take away the entry of another
socket only from one that has met it, and a message about to make a room has met
the maker of any room its author has got since it looked. `SocketsAgree` and
`MessagesAgree`: an entry, a room and a handler agree on whose they are, which
the refinement needs for the people a message is shown to. `EntryKnows` carries
`EntryKnowsItsRooms` over the await inside `joinUserRooms`, for entries whose
socket has not gone: a room is among those read, or was announced to the entry, or
is about to be, or was made though its making was rejected (`unheard`). `Hopeful`
says what a message sent in time still expects at each place, up to `rollback`,
unless the database has rejected something of it. `LeaksAgree` says whose
connections stay held: those of messages that were refused, or whose socket has
gone. The proofs
go by the frames of the three kinds of step (`SocketFrame`, `MessageFrame`), so
most parts need only the few actions that can disturb them. `WedgedForGood`
follows from the set of holders alone, whatever the size of the pool. `PoolHolds`
counts them; in a wedge no connection is free, so there are as many holders as
connections, and `MessagesMet` makes any two of them that have not left theirs
held handled together. What
`WorkGoesOn` says with `ENABLED`, `OnlyWedgesStop` says of the guards: a place
whose step needs no connection, or finds one free, can be left.

*Records.* What a request knows of a record that others may change is kept per
place (`TakersMet`, `UpdatesShow`, `LoginsKnow`, `OwnIsFresh`), each of the form:
it is as it was read, or whoever changed it ran together with the request.
`RunnersMet` says who ran together, `NamesApart` is the unique index, and
`IdsAgree` that records are made by the creates they are named for.

*MovieViews.* Without a race a list passes from the one request that holds it to
the service's entry, the route's entry and the answers, so none is older than one
further on (`ListsInOrder`); `raced` begins anew when nothing is kept or held.
`SessionsAgree` compares the count in a session that a request has loaded with the
views made: they are equal for a client who has only that request.

The assumptions are the named `ASSUME`s of the modules: `Null` and `None` are no
documents, registered users are users, the administrator has an account, bodies
are DTOs. TLC evaluates them in every run.

*What liveness rests on.* `PressesAdvance`, `RequestsAdvance` and `WorkAdvances`
bound the steps: each step of a press, request, message or socket takes its own
measure up, nobody takes it down, and it has at most 8, 11 and 7 (3 for a socket)
to climb. `NoPressWaits`, `OnlyWedgesStop`, and for updates `NoCircle`, say that
such a step may be made, or whose step must come before. The first two speak of
guards: no step is made without them (`StepMayGoOn`, `StepsMay`), and that they
suffice is read off the actions, whose other conjuncts only say what changes. To
put that as `ENABLED`, and to combine it with fairness, is left to TLC.

Only model-checked: the liveness properties `PressSettles`, `RequestsEnd` and
`WalkEnds`, which rest on fairness and are out of the prover's reach, and
`WorkGoesOn`, which speaks of `ENABLED`. Every other property of a passing run is
a theorem; of a conjunction such as `LikeInv` or `CatalogInv`, all of it. Theorems
about properties that no run names (those on answers, waiting, pages, pools and
progress) stand on their proofs alone. The
other way round, the type invariants of `MovieLike`, `MovieCatalog`, `TokenAuth`,
`Throttle`, `Records` and `MovieViews` are theorems, which makes a run of them
unnecessary.

## 7. Where code and documents disagree

Each of these is a run that TLC is expected to refute.

- `MovieLike_answer`: the save of a changed like is started and not awaited
  (`movie.service.ts:876`), and the answer is read at once, so a press alone on
  its button may be answered with the old value; the comment above the routes
  (`movie.controller.ts:140-143`) says what the answer should be.
- `MovieCatalog_atomic`: `update` passes its session to no operation, so an update
  that fails at its second write has written the first; a test is titled "should
  rollback transaction and rethrow error on failure"
  (`movie.service.spec.ts:507`).
- `TokenAuth_rotate`: `rotateAccessToken` hands a payload, which has `sub`, to
  `issueToken`, which signs `user._id`: the new token names nobody.

Visible in the models and left without a run of their own: the cursor keeps
smaller ids whatever the order (`movie.service.ts:159`), so a walk in `id_ASC`,
which the DTO documents, is handed a cursor because of movies above its first page
and then meets none of them (`AscendingPagesLeaveMovies`, `WalksGoDown`; hence
`DefaultWalkIsComplete` speaks of the default order only); `token/access` is behind
the guard that asks for an access token, so the refresh token that `login` issues
opens no guarded route, that one included (`AccessBehindGuard`); `update` swallows its
errors, so PATCH of a movie that is not there is answered 200 with nothing
(`Failed`), where `movie.e2e.spec.ts:232` expects 404; `create` turns the
`NotFoundException` of a missing director into a 500 (`FindDirector`); a page of
size zero with movies to come fails, and a like that outlives its movie fails the
page that still holds it (`FailsOnRemovalOnly`); as many messages as the pool has
connections can wait for one another for ever, and with them every other user of
the pool (`Wedged`, which `WedgedForGood`, `WorkGoesOn` and, for how many it takes,
`WedgeTakesPoolful` make exact); a socket that goes while its message is handled
leaves the connection of the message held for good and the message, when it is
emitted all the same, shown and never stored (`Throw`, `Done`,
`ImplementsSupportDesk`), and a transaction that fails to begin or to roll back may
leave its connection held, too (`BeginFails`, `RollbackFails`): each makes the pool
one connection smaller until the process starts again; a socket
that goes away while its token is verified stays in the map until its user comes
again (`StaleEntryWentEarly`); the first messages of a user may make him two rooms
(`SecondRoomNeedsRace`); a list of recent movies, once kept, stays until it is
evicted (`NothingOutlivesTheCache`).

## 8. Assumptions and what is not modelled

- Indexes declared in the schemas exist, and a MongoDB operation on one document
  is atomic. In `MovieCatalog` an operation that is under way when the process
  exits, or whose call is rejected, is either done or not; in `MovieLike` it may also
  arrive later. Any read and any write may be rejected; in `MovieLike` at most
  `MaxFailures` are. The abort of a failed transaction reaches the server, or the
  server aborts it: no transaction is left open.
- The cache evicts its least recently used entry; the models evict any entry,
  which allows more. Each cache call is an await where others run, though the
  in-memory store answers in the same turn of the event loop; `Throttle` takes
  the minute and reads the counter in one step.
- The clock of `TokenAuth` counts milliseconds and does not go back. `Throttle`
  assumes that a call takes at most `Latency`, with
  `Latency + 2 * Minute <= Hour * Minute`: calls that take most of an hour could
  write an old count under a new key.
- A payload is compared by type, subject, role and expiry only. Parsing of the
  `Basic` header and the password comparison are not modelled; `login/passport`
  issues tokens as `login` does. Titles, texts and names are model values.
- `findAll` is modelled for the orders that begin with `id`, which alone decide
  the page since `_id`s differ; orders that begin with another column are not,
  nor is the title filter, whose `$option` beside the title is no operator of
  MongoDB's. Page sizes are natural numbers, as clients send them.
- In `Chat` the id of a user is both the `sub` of his token and the key of his
  row, as the code takes it to be, though accounts are documents of MongoDB and
  the chat reads a table: a user without a row is one of `Users` that is not in
  `Accounts`. Rows do not change. The query runner is kept on the socket, but set
  and read in one turn of the event loop, so each message has its own. A
  connection that is free is given to whoever asks, in any order; the driver
  serves in order, so the model allows more. What the database does not answer in
  time is not modelled: the driver waits without limit, and PostgreSQL closes no
  transaction for being idle. A connection that breaks in `startTransaction` is let
  go of by TypeORM or stays held: the model allows both. A commit that fails ends
  the process (`Restart`). The database may reject
  any step of the messages in `Frail`, which the proofs leave open.
- In `Records` the routes of users hand `ParseIntPipe`d ids to `findOne`, `update`
  and `remove`, which no document has and MongoDB refuses. Their signatures say
  `number` as well; the model calls the service with ids of documents all the same,
  which is what its queries are written for and what those of genres and directors
  get. A password is compared as itself; the empty
  one, which an update stores without hashing it, is `Empty`.
- In `MovieViews` the session is saved at the end of each request, changed or not
  (the default `resave`), in a store in the process. A view counts when the
  handler ends, with or without a movie.
- Not modelled, because no live code reaches it: the two SQL pagination helpers,
  `TasksService` and its sweep of the temporary folder, the thumbnail worker,
  `TransactionInterceptor`, `CacheInterceptor`, `saveMovieToPermanentStorage`.
  Not modelled, because it keeps no state a property could be about: the upload
  of one file, the presigned URL, pipes, filters, the response-time interceptor,
  entities, migrations, Prisma, start-up.

## 9. How to run

    tlc -workers 2 -config MovieLike_presses.cfg MovieLike
    tlapm MovieLikeProofs.tla

`PROJECT.json` names the module, the configuration and the expected outcome of
every run.
