# Verification of the blog backend

TLA+ specifications of the Rust workspace in `src/`: a REST gateway
(`crates/client`, axum), a gRPC server (`crates/server`, tonic) and the shared
services behind it (`crates/shared`), which keep their state in Postgres and a
Redis cache. The specifications are model-checked with TLC; their safety
properties are proved with TLAPS.

    browser --HTTP--> gateway --gRPC--> server --SQL--> Postgres
                     (client)          (shared services) --SET/GET/DEL--> Redis

## 1. Inventory

| Component | State | Operations |
|---|---|---|
| category service (`shared/service/category.rs`, `shared/repository/category.rs`, `server/service/category.rs`) | table `categories`; keys `category:id=..` and `categories:page=..` | get, list, create, update, delete |
| category gateway (`client/handler/category.rs`, `client/service/category.rs`) | one gRPC client behind one async mutex | the five routes |
| auth and user service (`shared/service/auth.rs`, `user.rs`, `shared/repository/user.rs`) | table `users`; keys `auth:register:..`, `auth:login:..`, `user:id=..`, and the bare e-mail | register, login, create, list, find, update, delete |
| account gateway and session (`client/handler/auth.rs`, `user.rs`, `client/service/auth.rs`, `user.rs`, `config/jwt.rs`, `client/middleware`) | two gRPC clients, each behind a mutex; none for the session: a signed token with an expiry | the routes of accounts; issue and verify |
| comment service (`shared/service/comment.rs`, `shared/repository/comment.rs`) | table `comments` (foreign key to posts, cascading); keys `comments`, `comment:id=..` | get all, get, create, update, delete |
| comment gateway (`client/handler/comments.rs`, `client/service/comment.rs`) | one gRPC client behind one async mutex | the five routes |
| post service (`shared/service/posts.rs`, `shared/repository/posts.rs`) | table `posts` (foreign keys to categories and users, cascading); keys `post:id=..`, `post_relation:id=..`, `posts:..` | list, get, relation, create, update, delete |
| post gateway and images (`client/handler/posts.rs`, `client/service/posts.rs`, `shared/service/file.rs`) | one gRPC client behind one async mutex; the directory `posts/<date>/` | the routes of posts; upload, delete |
| start-up (`server/main.rs`, `client/main.rs`, DI, configuration, pool, migrations, `docker-compose.yml`) | the stage of each main, the gRPC task, the gateway's channel, the migrations recorded in the volume | start, run, fail, restart |
| metrics, telemetry, logging | counters and spans | record |

How they interact. A handler of the gateway takes the mutex of its service's
gRPC client and, except for auth, keeps it until the answer has been turned into
a response. The server runs every call as a task of its own; tasks interleave
at every `await` (a statement, a lock). Redis is called synchronously and its
failures are only logged. Nothing runs in a database transaction: an operation
of two statements is two commits.

What is hard here: readers that fill the cache racing writers that replace or
evict an entry; the gap between the commit and the cache; SET and EXPIRE being
two commands; a caller that goes away and leaves its call running; two calls
that both pass a check; statements whose result is lost; lists that no write
invalidates; files and rows that share no transaction. `PROJECT.json` lists each hazard with
its line.

What makes each part correct:

- category service: what is answered was stored in that row; a deleted row stays
  deleted; one of several deletes succeeds; an acknowledged write reaches the
  cache; a stale entry does not last; a list answers its own query.
- category gateway: one call at a time, so the cache is current; every request
  gets its turn.
- accounts: one account per e-mail; a login is checked against the password;
  an id names one account for good.
- comments, posts: an answer is a row the table had; a deleted row, whether by
  its own delete or by a cascade, is not answered for ever. Behind the comment
  gateway a read finds what was acknowledged, and an update answers itself.
- images: a stored post has its image, whole. (A refused row may leave an image
  no row names; nothing in the code collects it.)
- session: a token opens the account it was issued for, and for an hour.
- start-up: nobody is served without the tables; in whatever order the
  containers come up and fail, restarts bring the system up.

## 2. The modules

    Paging <- CategoryService <- CategoryGateway -> CategoryTable (refinement)
           <- AccountService  <- AccountGateway
           <- PostService     <- PostGateway
              CommentService  <- CommentGateway
              Deployment

An arrow `A <- B` says that B extends A: a gateway's module is the composition
of the gateway with the service below it, whose actions it uses as they are. Each
module `M` has an `MCM` with its small instances. The proofs about a module `M` are in
`MProofs`; those about AccountService and AccountGateway are together in
`AccountProofs`. The proofs about a gateway extend those about its service.

### Paging

The i32 arithmetic of the three paged lists: `Offset` is `(page - 1) * size` as
the release build computes it (`Wrapped`); a negative one, cast to u64, is beyond
what the query builder can put into a statement and the call panics (`Panics`).
`MaxInt` is the largest i32: 7 in the instances, where offsets below and above 0
come from wrapping.

### CategoryService

Models `shared/src/service/category.rs` and `shared/src/repository/category.rs`
with the server's thin handlers. A call `c` has a program counter `pc[c]` that
names the await it stands at; one action is what happens from one await to the
next, or one statement Postgres runs.

| State | Code |
|---|---|
| `log[i]` | row i of `categories`; the model keeps all its values, `Row(i)` is what SQL sees |
| `cache[i]`, `lists[k]` | the Redis entries of one row and of one list request |
| `job`, `pc`, `live` | a request, the await its future stands at, whether the future still exists |
| `row`, `page` | locals: the row or list an operation holds |
| `wrote`, `lost` | history: which version a call wrote, whether Redis refused it |
| `outcome` | the gRPC status |

`ver` and `at` in a cached entry, `itemsAt` and `totalAt` in a page, `wrote` and
`lost` are history the guards never read; properties need them to say which
version a value belongs to.

| Action | Code |
|---|---|
| `GetLookup`, `GetSelect`, `GetFill` | `get_category`: cache, SELECT, SET |
| `ListLookup`, `ListPage`, `ListCount`, `ListFill` | `get_categories` and the two statements of `find_all` |
| `CreateInsert` | `create_category`: the INSERT that reports an error |
| `UpdateWrite`, `UpdateReread`, `UpdateStore` | `update_category`: UPDATE, SELECT, SET |
| `DeleteWrite`, `DeleteEvict` | `delete_category`: DELETE, DEL |
| `Reply` | the metrics lock, and the answer |
| `DbError`, `Drop`, `ExpireRow`, `ExpireList` | a failing statement, a dropped future (caller gone or server crashed), time to live |

`Fault` selects the faults of a run: `"db"` (a statement fails, or runs and its
result is lost), `"redis"` (no connection), `"expire"` (SET lands, EXPIRE does
not), `"drop"`.

### CategoryGateway

Extends CategoryService with the gateway: `gate[c]` is where the HTTP handler of
request c stands, `queue` is tokio's fair mutex (its head holds the client).
`Ask`, `Acquire`, `Answered`, `Release` are the handler's way through it;
`HangUp` drops the handler when the browser goes away, which frees the mutex,
and `ServerDrop` is the server noticing later, or crashing. The server's
actions are CategoryService's own, enabled once the call has been sent.

### CategoryTable

What the category routes promise for single categories, without cache, mutex or
statements: a table that calls change (`Change`) and are told about (`Tell`) in
one step each. While it is `calm`, a read is told the row as it stands, a call
that is told "ok" had its effect, once, and one that is told it failed had none.
`Disturb` ends the calm. CategoryGateway implements it: `Table` in that module is
the refinement mapping (the table is the last value of each row's history, a
call is told when its request is served, and the calm ends with the first hangup,
or the first write whose result, whose future or whose cache update was lost), and
`ImplementsTable` is `Table!Spec`.

### AccountService

The auth service and the user service share the table `users` and one Redis, so
they are one module. `log[i]` is the history of account i, `nextId` the SERIAL
sequence (an insert that fails on the unique e-mail uses an id up), `redis` the
keys: a key is a pair of its family and its id or e-mail, so whether two keys
can meet is decided by how the code builds them. `SignupCheck` and
`SignupInsert` are the two statements of register and create; `LoginLookup`,
`LoginSelect`, `LoginCheck`; `FindLookup`, `FindSelect`, `FindFill`;
`UpdateWrite`, `UpdateStore`; `DeleteWrite`, `DeleteEvict`.
Passwords are model values; `Secret` tells a hash from a plain text, because
`UserService::create_user` stores the password as it came and such an account
can never log in. The lookup register makes in the cache always misses: its key
is only ever written after an INSERT that returned a row, and none does.
`ListLookup`, `ListPage`, `ListCount` and `ListFill` are the paged list.

### AccountGateway

Extends AccountService with sessions and the routes. `Arrive` is the middleware:
a cookie that is there is the token, else the Bearer header (`Presented`);
`Valid` is the library's check, which grants a leeway, and the code's own after
it, which does not; a request by `/api/users/me` becomes a request for the user
the token names (`AskFor`). `ReadBody` reads the body where there is one, `Acquire`
takes the client. There are two clients: register and login share one whose guard
ends with the call, the user routes another whose guard lives to the end of the
match (`Holders`). `Issue` makes the token in the step that checks the password.
`now` is the clock (`Tick`), in units of a token's life. Signatures are sound:
a token that is good comes from a login that was answered.

### CommentService

The comment service over the tables `comments` and, as far as the foreign key
goes, `posts`. State and steps are those of CategoryService with four
differences that are the point of the module: `get_comment` and `update_comment`
wait for the metrics lock *before* their SET (`GetFill`, `UpdateStore` end the
call; the others end in `Reply`); a missing row is a `Stub`, answered and cached
(`Response`); an entry is `whole` (a response) or a bare comment, and
`get_from_cache` finds only the former (`Readable`); and a post that goes takes
its comments with it without a word to the cache (`PostGone`). `before[c]` is
history: the calls already answered when c began. The tables may hold posts and
comments at the start, put there by whoever prepared the database: the
program's own `create_post` writes a column the migrations do not create and
always fails.

### CommentGateway

Extends CommentService with its five routes, as CategoryGateway does for
categories: `Refuse` (no good token, or a bad body), `Ask`, `Acquire`, `Answered`,
`Release`, `HangUp`, `ServerStep`, `ServerDrop`; `Elsewhere` is a post that goes
and what Redis drops. What it adds to the service is that calls do not overlap, so
the exception `AckedWritesAreRead` makes for an overtaken read is gone from
`NoOlderThanAcked`.

### PostService

The post service over `posts` and, as far as the foreign keys go, `categories`
and `users` (`refs`). State and steps are those of CategoryService. What is its
own: `imgColumn` says whether the table has the column `img`, which the
repository's statements name and its migrations do not create (with
`RUN_MIGRATIONS=false` the tables come from elsewhere); without it every
statement but DELETE and the relation's fails. INSERT and UPDATE report an error
also when they stored their row (`CreateInsert`, `UpdateWrite`), so the SET of
`update_post` is never reached and no action stands for it. `RelationSelect`
ends in an error whatever it finds: the columns of its query have not the names
`PostRelationModel` reads. `Pages` takes any rows, the query having no ORDER BY.
`RefGone` is a category or user deleted by its own service, with the cascade.

### PostGateway

Extends PostService with the routes of posts and the image files. A request `r`
makes up to two calls, `<<r, "find">>` and `<<r, "main">>`; `leg[r]` is the one
it is at. `Ask` and `Acquire` are the mutex; `Found` is the end of the lookup of
an update (any error is 404), with the removal of the old image; `BadForm` a
form without a file, or one on which the handler panics; `Upload`, `Write` and
`Land` are `upload_image`: the file is created, its bytes are handed over, and
some time later a thread of tokio's has stored them, whole or (`Big`) in part.
`Answered` is the last answer with the release of the client; it and the wait
for the metrics are one step, for nothing but the mutex is held in between. A
uuid names one file for good, so an image is named by the request that brings
it. `delete_image` looks for `posts/<name>` (`DeletePath`), `upload_image` stores
`posts/<date>/<name>` (`UploadPath`, one date).

### Deployment

The two mains, the containers they need and Docker's restarts. `server` and
`gateway` are where each main is; `grpc` is the task the server's main spawns
before it binds the metrics listener; `channel` is the gateway's transport, which
dials again when a call finds it broken; `applied` is how many migrations the
volume has recorded. `ConnectPool`, `Migrate` (one migration a step),
`PingRedis`, `SpawnGrpc`, `GrpcServe`, `BindMetrics`; `Dial`, `BindPort`; `Call`,
`Serve`, `Reply` are one request through both. `ServerExits` is what goes with
the process. `try_join!` on two JoinHandles ends early only for a panic, so a gRPC
task that returned an error leaves the process with its metrics alone
(`HalfDead`): it has not exited and nothing restarts it.

Operators marked `broken:` stand beside some definitions. No specification uses
them: each is a mistake the code could have had, kept so that one can check that
the properties notice it.

## 3. The runs

| Run | Bounds | What it shows |
|---|---|---|
| `category_calls` | 3 calls, all faults; either on 1 row with 2 names, or about lists of 2 rows, 2 searches, pages that are put right, wrap and panic (then without dropped futures) | the safety of single rows; lists answer their query, totals fit |
| `category_create` | 2 calls, no faults | *violated*: a create that stored its row answers an error |
| `gateway_calls` | 2 requests, 1 row, failing statements and Redis, hangups, crashes; fairness | the cache is current, the whole implements CategoryTable, every request is served, a stale category or page does not last |
| `gateway_missing` | 2 requests | *violated*: a missing category is documented as 404 and answered with 500 |
| `account_safe` | 3 calls, 2 ids, 2 e-mails, 2 passwords, all faults | unique e-mails, checked logins, ids given once, users shown were stored |
| `account_session` | 3 requests, of which one is a login and one asks for "me"; 2 accounts, clock of 2 lives, leeway of 1; dropped futures, hangups, crashes; fairness | only who logged in reaches the server, "me" is whoever logged in, every request is served, a stale user does not last |
| `comment_row` | 3 calls, 1 comment, 1 post, 2 texts, all faults | the safety of single comments; no comment without its post |
| `comment_calls` | 2 requests, 1 comment, 1 post, 3 texts, failing statements and Redis, hangups, crashes, cascades; fairness | nothing older than an acknowledged write is found, an update answers itself, every request is served, a stale comment or list does not last |
| `post_row` | 2 calls, 2 ids, 1 category, 1 user, 2 images, failing statements and Redis, dropped futures; fairness | foreign keys under races, acknowledged deletions, a stale post or page does not last |
| `post_images` | 2 requests that read, replace and delete 1 post, one of which may also make it; failing statements and Redis, bad forms, failing disk, hangups, crashes, cascades; fairness | posts have their images; no request waits for ever |
| `post_upload` | as `post_images`, one large file, no faults | *violated*: an image is stored in part |
| `deployment` | the 4 migrations, `RUN_MIGRATIONS=true`, 4 faults (crashes, outages, failed binds); fairness | no service without the schema; the system comes up and failures end, or the server is half dead |

Why the bounds are enough. Each race in this code is between two calls, with a
third to observe or to interfere; three calls on one row make every pair of
operations overlap at every pair of awaits. Where two calls or requests are
used, the properties look at the stores themselves and need no observer, and
cascades and expiry interfere without a call; behind a mutex two requests are
the one that has the client and the one that waits. Rows are independent of each other
except in lists and unique e-mails, which get two. Two names tell an old value
from a new one. No counter needs a cap: every call is handled once, so rows have
at most one version per call. The clock of `account_session` stops after two lives
of a token, when every token has passed its end, its leeway and the second
between. Four faults let the deployment fail once more after each of the three
things a restart has to bring back, and `Init` starts from every number of
migrations done.

`ComesUp` and `FailuresEnd` have `HalfDead` as a second disjunct. That is not an
assumption but what the code does: without it, both are violated by a gRPC server that
fails to bind. No document of the repository promises otherwise, so it is
stated here and is no finding.

Deadlock is not checked: every call ends, and then the system really has
nothing left to do.

Symmetry is used only for calls (which the model never tells apart), and only in
runs of safety properties; `comment_calls` numbers its requests in the order
they come instead.

Fairness. Each call's next step is weakly fair (tokio polls every ready task,
Postgres answers every statement), and so is the expiry of entries that have a
time to live (Redis drops what has expired). Faults, hangups and new requests get
none. The gateways' `FairGateSpec` adds the handler's own steps; the queue of the
mutex is first come, first served, as tokio documents. In Deployment, Docker's
restarts are fair because every service of `docker-compose.yml` has `restart:
unless-stopped`, and the steps of a main that runs are.

## 4. What is proved

Every invariant and every action property that a passing run checks is also a
theorem, for every value of the constants: any set of calls, requests, jobs, ids,
names, e-mails, passwords, posts, texts, images and faults, any number of
migrations, with or without `RUN_MIGRATIONS` and the column `img`. So is the
refinement of CategoryTable. The assumptions are the named ones of the modules
and no others:

- `CategoryAssumption`, `AccountAssumption`, `CommentAssumption`,
  `PostAssumption`, `PagingAssumption` and `DeploymentAssumption` say what sort of
  thing each constant is.
- `SerialAssumption` (CategoryService): the ids of categories are positive i32s,
  as SERIAL makes them. `TotalsFitPages` alone needs it: without it a table could
  hold more rows than an i32 counts, and the total announce pages whose offset
  wraps.
- `GateAssumption` of each gateway. That of AccountGateway says that whoever may ask
  for one account's page may ask for any. Then the redirect of "me" is to a call
  that the service knows.

Each theorem follows from an inductive invariant, which TLC checked on the runs'
instances before it was proved.

### Categories

`TypeCorrect` is inductive by itself. `AnswersWereStored` needs the
invariant that a label's version exists and the history at it is the value
(`StoredInv`); since histories only grow (one lemma), a fact about an old version
stays true. `DeletedStaysDeleted` is inductive: a write goes through `Affects`,
which is false once the last value is `Absent`. `OneDelete` strengthens to
`WriteInv`: whoever deleted the row wrote the last version, and no call can write
a later one. `FreshUpdates` (`FreshInv`) follows the version an update holds
from its UPDATE to its answer. `AckedWrites` (`AckInv`) is about `at`, the
version the table had when an entry was stored: the step that acknowledges
either stores at the current version or removes, and a later fill stores at a
version no smaller.

`ListsAnswerQueries` and `TotalsFitPages` count rows. A row's place in the answer is
its rank, the number of smaller ids found; ranks are a bijection from the rows
found to 0..n-1 (`RankBijection`), so the ranks between an offset and a limit are an
interval of known size (`WindowSize`). This holds for the wrapped offset too, which
is why no page is ever longer than asked for; `OffsetInRange` and
`AnnouncedInRange` say when nothing wraps. `ListInv` then carries three facts
through the two statements and the cache: the page answers its query, the count
fits it, and between the statements the page is the table's unless some call has
written since (`Between`). For that `Committed` must tell every change of the
table, which it does (`CommittedSteps`).

### The category gateway

`GateServes`: the gateway composed with the service is still the service, so all
of the above holds behind the mutex. `CacheCurrent` and `GatewayIsTable` rest on
`GateInv`: one request has the client, and the server has begun nothing that it was
not sent (`MutexInv`); a call that has ended has an answer its operation can have
(`AnswerInv`); and in the calm the cache follows the table, but for the entry that
the holder of the client is about to replace, and what the holder is about to answer
is the row as it stands (`CalmInv`).
For the refinement, `TableInit` maps the initial states; `TableNext` maps every
step: a COMMIT is `Change`, a `Release` is `Tell`, the first hangup, drop or lost
update is `Disturb`, and everything else stutters.

### Accounts and sessions

`OneEmail` rests on the unique constraint (`MayTake`) at both writes.
`OneAccountPerId` needs that `nextId` is above every id used, which makes the
history of an id one account followed, at most, by its end. `LoginsAreChecked`
needs `NoTokenFound`: nothing is ever stored under the family of keys a login
looks under; with it every successful login went through `LoginCheck`.
`ShownAsStored` (`ShownInv`) needs that no other family of keys meets
`user:id=..` (`UserKeysApart`), that what a find holds is the account it was asked
for (`FoundUsers`), and that a call with an outcome changes nothing more
(`SettledOnce`).

`AccountsBehindGateway` is the composition: the gateway is not quite the service,
because it sends "me" on to the account of the token (`Redirect`); what the service
guarantees holds all the same. `ServerForLoggedIn` and `MeIsTheLogin` rest on
`SessionInv`: a token names the account that a login, checked, still holds
(`TokensAreChecked`); a call the middleware let in was let in by such a token while it
was good, and asks for that account if it asks for "me" (`Admission`); and the server
has begun nothing that has not come in (`Unsent`).

### Comments

`OnlyStoredAnswers` goes as for categories, with stubs for version 0
and for versions that are `Absent`. `NoOrphans` is inductive: the foreign key
refuses a create without a post, an update keeps the post, a cascade leaves
none of its comments. `AckedWrites` (`AckInv`) needs four facts besides: a call
that ended keeps what it knew (`Progress`, `CallStep`), a write is in the
history (`WroteBound`), nothing was read from a version later than the table's
(`NotAhead`), and whatever can be read after an acknowledged write was cached
after it (`CacheAfter`); hence so was what a later get answers (`GetsAfter`).
`NoRevival` says that an update caches nothing `get_from_cache` can read.

Behind the gateway (`GateServes` again) `GatewayNewEnough` drops the exception that
`AckedWrites` makes for an overtaken read: until a hangup only the holder of the
client moves (`MoverHolds`), so while a get is about to fill the cache no write
can be acknowledged (`FillIsNew`). `GatewayUpdatesOwn` says by the same argument
that nothing comes between the UPDATE and the SELECT of one update.

### Posts and images

`TypeCorrect` needs that what a get is about to cache is a post (`HoldsPost`).
`NoOrphans` goes as for comments, with two foreign keys. `DeletionReachesCache`
(`DeleteInv`) is shorter than the `AckedWrites` of categories, since an update
never touches the cache: a deletion wrote a version its row has (`WroteBound`), so
a SET after it is labelled no lower, and a call that has answered "ok" stands at
its end (`Unsettled`), so neither its version nor what it knows of Redis changes
any more.

`PostsKeepImages` (`ImageInv`): a call that sends an image sends the one named after
its request (`NamesOwn`), the request has created that file before the call is sent
(`Uploaded`), a row gets its image only from such a call (`RowSource`), and no step
takes a file in the directory of uploads away (`FilesStay`). The last holds only
because `delete_image` looks in another directory: with one directory the
invariant is false, and TLC shows it on `post_images`.

### Deployment

`SchemaBeforeService` speaks of a gateway that may have dialled long
ago and of a server that may have restarted since. `SchemaInv` adds that main is
past its migrations from the ping on (`PastMigrations`), that the gRPC task lives
only in a main that has spawned it (`GrpcInMain`) and that a gateway that has
dialled found the tables (`GatewayDialled`); what the volume has recorded is never
taken back, so all three survive every crash.

### Only model-checked

`StaleHeals`, `StaleUserHeals`, `EveryRequestIsServed`, `ComesUp` and `FailuresEnd`:
liveness under fairness is out of the prover's reach.

## 5. Findings

1. A create stores its row and answers an error (`category_create`): INSERT
   without RETURNING, run by `fetch_one`. Registrations and comments share it:
   `SignupInsert` and `CreateInsert` end in an error, stored or not.
2. A missing category is answered with 500 where 404 is documented
   (`gateway_missing`): the handler compares tonic's description of the code.
3. An image of more than 2 MiB is stored in part and reported as uploaded
   (`post_upload`): one `write`, whose count is dropped, for up to 250 MiB.

Read in the source while modelling, and part of the models, without a run of
their own:

- the migrations make no column `img`, so that on their tables no post can be
  stored or read;
- an update of a post never removes the old image (`DeletePath`), which is also
  all that keeps a failed update from losing it;
- a comment that does not exist is answered as a stub with id 0 and 200, where
  `client/handler/comments.rs` documents 404;
- the relation of a post always ends in an error;
- a field left out of an update of a user travels as an empty string and is
  stored as one;
- a login while the server is down is answered with 401;
- a server whose gRPC task failed lives on (`HalfDead`), and compose waits for no
  store: only restarts do.

## 6. Plan

What could still be proved, in this order:

1. The type invariants of the four gateways as theorems of their own: so far each
   proof carries the part of it that it needs (`GateOK`).
2. For Comments, as for categories, an abstract table and the step simulation of
   it. What stands in the way is `get_comments`, whose list no write evicts.

Out of reach: that a mutex's queue holds each waiting request once. `HangUp` takes a
request out of it with `SelectSeq`, which is recursive, and what it computes
would be an induction.

## 7. Not modelled

Telemetry, logging, generated code, metrics beyond the await they add: no
answer depends on them. An orderly shutdown: what stands behind the servers in
both mains is reached only when a server ends, and neither is told to. A variable
missing from `.env`: the process would exit at every start. The pool's size: no
call holds one connection while it waits for another, so it delays and, at its
timeout, fails a statement (`DbError`). Validation of request bodies: it refuses a request before any
state is touched. Text formats: a key is the tuple of what it is formatted
from.
