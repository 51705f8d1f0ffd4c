# Verification of reaTimeChat-gRPC

TLA+ models of the chat server in `cmd/` and `internal/`, checked with TLC and
proved with TLAPS. The reference for every definition is the Go source;
`PROJECT.json` maps each definition to its lines.

## 1. The system

One Go process serves five RPCs over gRPC and keeps its data in MongoDB.

| Component | Source | State | Operations |
|---|---|---|---|
| ConnectionHub | `cmd/api/hub.go` | `streams`: e-mail -> (connection id -> stream), `nextID`, an RWMutex | `Register`, `Unregister`, `SendToUser` |
| ChatStream handler | `cmd/api/handlers.go:131-197` | a goroutine per stream: its claims, its `connID`, the request at hand | receive, verify recipient, save, acknowledge, push, return |
| Register, Login | `handlers.go:17-70` | none of their own | create or look up a user, issue a token |
| ListChats, GetHistory | `handlers.go:72-129` | none | query, then stream the results |
| UsersStore | `internal/data/users.go` | collection `users`, unique index on `email` | `CreateUser`, `GetUserByEmail`, `GetUserByID`, `UserExists` |
| MessagesStore | `internal/data/messages.go` | collection `messages` | `SaveMessage`, `GetMessageHistory`, `GetRecentChats` |
| JWTManager | `internal/auth/jwt.go` | `keys`, `active` kid, token lifetime | `GenerateToken`, `VerifyToken` |
| Interceptors | `cmd/api/interceptors.go` | none | authenticate, put claims in the context |
| Rate limiter | `internal/middleware/ratelimit.go` | key -> (token bucket, last seen), a clean-up goroutine | `Allow`, clean-up, `Stop` |
| normalize | `internal/normalize/normalize.go` | none | `Email` |
| DB client | `internal/db/db.go` | connection | connect, create indexes, close |
| Process | `cmd/api/main.go`, `server.go` | configuration | start, serve, graceful stop |

`proto/` and `chat/v1/` hold the protocol and generated code; of it, the client
stubs, the service descriptor and the server's dispatch decide in which order a
call meets decoding, interceptors and handler.

How they interact. The interceptors put the claims of a verified token into the
context of an RPC; the token's e-mail is normalized. The ChatStream handler of
every open stream is a goroutine of its own. All of them share the hub, call
the stores, and send on each other's streams through the hub: the handler of a
*sender* runs `SendToUser` and so blocks in the `Send` of a *recipient's*
stream. The collections are shared by all RPCs and outlive the process; the
hub, the handlers and the streams do not.

What is hard:

- `SendToUser` takes the read lock only to fetch the inner map, then ranges over
  it unlocked, so each iteration interleaves with `Register` and `Unregister` on
  that same map; Go aborts the process when the two really overlap.
- The connections found by the range may be unregistered, broken, or over by
  the time they are sent to; several activations may blame and unregister the
  same connection; the inner map may be dropped and recreated meanwhile.
- `Send` blocks on flow control: liveness of one user's handler depends on the
  clients of others.
- Each of save, acknowledge and push can fail alone, and the process can die
  between any two.
- Addresses are normalized in some places and not in others.
- A limiter is fetched under the store's lock and used after it, while the
  clean-up loop deletes entries and later calls make new limiters.
- Registrations race on the unique index; an account may be stored for a caller
  who is told of a failure; tokens outlive processes and their keys.
- `sent_at` is read before the insert, so the collection is not in its order, and
  `$last` takes what a `$group` comes to last, which no stage sorts.
- An answer is streamed one element at a time while the collection grows and
  the process may end; one ListChats call can panic and take all others along.
- A start can fail at every statement, between the two indexes too, and is
  retried by somebody, maybe in another environment.
- Graceful stop takes calls on open connections until its second GOAWAY and waits
  for calls that only their clients end; a signal may come before the server
  serves, or while a failed `Serve` is on its way to `log.Fatalf`.
- Which methods are limited, which need no token and which are unary is written
  in three places.

What makes each part correct:

- Hub: an open, healthy connection is registered, a registered one is open and
  its owner's; a push reaches every registered endpoint, only the addressee's,
  and returns.
- ChatStream: stored before acknowledged before pushed, in order, at most once;
  an acknowledged message is pushed to every endpoint connected throughout; a
  broken stream leaves the hub.
- Rate limiter: it grants and denies like one bucket per key that is kept for
  ever, and its map does not grow for ever.
- Register, Login, tokens: an address has one account, whose password is the
  one its successful registration gave; Login's answers are true; a token works
  until it expires while its key is kept under its kid; a stream acts for one
  account.
- Readers: an OK answer of `GetHistory` is the newest messages of the
  conversation, oldest first; of `ListChats`, each partner once.
- Process: what serves is configured and has its indexes; no handler runs
  unchecked or without its stores; a shutdown ends.

## 2. Modules

| Module | Models | Extends / instantiates |
|---|---|---|
| `Presence` | abstract: a set of streams per user, and passes over it | |
| `Hub` | the hub, gRPC streams as it uses them, a minimal driver | `Presence` by refinement |
| `MCHub` | instances of `Hub` for TLC | `Hub` |
| `HubProofs` | proofs about `Hub` | `Hub`, TLAPS |
| `PresenceProofs` | the refinement of `Presence` by `Hub` | `HubProofs` |
| `Mailbox` | abstract: the life of a message | |
| `Chat` | ChatStream handlers, collections, crash and restart | `Hub`; `Mailbox` and `Presence` by refinement |
| `MCChat` | instances of `Chat` for TLC | `Chat` |
| `ChatProofs` | proofs about `Chat`, the refinement of `Mailbox` included | `Chat`, `HubProofs` |
| `ChatPresenceProofs` | the refinement of `Presence` by `Chat` | `ChatProofs`, `PresenceProofs` |
| `TokenBucket` | abstract: a token bucket per key, never thrown away | |
| `RateLimit` | `LimiterStore`, its clean-up loop, the interceptor's key | `TokenBucket` by refinement |
| `MCRateLimit` | instances of `RateLimit` for TLC | `RateLimit` |
| `RateLimitProofs` | proofs about `RateLimit` | `RateLimit`, TLAPS |
| `Auth` | `JWTManager`, its configuration at start, tokens | |
| `Credentials` | abstract: accounts, and what callers are told of them | |
| `Accounts` | Register, Login, `UsersStore`, streams opened with tokens | `Auth`; `Credentials` by refinement |
| `MCAccounts` | instances of `Accounts` for TLC | `Accounts` |
| `AccountsProofs` | proofs about `Accounts` | `Accounts`, TLAPS |
| `MessageStore` | `messages.go` and the handlers that read | |
| `MCMessageStore` | instances of `MessageStore` for TLC | `MessageStore` |
| `MessageStoreProofs` | proofs about `MessageStore` | `MessageStore`, TLAPS |
| `Process` | `main.go`, `server.go`, `db.go`, the generated dispatch, both interceptors | |
| `MCProcess` | instances of `Process` for TLC | `Process` |
| `ProcessProofs` | proofs about `Process` | `Process`, TLAPS |

The modules meet in the code at four seams. `Process` has a call from the stub to
its handler and chooses what interceptors and handlers decide; the other modules
start where it ends. `Chat` starts where `Accounts`
ends: a stream whose handler has the claims of an account. `Chat` and
`MessageStore` both have the insert of `SaveMessage`, `Chat` with what happens
around it, `MessageStore` with the clock and the order of the collection. The
verdict of `RateLimit` is whether a call enters `Accounts` at all.

### Hub and Presence

State. `streams[a]` is the inner map of address `a`, by name: Go maps are
references, and a goroutine may range over a map that `h.streams` no longer
holds, so inner maps are objects `conns[m]`, named after the id given out when
they were created. `stream[id]` is the `StreamSender` stored under an id.
`frame[g]` is the activation of `SendToUser` run by the handler of session `g`,
with its local variables (`addr`, `map`, `cur`, `failed`) and two sets that
describe the range (`must`: what was in the map when it began, `seen`: what it
has yielded).

| Code | Action |
|---|---|
| `Register` (hub.go:32-44) | `Register`, one step: the body runs under `h.mu` |
| `Unregister` (46-57) | `Unregister`, one step likewise |
| 64-70, look-up under the read lock, "not connected" | `SendToUserLookup`, `SendToUserLen` |
| 79, `range conns` | `RangeNext`, `RangeEnd` |
| 80-85, `st.Send`, error kept | `Sending`, `SendingFails` |
| 90-94, unregister the failed ones, return | `UnregisterFailed` |

The range follows the Go specification: each entry at most once, in any order;
one deleted before it is reached is not produced; one added may be. A map write
while another goroutine is inside the range (not inside `Send`) has two
outcomes, success or the fatal error that ends the process (`proc =
"mapRace"`); `MapWrite` chooses. After that no action of the process is enabled.

A gRPC stream is the sequence `out[s]` of the responses its Sends accepted. A
Send waits while the client has `Window` of them unread, fails once the stream
is broken or its RPC over (`s \notin alive`), and does not touch other streams.
`ClientRead` is a step only when the window is full: an earlier read changes
nothing a server step can see.

The driver (`Connect`, `Disconnect`, `SendToUser`) is what the handlers do with
the hub, without the rest of the handler: each session registers once, pushes
fresh responses to any address while open, and unregisters.

`Presence` is the hub without ids, maps and locks. A user has one set of streams;
`Join`, `Part` and `Purge` change it atomically. A call of `SendToUser` is a pass
over the set: it reaches a stream of the set that it has not reached before,
serves it, or blames it if it is broken, and ends when whatever was in the set at
its start was reached or has left. A stream that was reached is served although it
may have left since: that is what reading the map without the lock amounts to,
and, as long as the runtime does not abort the process, all that it amounts to. `Hub` implements it with `Joined` (the sessions with an
id), `Present` (the streams in the inner maps, dropped ones included) and `Calls`
(the frames, their ids replaced by streams). An activation that fetched a map which
was emptied before it looked at its length is a call in the stage `nobody`,
which `Presence` enters only with the step that takes a user's last stream: so
"user not connected" was true at some moment of the call. An
activation that does not find its address is a stutter. A `Register` or `Unregister`
that the runtime aborts is its `Join` or `Part` all the same, after which the
process takes no step.

`PresenceCrashSpec` is the same with what is around the hub in `Chat`: `Take`, an
acknowledgement, which a stream takes from its own handler and never during a call of that
handler; and `Renew`, another process, which knows no stream, while all that had
joined are broken and never join again.

### Chat and Mailbox

`step[s]` is where the handler of `s` is, `req[s]` the request it works on;
`users` and `msgs` are the collections. The actions follow `handlers.go:140-197`
one statement at a time, with every error return. `VerifyRecipient` and
`SaveMessage` may fail at any time, and `SaveMessage` may fail with the insert
done. `PushMessage` starts an activation of `SendToUser`; `Recv` is reached
again only when it has returned. `RecvEnd` stands for `io.EOF` and for an error.
A returning handler runs its deferred `Unregister` (`CloseStream`).
`normalize.Email` is the constant `Email`, any idempotent function; requests may
use any spelling, tokens only normalized ones.
`Kill` may happen at any time; `Restart` follows a kill or a fatal map race,
with an empty hub and the same collections.

`Mailbox` has only the documents and what each stream took, and three actions:
`Save`, `Ack`, `Push`. `Chat` implements it with the identity mapping on `msgs`
and `out`; every other step of `Chat`, crashes included, is a stutter.

Three fields of a document (`src`, `addr`, `owed`) are history variables, as is
`must` in a frame: no guard of a handler or of the hub reads them, except the
`must` in `RangeEnd`, which is the rule of the Go range.

### RateLimit and TokenBucket

`entry` is `s.clients`, `credit[l]` what a `*rate.Limiter` holds, `call[c]` the
limiter the call `c` has fetched and not yet used, `sweep` where `cleanupLoop`
is. `getLimiter` (73-84) is one step under `s.mu`; `Allow` (89) is one step
under the limiter's own lock; the clean-up takes its cutoff (54) and then, as a
second step, deletes under `s.mu` (55-61); `Stop` closes `stopCh`.

Time is discrete. The store only compares times, so no clock is kept: an entry
carries the ticks since `lastSeen` (`idle`), a fetched limiter and a cutoff the
ticks since they were taken, and `Tick` ages them all and refills the limiters.
Credits are counted in ticks, so that refilling is adding one.

The two stretches between reading and using (`Allow` after `getLimiter`, the
lock after the cutoff) last at most `MaxDelay`; `Tick` waits for them. Eviction
is invisible when `Full + MaxDelay <= IdleTime`: a bucket refills, and whoever
holds a limiter uses it, within the ten minutes of the cutoff. With `main.go`'s
burst of 3 and at least one call a minute `Full` is at most three minutes, which
leaves `MaxDelay` seven. A store made with a burst larger than ten minutes of
refill would break it; `NewLimiterStore` does not check.

`TokenBucket` has `level[k]` for every key. `RateLimit` implements it with
`Level`: the credit of the key's limiter, `Full` for a key without one.
`watch` is an observer in both: it picks a key and a moment, and counts grants.

### Auth and Accounts

A token is the secret it was signed with, its kid, its claims, and the ticks it
has left; a signature is checked by comparing secrets. `Start(e)` is `main` with
environment `e`: `JWT_KEYS` wins over `JWT_SECRET` (66-83), and
`NewJWTManagerFromKeys` without an active kid takes any key, as the range over
a Go map does. `SecretFor` is the key function of `VerifyToken`, the fall-back
for tokens without kid included (`ActiveSecret`); old tokens of that kind, with an
address as it was typed, exist from the start (`Old`). Their accounts are stored
under the normalized address (`OldUsers`): an assumption about the data, as nothing
in `src/` writes another one.

`rpc[c]` is one call. Register: `RegisterBegin` (hash), `CreateUser` (insert
under the unique index, which may fail, also after inserting), `RegisterReturn`
(token). Login: `LoginBegin`, `FindUser`, `CheckPassword`, `LoginReturn`. Streams:
`OpenStream` with anybody's token, `RejectStream`, `CloseStream`. The answer
stays in the record, so that properties can compare it with the accounts for
ever after. `known` and `dbError` are history variables.

`Credentials` has two variables, the accounts and what the caller of each call was
told of one, and two actions: `Create` makes an account of a new name, `Tell`
answers a call once, with something true. One caller is told that it registered a
name; a login is confirmed with the account's password and denied with another; a
stream is opened in a name only if somebody was told so of its password, or an
earlier version was (`Veterans`). `Accounts` implements it with the documents of
`users` and `Verdict(r)`, the answer of record `r`; errors tell nothing. Starts,
kills, rotations, hashing, look-ups and tokens are stutters, and so is an insert
whose reply is lost to its caller, but for the account.

### MessageStore

`docs` is the collection in the order of insertion; `Stamp` reads the clock for
a message and `Insert` inserts it, with other handlers in between. The two
queries are operators that return the *set* of answers MongoDB may give:
`NewestFirst` is every order that the sort key allows. `reader` runs the
handlers `GetHistory` and `ListChats`: the query (or its failure), then a Send
per element, each of which may fail. `$match` and the key of `$group` are `GroupOf`
and `Partners`. No stage sorts before `$group`, so MongoDB does not say which message
`$last` takes: `Groups` is the set of all results, one record per partner with
any message of the conversation. `Kill`, and `AssertionPanics` in
`GetRecentChats`, end the process: what was being saved may be lost, and a reader
that was streaming gets Unavailable. The collection stays.

### Process

`proc` is one process: the statement `main` is at, the goroutine of `Serve`, the
server and how far its shutdown is, what is open (`db`, `limiter`), and whether the
signal channel holds a signal. `indexes` and `accounts` (the documents of one e-mail)
are in the database and outlive it. `call[c]` is a call between the stub and the
end of its handler.

| Code | Action |
|---|---|
| main.go:27-36, required variables | `Start` |
| db.go `New`, `CreateIndexes` | `Connect`, `CreateIndex` for each collection |
| main.go:60-95, stores, JWTManager, LimiterStore | `BuildStores` |
| server.go, TLS credentials | `LoadCreds` |
| main.go, `NewServer`, `Listen`, `go Serve`, `signal.Notify` | `Listen`, `SpawnServe`, `Notify` |
| main.go:141-145, the goroutine of `Serve` | `Serve`, `ServeFails`, `ServeFatal` |
| `<-stop`, `GracefulStop`, deferred calls | `GracefulStop`, `FinalGoAway`, `GracefulStopReturns`, `StopLimiter`, `CloseDB` |
| chat_grpc.pb.go, client stubs | `Invoke`, `SendRequest`, `Leave` |
| chat_grpc.pb.go, dispatch | `Accept`, `Decode`, `AfterAuth` |
| both interceptors | `Limit`, `Authenticate` |
| handlers | `HandleRegister`, `HandleLogin`, `HandleRead`, `HandleStream` |
| `stream.Send` in a handler that waits for a client | `SendWaits`, `SendGoesOn` |

Each `log.Fatal` is the alternative `Fatal`, which ends the process without the
deferred calls. `Signal` kills before `signal.Notify` and fills the channel after
it. A unary call is decoded before the interceptors run, a stream passes its
interceptor first and its request, if it has one, is read by the generated
handler after that.

`GracefulStop` closes the listener and announces to each connection that the server
goes away. Calls on open connections are taken (`Accept`) until the connection has
answered, or a timer ran out, and the final GOAWAY is sent (`FinalGoAway`); then it
waits. An error of `Serve` and the `log.Fatalf` after it are two steps of a goroutine
beside `main`: `ServeFails` or, where the server was stopped before `Serve` was called,
`Serve` itself, and then `ServeFatal`, which may cut a graceful shutdown short.

A `Send` of a streaming handler may wait for flow control ("sending"): those of
`ListChats` and `GetHistory` for their own client, those of a ChatStream for any
client of a ChatStream (`Receivers`), as it pushes to others. Only when all of these
are gone does it go on by itself.

### Fault operators

An operator whose comment starts with "Fault" is an operation with a plausible
bug. No specification uses it. Substituting it for the operation makes TLC find
a violation of the property that `PROJECT.json` ("mutants") pairs it with.

## 3. Runs

| Run | Result | Shows |
|---|---|---|
| `hub_safety` | pass | the registry invariants, `HubInv`, `EveryEndpointServed`, refinement of `Presence` |
| `hub_maprace` | violation | `NoMapRace` |
| `chat_crash` | pass | `ChatTypeOK`, `ChatInv`, `InOrder`, refinement of `Mailbox` and `Presence` across crashes |
| `chat_progress` | pass | `NoMissedPush`, `SendToUserBounded`; `GoneClientsAreReaped`, `SendToUserReturns` when clients read |
| `chat_mixed_case` | violation | `NoMissedPushAnyCase` |
| `rate_safety` | pass | `RateInv`, `WindowBound`, refinement of `TokenBucket`, `StaleEntriesDropped` |
| `rate_by_ip` | violation | `CountedByIP` |
| `accounts_safety` | pass | `AccountsInv`, accounts, answers, rotation, streams, refinement of `Credentials` |
| `accounts_kid` | violation | `SameConfigSameKid` |
| `store_reads` | pass | `StoreTypeOK`, `StoreInv`, `HistoryIsNewest`, `PartnersOnce` |
| `store_last` | violation | `LastMessageIsNewest` |
| `process_safety` | pass | `ProcessInv`, serving, accounts, stores, checked handlers, drain and shutdown |

Properties, in words:

- `OnlyOpenRegistered`, `HealthyRegistered`: the registry holds exactly what it
  should, up to endpoints that are broken and may already have been purged.
- `SendsToAddressee`: no misdelivery, although the range is unlocked.
- `EveryEndpointServed`: whenever `SendToUser` returns, each connection that the
  range had to reach and that is still in the map has the response.
- `PresenceSpec`: the contract of section 2. The two levels of maps, the ids and the
  unlocked range lose no stream, find none twice and none that had left before the
  pass came to it, and a user who was there all the time is not "not connected".
  `PresenceCrashSpec` says it of the handlers, over kills and restarts.
- `NoMissedPush`: each endpoint of the recipient that was open when an
  acknowledged message was stored, and stayed open and intact, has the message
  or is still in the way of the push.
- `MailboxSpec`: the contract of section 2. `InOrder`: what a client can tell from
  its stream alone, over reconnects and restarts of others.
- `SendToUserBounded`: every step of an activation of `SendToUser` brings its end
  nearer, and only a new connection of the addressee can put it off; no
  unregistration, purge or other activation can. `SendToUserReturns`,
  `GoneClientsAreReaped`: the steps are taken.
- `WindowBound`: in any stretch of time a key is granted at most its burst and
  the refill of that stretch, whatever is evicted. `StaleEntriesDropped`: the
  entry of a key that does not come back goes, unless the loop was stopped.
- `AckedCredentialsWork`, `LoginTruthful`, `KnownUsersFound`: what Register and
  Login answered is true of the accounts from then on. `RotationKeepsTokens`: a
  start in an environment that keeps the last one's keys under their kids, among
  others maybe, or `JWT_SECRET` as the key "1", loses no token that worked, except
  that one without kid lasts only as long as the active secret. `StreamsAuthentic`:
  the streams opened with tokens, across restarts. `CredentialsSpec`: all of it as one
  contract, step by step.
- `HistoryIsNewest`, `PartnersOnce`: what a client that was answered OK has
  received, said of the documents that were there when the query ran, without
  sorting or cutting, and for `ListChats` whichever message `$last` takes.
- `ServesAsConfigured`, `OneAccount`: whatever starts failed before, a process
  that listens has both indexes, well-formed keys and the TLS it requires, and an
  e-mail has one account, although only the index keeps it so.
- `CallsHaveStores`, `NoUncheckedHandler`: an accepted call has the database and
  the limiter until it is answered; a handler runs with verified claims or past
  the limiter. `DrainOnlyShrinks`: from the final GOAWAY on, no call enters the
  server and each one in it goes forward only, on the way of its kind, although
  clients go on calling. `ShutdownEnds`: a process that was signalled ends, also when
  `Serve` fails meanwhile, unless a client stays or does not read.

Bounds. `hub_safety`: alice on one stream, bob on two, two responses, three ids.
Three sessions are the least with two endpoints of one user and a third party;
two pushes let two activations range over one map, fail on the same connection
and purge it twice. `Window = 2`: a stream that took both pushes is full until
its client reads; Sends that wait are `chat_progress` with `Window = 1`. It uses the
symmetry of bob's streams and of the responses, which no operation tells apart.
`chat_crash` has one stream per user, two requests and two spellings of bob's
address: two messages are the least for ordering, and a stream that opens after
the restart meets the messages of the one before. `MaxConns` is never what stops a run: each session registers once per process.
`chat_progress` has bob on two devices that push to each other, the least with
two connections in a range and two handlers that wait for each other. It also
checks `NoMissedPush`, which needs two devices of a recipient; crashes are left to
the proof.

`rate_safety`: two keys, two calls that may hold limiters at once, a token in
two ticks, and the least idle time the assumption allows, so that eviction comes
as early as it may. Two limiters are enough: the invariant says that a call's
limiter is its key's. `MaxWatch = 3` covers a burst and a refill; the proof has
no bound. `accounts_safety`: three calls, so that two registrations race and a
third call uses the outcome; two spellings of two addresses; an old client; and
three environments: a secret alone; the same secret as the key "1" beside a new one,
without an active kid, so that either is active; and the new one alone with an
active kid that has no key. It uses the symmetry of
the calls. `store_reads`: three messages among four kinds of conversation
partner (another, another under a second spelling, a third, oneself) with two
values of the clock, so that equal times occur, and limits of two, so that one
message too many occurs; limits -1, 0 and 1 in the request.
`process_safety`: two calls, the least with one that waits for its client and one
that does not; two starts, so that a second one meets the indexes and accounts
of a first that failed anywhere; four environments, one for each way through
`main`: no secret at all, malformed keys, TLS required and missing, and keys with TLS
required and present, where the certificates may not load. A server without TLS is
left to the proof: its process differs in `tls` alone, which no call looks at.
Register and Login are called without a token, which nobody looks at there.
`CHECK_DEADLOCK FALSE` everywhere: sessions and requests are finite in number,
so every behaviour stops when they are used up, and a killed process stops, as
one does that may not be started again.

Fairness. `ChatFairSpec` has weak fairness of the steps a goroutine takes by
itself: Go schedules a runnable goroutine, database calls answer or fail (they
have the driver's time-outs), and `Recv` on a broken stream fails. New
connections, requests, failures and crashes are never assumed. It also has
clients that go on reading. Nothing makes a client read, and without it the
result is false: `Send` waits on a full window, so one endpoint that stops
reading keeps a range, and the sender's handler, waiting for ever.
`RateFairSpec` has weak fairness of `Tick` (time passes), of the steps of
`cleanupLoop` and of `Allow` once a limiter was fetched; not of new calls.
`ProcessFairSpec` has weak fairness of the goroutines of `main` (`MainStep`), of
`Serve`, and of each call's own (`ServerStep`: everything but what waits for a
client, whose Sends are left out). `LoopEnds` has strong fairness: a handler comes to the
end of its answer, or to the error of its `Recv`, between Sends that may wait and go
on again and again, and it has finitely many messages to send or requests to read.
Starts, signals, clients and failures are never assumed. `ShutdownEnds` says in its
premise that no call waits for a client for ever: `GracefulStop` has no deadline, so
one open ChatStream, one stream whose request never comes, or one client that stays
and does not read its answer keeps the process.

## 4. What the violation runs show

- `hub_maprace`. `hub.go:88-89` says it is "safe to call Unregister
  concurrently". The inner map is written under the lock and ranged over
  without it: the runtime may abort the process. Three steps are enough: a push
  is ranging over the map when a second device of the same user connects.
- `chat_mixed_case`. Verification and storage normalize `to_email`, the push
  does not (`handlers.go:191`): the message is stored and acknowledged, and the
  connected recipient is treated as offline.
- `rate_by_ip`. `ratelimit.go:94` falls "back to remote IP"; the key is
  `p.Addr.String()`, which holds the port: a limit per connection.
- `accounts_kid`. `jwt.go:44` picks the first key "deterministically"; the range
  over a map does not. After a restart in the same environment new tokens may be
  signed with another key, one that a rotation meant to retire included.
- `store_last`. `messages.go:128` collects "the last message"; no `$sort` comes before
  `$group`, so `$last` may take any message of a conversation. The run does not
  rest on that: the property speaks only of answers that have the document inserted
  last (`LastInserted`), and as `sent_at` is older than the insert, two saves that
  overlap make `ListChats` and `GetHistory` disagree about the newest message.

Seen while modelling, and true in the models, but not kept as runs:

- A Send whose stream a range has fetched may come after `Unregister` returned
  (`hub_test.go:42` unregisters a sender "and ensure it no longer receives
  messages", with nothing in flight).
- `chat.proto:31-35` says "Password (8-72 characters)", and `chat.proto:53-56`
  bounds the limit of ListChats: nothing enforces either. Any password that bcrypt
  takes makes an account; a negative limit reaches MongoDB, and is answered
  Internal.
- Login answers NotFound, "user not found", to every database error
  (`handlers.go:50-51`); `KnownUsersFound` is conditional for that reason.
- A token without kid is refused as soon as another secret is active, although its
  own may still be in `JWT_KEYS` (`jwt.go:114-117`), and a key that is moved to another
  kid is no longer found for the tokens that name the old one.
- `Serve` that comes after `GracefulStop` returns `ErrServerStopped`, and `log.Fatalf`
  ends the process during an orderly shutdown, without the deferred calls
  (`main.go:142-143`).
- `GetHistory` passes a limit of 100 and has no cursor: older messages, stored
  and acknowledged, are in no answer (`handlers.go:111`).

## 5. Proofs

All theorems hold for all values of the constants under the named assumptions.

`HubProofs`, under `HubAssumption` (owners
are addresses, the bounds are naturals, `NoSession` is not a session):

| Theorem | States |
|---|---|
| `HubInvariant` | `HubSpec => []HubInv` |
| `NoStaleEndpoint` | `HubSpec => []OnlyOpenRegistered` |
| `NoLostEndpoint` | `HubSpec => []HealthyRegistered` |
| `NoMisdelivery` | `HubSpec => []SendsToAddressee` |
| `BestEffort` | `HubSpec => EveryEndpointServed` |
| `BoundedSendToUser` | `HubSpec => SendToUserBounded` |

None of the properties is inductive. `HealthyRegistered` needs that whoever
unregisters an id names a broken stream, which only the `failed` set of a frame
knows; `SendsToAddressee` needs that a map fetched long ago is still of the same
user, although the address may have a new one; `EveryEndpointServed` needs an
account of each connection the range has yielded. `HubInv` adds:

- `IdsGivenOnce`: `stream` and `connID` are inverse on the ids given out;
- `MapsOfOneUser`: a map is its first connection's user's for ever, it is the
  entry of that user while it is not empty, and all in it are open;
- `FrameAccounted`: a frame's map is of its addressee, `failed` holds broken
  streams only, and each connection in `seen` that is still in the map is in
  `failed`, has the response, or is being sent to.

There is one lemma per operation. `UnregisterEffect` is the central one: taking
an id out of the entry of `a` takes it out of every map that ever was `a`'s,
because all others are empty. `FrameStep` covers the steps that change one frame
only, `GotGrows` the Sends. The lemmas name the variables an operation leaves
alone instead of the driver's actions, so that the proof for `Chat` can use them.

`BoundedSendToUser` is the part of liveness that the prover can reach: `StepsLeft`
is a variant, a number that each step of an activation lowers and that no other
step raises, except a `Register` of the addressee, whose connection the range may
yield too. It needs `HubInv` for the types of a frame and for a map to be of one
user, so that only the addressee's connections can enter it. What remains for
`SendToUserReturns` is that the steps are taken.

`PresenceProofs` has one theorem, `HubIsPresence`: `HubSpec => PresenceSpec`. Next
to `HubInv` it needs the invariant `AtHome` (`AtHomeAlways`): the connections an activation was
given (`must`, `seen`, `failed`) are the addressee's and in no map but the one it
ranges over. Without it the range of an old map could end with a stream of its
`must` still present in a new one, which no `End` of `Presence` is. It also gives that
taking streams for ids loses nothing (`StreamsApart`, from `IdsGivenOnce`), and
`OfMap`: while an inner map is not empty, it holds just the streams its user has.
There is one lemma for each action and the action it maps to; `UnregisterLeaves`
is the central one, as an `Unregister` changes every frame that waits to look at
the map it empties. The lemmas speak of `HubStep`, a step of the hub whoever takes it:
`DriverSteps` says that the driver takes no others.

`ChatPresenceProofs` has one theorem, `HandlersKeepPresence`: `ChatCrashSpec =>
PresenceCrashSpec`. `HandlersDriveHub` says that each step of a handler, a client or
the database is a `HubStep` or an acknowledgement: `ChatInv` has it that a handler that
returns is in no push. The restart needs `OldStreamsBroken` besides: a session
without an id has not come yet, or its stream is broken, so that the streams that
`Restart` breaks are those that had joined.

`RateLimitProofs`, under `RateAssumption`:

| Theorem | States |
|---|---|
| `RateInvariant` | `RateSpec => []RateInv` |
| `GrantsBounded` | `RateSpec => []WindowBound` |
| `EvictionUnseen` | `RateSpec => BucketSpec`, the refinement |

`WindowBound` follows from `Accounted`, the sum of what was granted and what is
left; that eviction keeps the sum needs `Recovers` (an entry older than the
cutoff has a full bucket) and `HoldsCurrent` (nobody is about to use it, because
a fetch marks the key as seen). The refinement is step by step: a fetch is `Ask`,
`Allow` is `Grant` or `Deny` of the key's bucket because keys share no limiter
(`OwnLimiter`), a sweep and the loop's other steps are stutters.

`AccountsProofs`, under `AuthAssumption` and `AccountsAssumption` (in particular
`Email` is idempotent, the old accounts have addresses of their own, the process
is not started without a key, `OldUsers` are stored normalized):

| Theorem | States |
|---|---|
| `AccountsInvariant` | `AccountsSpec => []AccountsInv` |
| `AckedRegistration` | `AccountsSpec => []AckedCredentialsWork` |
| `LoginAnswers` | `AccountsSpec => []LoginTruthful` |
| `LoginFindsUsers` | `AccountsSpec => []KnownUsersFound` |
| `StreamIdentity` | `AccountsSpec => []StreamsAuthentic` |
| `Rotation` | `AccountsSpec => RotationKeepsTokens` |
| `AccountsAreCredentials` | `AccountsSpec => CredentialsSpec`, the refinement |

The properties speak of answers; `AccountsInv` says the same of calls on their
way to an answer (`CallInv`), that accounts and ids are unique, that every token
names an account, and that a running process has the keys of its environment.
`CallKept` is the central lemma: what holds of a call is kept while others insert
documents and tokens age. `QuietStep` uses it for all steps that change one
record only, `InsertStep` and `ReturnStep` for the two that do more. `Rotation`
needs the keys before the start to be those of the last environment (`KeysOfConfig`),
as the next one is compared with it: then a kid finds the same secret.

The refinement needs one invariant more, `TokensEarned`: a token is held by a call
that was answered OK, or is an old one, and has the name for which the password
was shown. The claims of a stream come from a token that was signed maybe two
processes ago, so without it nothing links the stream to a password. A
registration is `Create` and `Tell` at different times: the insert of `CreateUser`
tells nobody, and `RegisterReturn` tells later, when `CallInv` still has the account with
the id of this call, and `UniqueAccounts` excludes a second teller.

`ChatProofs`, under `HubAssumption` and `ChatAssumption` (`Email` is idempotent,
`Owner` gives normalized addresses), for any number of sessions, messages,
devices, crashes and restarts:

| Theorem | States |
|---|---|
| `ChatInvariant` | `ChatCrashSpec => []ChatInv` |
| `ChatTypeCorrect` | `ChatCrashSpec => []ChatTypeOK` |
| `NothingIsMissed` | `ChatCrashSpec => []NoMissedPush` |
| `StreamsAreMailboxes` | `ChatCrashSpec => MailboxSpec`, the refinement |
| `StreamsInOrder` | `ChatCrashSpec => []InOrder` |
| `HandlersLeaveNoEndpoint` | `ChatCrashSpec => []OnlyOpenRegistered` |
| `HandlersStayRegistered` | `ChatCrashSpec => []HealthyRegistered` |
| `HandlersPushToAddressee` | `ChatCrashSpec => []SendsToAddressee` |
| `HandlersServeEndpoints` | `ChatCrashSpec => EveryEndpointServed` |
| `PushIsBounded` | `ChatCrashSpec => SendToUserBounded` |

`NoMissedPush` compares an acknowledgement of long ago with streams of now. The
step that could break it is the look-up in the hub, several steps after the save,
so `ChatInv` says for each stage of a handler what a stored message still owes:
whoever was open when it was stored is registered, or has been sent to, or is in
the way of the range, or has left. It holds `HubInv` for the hub as the handlers
drive it: the lemmas of `HubProofs` name what an operation leaves alone and not
the driver, and are cited as they are. For the refinement the invariant says that
a stream's acknowledgements and pushes are in its sender's order, that none is
repeated, and that the document agrees with the request its handler works on;
then each of `SaveMessage`, `SendAck` and `RangeSend` is a `Save`, `Ack` or
`Push`, and every other step a stutter.

`StreamsInOrder` rests on the refinement and not on the handlers: it is proved
from the three actions of `Mailbox`, each of which appends to one stream
(`SaveKeepsOrder`, `DeliverKeepsOrder`). It is not inductive there: that a push of
a stream's own message comes after the acknowledgement needs `PushedWereAcked`,
that whatever any stream has from the hub was acknowledged to its sender. The
last five theorems say of the hub under the real handlers, with crashes and
restarts, what `HubProofs` says of it under its driver.

`MessageStoreProofs`, under `StoreAssumption`, for any collection, limits and
number of readers:

| Theorem | States |
|---|---|
| `StoreInvariant` | `StoreSpec => []StoreInv` |
| `StoreTypeCorrect` | `StoreSpec => []StoreTypeOK` |
| `HistoryDelivered` | `StoreSpec => []HistoryIsNewest` |
| `PartnersDelivered` | `StoreSpec => []PartnersOnce` |
| `HistoryIsStable` | `StoreSpec => []HistoriesAgree` |
| `ReadersAgree` | `StoreSpec => []ChatsAgree` |

The properties speak of answers that were delivered, `StoreInv` of the answer
from its query on: it is right for the documents the query saw (`AnswerInv`), and
stays right, because the collection only grows behind them (`AnswerKept`) and a
document's time was read before it was inserted. What a query answers is in
`HistoryAnswer` and `ChatsAnswer`, from facts about sequences: an order of a
finite set has each element once (`OrderFacts`), a limit keeps a prefix
(`LimitFacts`), a reversal turns places round (`ReverseFacts`). `GroupFacts` says of every result that `$group` may
have that it is one record per partner, with a message of that conversation.

The last two relate the answers of two readers, in any order of their queries and
of the saves between them; `MessageStoreProofs` defines what they state, and no run
checks it, since `store_reads` has one reader. A message that a client has
seen, in a history or in its list of chats, is in every later history of the
conversation, or newer ones fill the limit. That the list is not behind an earlier
history is not so: `store_last` shows it. Both follow from what each answer is of what its query saw, as later queries see
more, and from the one limit that all histories have (`LimitIsPassed`).

`ProcessProofs`, under `ProcessAssumption`, for any calls, environments and number
of starts:

| Theorem | States |
|---|---|
| `ProcessInvariant` | `ProcessSpec => []ProcessInv` |
| `ServingIsConfigured` | `ProcessSpec => []ServesAsConfigured` |
| `AccountIsUnique` | `ProcessSpec => []OneAccount` |
| `StoresOutliveCalls` | `ProcessSpec => []CallsHaveStores` |
| `HandlersAreChecked` | `ProcessSpec => []NoUncheckedHandler` |
| `DrainShrinks` | `ProcessSpec => DrainOnlyShrinks` |

`ProcessInv` says what `main` has at each statement (`MainInv`), how the server
goes with it (`ServerInv`), and what a call has passed at each stage (`Passed`).
`OneAccount` is not inductive alone: without the index a second insert would
succeed, so the invariant has that no account exists before the index does, over
all the starts that failed. `DrainShrinks` bounds a drain as `BoundedSendToUser`
bounds a push: `StagesLeft` is the variant, on the three ways a call may take. It
speaks of what follows the final GOAWAY, as calls are still taken before it.

Only model-checked: liveness (`SendToUserReturns`, `GoneClientsAreReaped`,
`StaleEntriesDropped`, `ShutdownEnds`), which is out of the prover's reach, and the
violations of section 4. `SendToUserBounded` and `DrainOnlyShrinks` are the proved
half of `SendToUserReturns` and `ShutdownEnds`. Every invariant and action property
of a passing run and the five refinements are proved.

## 6. Plan

Done: all modules of section 2 with the proofs of section 5. What could follow:

1. Reading after reconnecting: `Chat` with the collection of `MessageStore`, a
   client that opens a stream and then asks for the history, and what it can
   miss or see twice.
2. A model of one gRPC stream with overlapping `SendMsg` calls, should the
   library's behaviour be pinned down (section 7).

## 7. Not modelled

The contents and formatting of messages and errors, logging and
marshalling (`chat.pb.go`); bcrypt; the handshake with MongoDB. The validators of
`chat.pb.validate.go` are called by no interceptor, and those of the five
requests are empty although `chat.proto` gives their fields rules, so the models
accept any request; `UnimplementedChatServiceServer` is never reached, as
`Server` has all five methods. `PORT` and `RATE_LIMIT_RPM` are data: a limit
above 6e10 calls a minute would make the interval of the limiter zero
(`ratelimit.go:38`), and
`RateAssumption` asks for an interval of at least a tick. The limiter's key is the
address as it was typed (`ratelimit.go:112`), so that the spellings of one account
have buckets of their own; no text of the repository says otherwise, and
`RateLimit` takes keys as they come. Concurrent `Send` calls on one stream (an acknowledgement against a
push) are each atomic here; gRPC asks callers not to make them, and what then
happens is up to the library. `GracefulStop` sends its final GOAWAY to each connection
on its own; `Process` has one for all, and a call on a connection that was told
before others is `Unavailable`. That a connection whose socket no longer takes data
holds up the GOAWAY is left out: `FinalGoAway` has the fairness of `main`. A map race that the runtime does not detect could
also corrupt the range; `Hub` has the two outcomes abort and no effect. Dates have
milliseconds, but clocks that go back are left out, as are `JWT_KEYS` without
any entry and `GetUserByID`, which nothing calls. `GetRecentChats` decodes with
unchecked type assertions, and `CreateIndexes` passes a map with several keys;
whether the driver accepts either is outside `src/`, so both are choices of the
models (`AssertionPanics`, `CreateIndex`). A client that lost an acknowledgement
and sends again (`handlers.go:169`) sends a new message of the model: requests
carry no identifier, and nothing promises that the second is recognised.
