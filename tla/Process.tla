-------------------------------- MODULE Process --------------------------------
(*****************************************************************************)
(* The server process (cmd/api/main.go, server.go, internal/db/db.go) from   *)
(* start-up to exit, and the way of a call from the client stub through the  *)
(* generated dispatch (chat_grpc.pb.go) and the interceptors to its handler. *)
(*                                                                           *)
(* main runs its statements in order; log.Fatal ends the process without the *)
(* deferred calls.  Serve runs in a goroutine of its own, every call in      *)
(* another.  A signal goes to the channel that main reads once, after the    *)
(* start-up; before signal.Notify it kills the process.  GracefulStop tells  *)
(* the connections twice that the server goes away, takes calls on them      *)
(* until the second time, and waits for all it took.  A stream's Send waits  *)
(* for a client that does not read.  Indexes and accounts are in the         *)
(* database and outlive the process.                                         *)
(*                                                                           *)
(* What handlers do inside is in Accounts, Chat and MessageStore, the        *)
(* verdict of the rate limiter in RateLimit; here they choose.  Operators    *)
(* marked "Fault" are plausible bugs that no specification uses.             *)
(*****************************************************************************)
EXTENDS Naturals

CONSTANTS
  Calls,      \* the calls that clients make
  Envs,       \* the environments the process is started with
  MaxStarts   \* bound on the number of starts

\* What main reads from the environment: whether MONGODB_URI and JWT_SECRET are
\* set, JWT_KEYS, whether both TLS_CERT and TLS_KEY are set, REQUIRE_TLS.
Env == [uri : BOOLEAN, secret : BOOLEAN, keys : {"unset", "pairs", "malformed"},
        certs : BOOLEAN, requireTLS : BOOLEAN]

ASSUME ProcessAssumption == Envs \subseteq Env /\ MaxStarts \in Nat

\* The service descriptor: Methods, and Streams by their direction.
Unary           == {"Register", "Login"}
ServerStreaming == {"ListChats", "GetHistory"}
Bidirectional   == {"ChatStream"}
Methods         == Unary \cup ServerStreaming \cup Bidirectional

Limited == {"Register", "Login"}   \* main.go: subject to the rate limiter
Allowed == {"Register", "Login"}   \* interceptors.go: no token is needed

\* The collections of the database that db.Client hands out, and indexes.
Collections == {"users", "messages"}

VARIABLES
  proc,      \* the process
  starts,    \* processes started so far
  indexes,   \* the collections whose indexes exist
  accounts,  \* users documents with one and the same e-mail
  call       \* the calls

vars == <<proc, starts, indexes, accounts, call>>

Starting == {"connect", "indexUsers", "indexMessages", "build", "creds",
             "listen", "spawn", "notify"}
Running  == {"wait", "stopping", "stopLimiter", "closeDB"}
Ended    == {"fatal", "killed", "exited"}

\* main: the statement main is at, or how the process ended.  serve: the
\* goroutine of Serve, which has failed to accept connections ("failed") or found
\* the server stopped ("refused") and comes to log.Fatalf.  server: the
\* grpc.Server, in GracefulStop before and after the final GOAWAY ("draining",
\* "goaway").  signal: the channel stop holds a signal for main to read.
Process == [env : Env, main : Starting \cup Running \cup Ended,
            serve : {"none", "spawned", "running", "failed", "refused"},
            server : {"none", "listening", "serving", "draining", "goaway", "stopped"},
            tls : BOOLEAN, db : BOOLEAN, limiter : BOOLEAN, signal : BOOLEAN]

Fresh(e, at) ==
  [env |-> e, main |-> at, serve |-> "none", server |-> "none",
   tls |-> FALSE, db |-> FALSE, limiter |-> FALSE, signal |-> FALSE]

Up == proc.main \notin Ended

\* msg: the request message was sent.  granted: LimiterStore.Allow said yes.
\* claims: the context has the claims of a verified token.  A token that is
\* missing is "bad".  At "sending" the handler is in a stream.Send that waits.
InHandler == {"handler", "sending"}
InServer == {"decode", "limit", "auth"} \cup InHandler
Tokens == {"good", "bad"}
Call == [method : Methods, token : Tokens,
         at : {"sent"} \cup InServer, client : {"here", "closed", "gone"},
         msg : BOOLEAN, granted : BOOLEAN, claims : BOOLEAN]
NoCall == [at |-> "idle"]

Active(c)   == call[c].at \in InServer
Handling(c) == call[c].at = "handler"

\* Type invariant.
ProcessTypeOK ==
  /\ proc \in Process
  /\ starts \in 0 .. MaxStarts
  /\ indexes \subseteq Collections
  /\ accounts \in Nat
  /\ call \in [Calls -> Call \cup {NoCall}]

ProcessInit ==
  /\ \E e \in Envs : proc = Fresh(e, "exited")
  /\ starts = 0
  /\ indexes = {}
  /\ accounts = 0
  /\ call = [c \in Calls |-> NoCall]

-------------------------------------------------------------------------------
(* The start and the end of a process.                                       *)

Become(p) == proc' = p /\ UNCHANGED <<starts, indexes, accounts, call>>

At(where) == proc.main = where

\* The process is gone with its goroutines and connections: the calls fail.
Gone(how) ==
  /\ proc' = Fresh(proc.env, how)
  /\ call' = [c \in Calls |-> NoCall]

End(how) == Gone(how) /\ UNCHANGED <<starts, indexes, accounts>>

\* log.Fatal: os.Exit(1), the deferred calls do not run.
Fatal == End("fatal")

\* MONGODB_URI and one of JWT_SECRET and JWT_KEYS are required.
Start(e) ==
  /\ ~Up
  /\ starts < MaxStarts
  /\ starts' = starts + 1
  /\ proc' = Fresh(e, IF e.uri /\ (e.secret \/ e.keys # "unset")
                      THEN "connect" ELSE "fatal")
  /\ UNCHANGED <<indexes, accounts, call>>

\* db.New: mongo.Connect and a ping.
Connect ==
  /\ At("connect")
  /\ \/ Become([proc EXCEPT !.main = "indexUsers", !.db = TRUE])
     \/ Fatal

\* CreateOne on users, CreateMany on messages.  An index is made or was there
\* already; the unique one needs unique data.
MakeIndex(on) ==
  /\ on = "users" => accounts <= 1
  /\ indexes' = indexes \cup {on}
  /\ UNCHANGED <<starts, accounts>>

\* Fault: the error is not returned.
CreateIndexUnchecked(on, from, to) ==
  /\ At(from)
  /\ MakeIndex(on) \/ UNCHANGED <<starts, indexes, accounts>>
  /\ proc' = [proc EXCEPT !.main = to]
  /\ UNCHANGED call

\* An error, also one after the index was made, ends the process.
CreateIndex(on, from, to) ==
  /\ At(from)
  /\ \/ MakeIndex(on) /\ proc' = [proc EXCEPT !.main = to] /\ UNCHANGED call
     \/ MakeIndex(on) /\ Gone("fatal")
     \/ Fatal

\* The stores, the JWTManager of JWT_KEYS or JWT_SECRET, the LimiterStore.
BuildStores ==
  /\ At("build")
  /\ IF proc.env.keys = "malformed"
     THEN Fatal
     ELSE Become([proc EXCEPT !.main = "creds", !.limiter = TRUE])

LoadCerts == [proc EXCEPT !.main = "listen", !.tls = proc.env.certs]

\* Fault: REQUIRE_TLS is not looked at.
LoadCredsLenient ==
  /\ At("creds")
  /\ Become(LoadCerts) \/ (proc.env.certs /\ Fatal)

\* TLS credentials, which may not load; REQUIRE_TLS without them is fatal.
LoadCreds ==
  /\ At("creds")
  /\ \/ (proc.env.requireTLS => proc.env.certs) /\ Become(LoadCerts)
     \/ (proc.env.requireTLS \/ proc.env.certs) /\ Fatal

\* grpc.NewServer with the interceptors, RegisterChatServiceServer, net.Listen.
Listen ==
  /\ At("listen")
  /\ Become([proc EXCEPT !.main = "spawn", !.server = "listening"]) \/ Fatal

\* go func() { grpcServer.Serve(lis) }, then signal.Notify.
SpawnServe ==
  At("spawn") /\ Become([proc EXCEPT !.main = "notify", !.serve = "spawned"])

Notify == At("notify") /\ Become([proc EXCEPT !.main = "wait"])

\* Serve accepts connections, or returns ErrServerStopped if the server was
\* stopped first.
Serve ==
  /\ proc.serve = "spawned"
  /\ Become(IF proc.server = "listening"
            THEN [proc EXCEPT !.serve = "running", !.server = "serving"]
            ELSE [proc EXCEPT !.serve = "refused"])

\* Accepting connections fails for good, which is an error of Serve unless the
\* server is being stopped.  Connections that are open stay open.
ServeFails ==
  /\ proc.serve = "running"
  /\ proc.server = "serving"
  /\ Become([proc EXCEPT !.serve = "failed"])

\* The error of Serve is fatal, also when main was signalled in the meantime.
ServeFatal == proc.serve \in {"failed", "refused"} /\ Fatal

-------------------------------------------------------------------------------
(* Signals and shutdown.                                                     *)

\* SIGINT or SIGTERM kills the process before Notify.  Later it waits in the
\* channel; main reads the channel once, so what comes after that has no effect.
Signal ==
  \/ proc.main \in Starting /\ End("killed")
  \/ At("wait") /\ Become([proc EXCEPT !.signal = TRUE])

Kill == Up /\ End("killed")

\* <-stop; GracefulStop closes the listener and announces to the connections
\* that the server goes away.
GracefulStop ==
  /\ At("wait")
  /\ proc.signal
  /\ Become([proc EXCEPT !.main = "stopping", !.signal = FALSE,
                         !.server = "draining"])

Stopped == [proc EXCEPT !.main = "stopLimiter", !.server = "stopped"]

\* Fault: grpcServer.Stop without waiting.
StopAtOnce == At("stopping") /\ Become(Stopped)

\* The connections have answered the announcement, or a timer ran out: from the
\* final GOAWAY on they take no calls.  One step for all connections: Unavailable
\* has the calls on those that are first.
FinalGoAway ==
  /\ proc.server = "draining"
  /\ Become([proc EXCEPT !.server = "goaway"])

\* GracefulStop returns when every call that was accepted is answered.
GracefulStopReturns ==
  /\ proc.server = "goaway"
  /\ \A c \in Calls : ~Active(c)
  /\ Become(Stopped)

\* The deferred calls, the last one first: limiterStore.Stop ...
StopLimiter ==
  /\ At("stopLimiter")
  /\ Become([proc EXCEPT !.main = "closeDB", !.limiter = FALSE])

\* ... and dbClient.Close; then main returns.
CloseDB == At("closeDB") /\ End("exited")

\* A step of main, the server's GOAWAY inside GracefulStop included.
MainStep ==
  \/ Connect
  \/ CreateIndex("users", "indexUsers", "indexMessages")
  \/ CreateIndex("messages", "indexMessages", "build")
  \/ BuildStores
  \/ LoadCreds
  \/ Listen
  \/ SpawnServe
  \/ Notify
  \/ GracefulStop
  \/ FinalGoAway
  \/ GracefulStopReturns
  \/ StopLimiter
  \/ CloseDB

-------------------------------------------------------------------------------
(* A call, from the stub to the handler.                                     *)

Update(c, r) ==
  call' = [call EXCEPT ![c] = r] /\ UNCHANGED <<proc, starts, indexes, accounts>>

Goto(c, at) == Update(c, [call[c] EXCEPT !.at = at])
Answer(c)   == Update(c, NoCall)   \* the client may make the next call

Pending(c) == call[c].at # "idle"

\* The stub: Invoke sends headers and message, NewStream the headers only.
Invoke(c, m, t) ==
  /\ call[c] = NoCall
  /\ Update(c, [method |-> m, token |-> t, at |-> "sent", client |-> "here",
                msg |-> m \in Unary, granted |-> FALSE, claims |-> FALSE])

\* SendMsg and CloseSend, in the stubs of ListChats and GetHistory.
SendRequest(c) ==
  /\ Pending(c)
  /\ call[c].method \in ServerStreaming
  /\ call[c].client = "here"
  /\ ~call[c].msg
  /\ Update(c, [call[c] EXCEPT !.msg = TRUE])

\* The client closes its side of a ChatStream, or goes away.
Leave(c, how) ==
  /\ Pending(c)
  /\ call[c].client = "here"
  /\ how = "closed" => call[c].method \in Bidirectional
  /\ Update(c, [call[c] EXCEPT !.client = how])

\* Unary calls are decoded first, streams pass their interceptor first.  Calls
\* on open connections are taken until the final GOAWAY.
Accept(c) ==
  /\ call[c].at = "sent"
  /\ proc.serve \in {"running", "failed"}
  /\ proc.server \in {"serving", "draining"}
  /\ Goto(c, IF call[c].method \in Unary THEN "decode" ELSE "auth")

\* No listener, or a server that is being stopped.
Unavailable(c) ==
  /\ call[c].at = "sent"
  /\ proc.server \notin {"listening", "serving"} \/ proc.serve = "failed"
  /\ Answer(c)

\* dec(in), or stream.RecvMsg(m): the message, or an error.
Decode(c) ==
  /\ call[c].at = "decode"
  /\ \/ call[c].msg /\ Goto(c, IF call[c].method \in Unary THEN "limit" ELSE "handler")
     \/ (call[c].msg \/ call[c].client = "gone") /\ Answer(c)

\* RateLimitUnaryInterceptor: the next interceptor, or ResourceExhausted.
Limit(c) ==
  /\ call[c].at = "limit"
  /\ IF call[c].method \in Limited
     THEN \/ Update(c, [call[c] EXCEPT !.at = "auth", !.granted = TRUE])
          \/ Answer(c)
     ELSE Goto(c, "auth")

\* Fault: every request is read behind the interceptor, a unary one once more.
AfterAuthDecode(c) == "decode"

AfterAuth(c) == IF call[c].method \in ServerStreaming THEN "decode" ELSE "handler"

\* Fault: only the unary chain has an interceptor.
AuthenticateUnary(c) ==
  /\ call[c].at = "auth"
  /\ Goto(c, AfterAuth(c))

\* authUnaryInterceptor and authStreamInterceptor: the handler with the claims
\* of a verified token, or Unauthenticated.
Authenticate(c) ==
  /\ call[c].at = "auth"
  /\ CASE call[c].method \in Allowed -> Goto(c, AfterAuth(c))
       [] call[c].method \notin Allowed /\ call[c].token = "good" ->
            Update(c, [call[c] EXCEPT !.at = AfterAuth(c), !.claims = TRUE])
       [] OTHER -> Answer(c)

\* Register: the insert, refused for a duplicate if the unique index exists; an
\* error may come after it.
HandleRegister(c) ==
  /\ Handling(c)
  /\ call[c].method = "Register"
  /\ call' = [call EXCEPT ![c] = NoCall]
  /\ \/ ("users" \in indexes => accounts = 0) /\ accounts' = accounts + 1
     \/ UNCHANGED accounts
  /\ UNCHANGED <<proc, starts, indexes>>

HandleLogin(c) ==
  /\ Handling(c)
  /\ call[c].method = "Login"
  /\ Answer(c)

\* ListChats and GetHistory: the query, and the end of the loop of Sends.
HandleRead(c) ==
  /\ Handling(c)
  /\ call[c].method \in ServerStreaming
  /\ Answer(c)

\* Fault: only io.EOF ends the loop of the handler.
HandleStreamEOF(c) ==
  /\ Handling(c)
  /\ call[c].method = "ChatStream"
  /\ call[c].client = "closed"
  /\ Answer(c)

\* ChatStream returns when its client is done or gone, or at an error.
HandleStream(c) ==
  /\ Handling(c)
  /\ call[c].method = "ChatStream"
  /\ Answer(c)

\* The calls whose clients the Sends of a handler go to: a ChatStream pushes to
\* the other ones.
Receivers(c) ==
  IF call[c].method \in Bidirectional
  THEN {d \in Calls : call[d].at \in InHandler /\ call[d].method \in Bidirectional}
  ELSE {c}

\* stream.Send waits for room in the window of a client ...
SendWaits(c) ==
  /\ Handling(c)
  /\ call[c].method \notin Unary
  /\ \E d \in Receivers(c) : call[d].client # "gone"
  /\ Goto(c, "sending")

\* ... and goes on when the client has read, or fails as it is gone.
SendGoesOn(c) == call[c].at = "sending" /\ Goto(c, "handler")

\* A step of the server that does not wait for a client.
ServerStep(c) ==
  \/ Accept(c)
  \/ Unavailable(c)
  \/ Decode(c)
  \/ Limit(c)
  \/ Authenticate(c)
  \/ HandleRegister(c)
  \/ HandleLogin(c)
  \/ SendGoesOn(c) /\ \A d \in Receivers(c) : call[d].client = "gone"

\* A step of a streaming handler, whichever clients it waits for.
HandlerStep(c) ==
  \/ HandleRead(c)
  \/ HandleStream(c)
  \/ SendWaits(c)
  \/ SendGoesOn(c)

\* The loop of a streaming handler comes to its end, that of a ChatStream since
\* its client closed its side or is gone.
LoopEnds(c) == HandleRead(c) \/ (HandleStream(c) /\ call[c].client # "here")

\* Who logs in shows no token (nobody looks at one there).
ClientStep(c) ==
  \/ \E m \in Methods, t \in Tokens : (m \in Allowed => t = "bad") /\ Invoke(c, m, t)
  \/ SendRequest(c)
  \/ \E how \in {"closed", "gone"} : Leave(c, how)

ProcessNext ==
  \/ \E e \in Envs : Start(e)
  \/ MainStep
  \/ Serve
  \/ ServeFails
  \/ ServeFatal
  \/ Signal
  \/ Kill
  \/ \E c \in Calls : ServerStep(c) \/ HandlerStep(c) \/ ClientStep(c)

ProcessSpec == ProcessInit /\ [][ProcessNext]_vars

\* Goroutines are scheduled, the database answers or fails, and the announcement
\* of GracefulStop is answered or timed out.  A handler sends finitely many
\* messages, so that its loop does not go on by Sends that wait for ever and again.
ProcessFairSpec ==
  /\ ProcessSpec
  /\ WF_vars(MainStep)
  /\ WF_vars(Serve \/ ServeFatal)
  /\ \A c \in Calls : WF_vars(ServerStep(c)) /\ SF_vars(LoopEnds(c))

-------------------------------------------------------------------------------
(* Properties.                                                               *)

\* The inductive invariant: types, what main has when it is at a statement, and
\* what a call has passed at a stage of its way.
Listening == {"spawn", "notify"} \cup Running
HasCreds  == {"listen"} \cup Listening
HasStores == {"creds"} \cup HasCreds
HasUsers  == {"indexMessages", "build"} \cup HasStores

MainInv ==
  /\ Up => proc.env.uri
  /\ proc.db <=> proc.main \in {"indexUsers"} \cup HasUsers
  /\ proc.main \in HasUsers => "users" \in indexes
  /\ proc.main \in {"build"} \cup HasStores => "messages" \in indexes
  /\ proc.limiter <=> proc.main \in HasStores \ {"closeDB"}
  /\ proc.main \in HasStores => proc.env.keys # "malformed"
  /\ proc.main \in HasCreds => (proc.env.requireTLS => proc.tls)

ServerInv ==
  /\ proc.server = "none" <=> proc.main \notin Listening
  /\ proc.server \in {"listening", "serving"} <=> proc.main \in {"spawn", "notify", "wait"}
  /\ proc.server \in {"draining", "goaway"} <=> proc.main = "stopping"
  /\ proc.serve # "none" => proc.main \in Listening \ {"spawn"}
  /\ proc.server = "serving" => proc.serve \in {"running", "failed"}

Passed(r) ==
  /\ r.at = "limit" => r.method \in Unary
  /\ r.at = "auth" /\ r.method \in Unary => r.granted
  /\ r.at \in InHandler \/ (r.at = "decode" /\ r.method \notin Unary)
       => \/ r.claims /\ r.token = "good"
          \/ r.method \in Allowed /\ r.granted

HasServed(p) ==
  /\ p.server \in {"serving", "draining", "goaway"}
  /\ p.serve \in {"running", "failed"}

CallInv(c) ==
  /\ Active(c) => HasServed(proc)
  /\ Passed(call[c])

ProcessInv ==
  /\ ProcessTypeOK
  /\ MainInv
  /\ ServerInv
  /\ accounts <= IF "users" \in indexes THEN 1 ELSE 0
  /\ \A c \in Calls : CallInv(c)

\* Whoever serves has finished the start-up: both indexes exist, malformed keys
\* were refused, and REQUIRE_TLS was honoured, whichever earlier process, with
\* whatever environment, failed half-way through.
ServesAsConfigured ==
  proc.server # "none" =>
    /\ indexes = Collections
    /\ proc.env.uri /\ proc.env.keys # "malformed"
    /\ proc.env.requireTLS => proc.tls

\* An e-mail has one account, although only the index keeps Register calls from
\* inserting twice, and the index is made by a start-up that may fail.
OneAccount == accounts <= 1

\* A call that was accepted has the database and the limiter store until it is
\* answered: the deferred clean-up comes after GracefulStop, which waits.
CallsHaveStores ==
  \A c \in Calls : Active(c) => proc.db /\ proc.limiter /\ Up

\* No handler runs unchecked: with the claims of a verified token, or, for the
\* methods that need none, past the rate limiter.  The lists of main.go and
\* interceptors.go and the kinds of the descriptor have to agree for that.
NoUncheckedHandler ==
  \A c \in Calls : call[c].at \in InHandler =>
    \/ call[c].claims /\ call[c].token = "good"
    \/ call[c].method \in Allowed /\ call[c].granted

\* The stages that a call in the server has yet to leave, on the way of its kind.
StagesLeft(r) ==
  CASE r.at \in InHandler -> 1
    [] r.at = "limit"   -> 3
    [] r.at = "auth"    -> IF r.method \in ServerStreaming THEN 3 ELSE 2
    [] r.at = "decode"  -> IF r.method \in Unary THEN 4 ELSE 2
    [] OTHER            -> 0

\* From the final GOAWAY on, what GracefulStop waits for only becomes less:
\* whoever is in the server was in it before with the same call, never further
\* from its answer, on each of the three ways and although clients go on calling.
\* So a drain takes a bounded number of stages; ShutdownEnds says that they pass.
DrainOnlyShrinks ==
  [][proc.server = "goaway" =>
       \A c \in Calls : Active(c)' =>
         /\ Active(c)
         /\ call'[c].method = call[c].method
         /\ StagesLeft(call'[c]) <= StagesLeft(call[c])]_vars

\* The server waits for what only a client can do: send a request, read what is
\* sent to it, close its side of a ChatStream, or go away.
WaitsForClient(c) ==
  \/ call[c].at = "decode" /\ ~call[c].msg /\ call[c].client = "here"
  \/ call[c].at = "sending"
  \/ Handling(c) /\ call[c].method = "ChatStream" /\ call[c].client = "here"

\* After a signal the process ends, whether it comes before Serve, with calls on
\* their way or during a failure of Serve; unless a client stays: one with an open
\* ChatStream, or that never sends its request, or does not read an answer.
ShutdownEnds ==
  (\A c \in Calls : []<>~WaitsForClient(c)) => (proc.signal ~> ~Up)
===============================================================================
