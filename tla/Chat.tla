--------------------------------- MODULE Chat ---------------------------------
(*****************************************************************************)
(* The ChatStream handler (cmd/api/handlers.go) of every open stream, the    *)
(* hub they share, and the two collections they use.                         *)
(*                                                                           *)
(* A handler is one goroutine: it registers its stream, then for each        *)
(* request checks that the recipient exists, saves the message, acknowledges *)
(* it on its own stream and hands it to the hub; it returns at end of input  *)
(* or at the first error, and the deferred Unregister runs.  The collections *)
(* outlive the process; the hub and the streams do not.                      *)
(*                                                                           *)
(* A response of the hub is a message here: Resps is 1 .. MaxMsgs, in the    *)
(* order the requests were received.  Operators marked "Fault" are as in Hub. *)
(*****************************************************************************)
EXTENDS Hub

CONSTANTS
  Email,   \* normalize.Email, on Addrs
  MaxMsgs, \* bound on the requests received
  NoReq,   \* "no request": the handler is not working on one
  NoDoc    \* "no document"

Emails == {Email[a] : a \in Addrs}

\* A request: its number and to_email.
Request == [id : Resps, addr : Addrs]

\* from_email and to_email are the document's; src, addr and owed are history:
\* the sender's session, to_email as the request had it, and the sessions of the
\* recipient that were open when the document was inserted.
Doc == [src : Sessions, addr : Addrs, from : Emails, to : Emails,
        owed : SUBSET Sessions]

\* normalize.Email is idempotent; the address of a token is normalized, since
\* the handlers issue tokens for the e-mail of a stored user.
ASSUME ChatAssumption ==
  /\ Email \in [Addrs -> Addrs]
  /\ \A a \in Addrs : Email[Email[a]] = Email[a]
  /\ Owner \in [Sessions -> Emails]
  /\ MaxMsgs \in Nat
  /\ Resps = 1 .. MaxMsgs
  /\ NoReq \notin Request /\ NoDoc \notin Doc

VARIABLES
  users,   \* the users collection: the normalized e-mails in it
  msgs,    \* the messages collection: message -> document, or NoDoc
  step,    \* where the handler of each session is
  req,     \* the request it is working on
  issued   \* requests received so far

chatVars == <<hubVars, users, msgs, step, req, issued>>

Steps == {"new", "recv", "verify", "save", "ack", "push", "return", "ended"}

\* Type invariant: in particular, stored documents have normalized addresses.
ChatTypeOK ==
  /\ HubTypeOK
  /\ users \subseteq Emails
  /\ msgs \in [Resps -> Doc \cup {NoDoc}]
  /\ step \in [Sessions -> Steps]
  /\ req \in [Sessions -> Request \cup {NoReq}]
  /\ issued \in 0 .. MaxMsgs

ChatInit ==
  /\ HubInit
  /\ users \in SUBSET Emails
  /\ msgs = [m \in Resps |-> NoDoc]
  /\ step = [s \in Sessions |-> "new"]
  /\ req = [s \in Sessions |-> NoReq]
  /\ issued = 0

-------------------------------------------------------------------------------
(* The handler.                                                              *)

At(s, where) == Running /\ step[s] = where
Goto(s, where) == step' = [step EXCEPT ![s] = where]

\* return: the request is dropped and the deferred Unregister is next.
Return(s) ==
  /\ Goto(s, "return")
  /\ req' = [req EXCEPT ![s] = NoReq]

\* The interceptor let a user's token through; the handler registers the stream.
OpenStream(s) ==
  /\ At(s, "new")
  /\ Owner[s] \in users
  /\ Register(s)
  /\ Goto(s, "recv")
  /\ UNCHANGED <<grpc, frame, users, msgs, req, issued>>

\* Fault: the handler does not wait for SendToUser.
RecvRequestAsync(s, a) ==
  /\ At(s, "recv")
  /\ issued < MaxMsgs
  /\ issued' = issued + 1
  /\ req' = [req EXCEPT ![s] = [id |-> issued', addr |-> a]]
  /\ Goto(s, "verify")
  /\ UNCHANGED <<hubVars, users, msgs>>

\* stream.Recv() returns a request, maybe one sent before the client went away.
\* The handler is back here only when SendToUser has returned.
RecvRequest(s, a) ==
  /\ At(s, "recv")
  /\ frame[s].pc = "idle"
  /\ issued < MaxMsgs
  /\ issued' = issued + 1
  /\ req' = [req EXCEPT ![s] = [id |-> issued', addr |-> a]]
  /\ Goto(s, "verify")
  /\ UNCHANGED <<hubVars, users, msgs>>

\* stream.Recv() returns io.EOF, the client having closed its side, or an error,
\* the stream being broken: the handler returns.
RecvEnd(s) ==
  /\ At(s, "recv")
  /\ frame[s].pc = "idle"
  /\ Return(s)
  /\ UNCHANGED <<hubVars, users, msgs, issued>>

\* UsersStore.UserExists: a user document with the normalized address.
UserExists(a) == Email[a] \in users

\* s.users.UserExists(req.GetToEmail()): no such user or any error ends the RPC.
VerifyRecipient(s) ==
  /\ At(s, "verify")
  /\ \/ /\ UserExists(req[s].addr)
        /\ Goto(s, "save")
        /\ UNCHANGED req
     \/ Return(s)
  /\ UNCHANGED <<hubVars, users, msgs, issued>>

\* Fault: the addresses are stored as they came.
InsertMessageRaw(s) ==
  LET a == req[s].addr
  IN  msgs' = [msgs EXCEPT ![req[s].id] =
        [src |-> s, addr |-> a, from |-> Owner[s], to |-> a,
         owed |-> {t \in open : Owner[t] = Email[a]}]]

\* The insert of SaveMessage, which normalizes both addresses.
InsertMessage(s) ==
  LET a == req[s].addr
  IN  msgs' = [msgs EXCEPT ![req[s].id] =
        [src |-> s, addr |-> a, from |-> Email[Owner[s]], to |-> Email[a],
         owed |-> {t \in open : Owner[t] = Email[a]}]]

\* Fault: the error of SaveMessage is ignored.
SaveMessageUnchecked(s) ==
  /\ At(s, "save")
  /\ InsertMessage(s) \/ UNCHANGED msgs
  /\ Goto(s, "ack")
  /\ UNCHANGED <<hubVars, users, req, issued>>

\* s.msgs.SaveMessage: it may fail, and it may fail after the insert was done
\* (the reply was lost, or the stream's context was cancelled).
SaveMessage(s) ==
  /\ At(s, "save")
  /\ \/ InsertMessage(s) /\ Goto(s, "ack") /\ UNCHANGED req
     \/ InsertMessage(s) /\ Return(s)
     \/ UNCHANGED msgs /\ Return(s)
  /\ UNCHANGED <<hubVars, users, issued>>

\* Fault: an acknowledged message is not handed to the hub.
SendAckOnly(s) ==
  /\ At(s, "ack")
  /\ \/ /\ Accept(s, "ack", req[s].id)
        /\ Goto(s, "recv")
        /\ req' = [req EXCEPT ![s] = NoReq]
     \/ Refuse(s) /\ Return(s)
  /\ UNCHANGED <<registry, connID, open, frame, proc, users, msgs, issued>>

\* stream.Send(resp) to the sender: a failure ends the RPC.
SendAck(s) ==
  /\ At(s, "ack")
  /\ \/ Accept(s, "ack", req[s].id) /\ Goto(s, "push") /\ UNCHANGED req
     \/ Refuse(s) /\ Return(s)
  /\ UNCHANGED <<registry, connID, open, frame, proc, users, msgs, issued>>

\* s.hub.SendToUser(req.GetToEmail(), resp): the address as the client wrote it.
\* Its error is logged, and the handler goes back to Recv.
PushMessage(s) ==
  /\ At(s, "push")
  /\ SendToUserLookup(s, req[s].addr, req[s].id)
  /\ Goto(s, "recv")
  /\ req' = [req EXCEPT ![s] = NoReq]
  /\ UNCHANGED <<users, msgs, issued>>

\* Fault: the deferred Unregister is missing.
CloseStreamOnly(s) ==
  /\ At(s, "return")
  /\ Goto(s, "ended")
  /\ UNCHANGED <<hubVars, users, msgs, req, issued>>

\* The deferred s.hub.Unregister(claims.Email, connID).
CloseStream(s) ==
  /\ At(s, "return")
  /\ DeferredUnregister(s)
  /\ Goto(s, "ended")
  /\ UNCHANGED <<grpc, frame, users, msgs, req, issued>>

\* A step that the handler of s takes without waiting for its client.
HandlerStep(s) ==
  \/ VerifyRecipient(s)
  \/ SaveMessage(s)
  \/ SendAck(s)
  \/ PushMessage(s)
  \/ CloseStream(s)
  \/ SendToUserStep(s) /\ UNCHANGED <<users, msgs, step, req, issued>>

-------------------------------------------------------------------------------
(* The environment.                                                          *)

\* Another RPC (Register) stores a user.
CreateUser(e) ==
  /\ Running
  /\ e \notin users
  /\ users' = users \cup {e}
  /\ UNCHANGED <<hubVars, msgs, step, req, issued>>

\* Clients and connections: read, or be lost; gRPC ends the RPC of a handler
\* that returned.
StreamStep(s) ==
  /\ ClientRead(s) \/ Break(s) \/ EndRPC(s)
  /\ UNCHANGED <<users, msgs, step, req, issued>>

\* The process is killed, whatever its handlers are doing.
Kill ==
  /\ Running
  /\ proc' = "killed"
  /\ UNCHANGED <<registry, connID, open, grpc, frame, users, msgs, step, req,
                 issued>>

\* A new process after a kill or an abort: an empty hub, the same collections;
\* every stream of the old one is over.
Restart ==
  LET over == {s \in Sessions : step[s] # "new"}
  IN  /\ ~Running
      /\ proc' = "running"
      /\ streams' = [a \in Addrs |-> NoMap]
      /\ conns' = [m \in Ids |-> {}]
      /\ stream' = [id \in Ids |-> NoSession]
      /\ nextID' = 0
      /\ connID' = [s \in Sessions |-> 0]
      /\ open' = {}
      /\ alive' = alive \ over
      /\ frame' = [g \in Sessions |-> Idle]
      /\ step' = [s \in Sessions |-> IF s \in over THEN "ended" ELSE "new"]
      /\ req' = [s \in Sessions |-> NoReq]
      /\ UNCHANGED <<out, read, users, msgs, issued>>

ChatNext ==
  \/ \E e \in Emails : CreateUser(e)
  \/ \E s \in Sessions :
       \/ OpenStream(s)
       \/ \E a \in Addrs : RecvRequest(s, a)
       \/ RecvEnd(s)
       \/ HandlerStep(s)
       \/ StreamStep(s)

ChatSpec == ChatInit /\ [][ChatNext]_chatVars

ChatCrashSpec == ChatInit /\ [][ChatNext \/ Kill \/ Restart]_chatVars

\* Goroutines are scheduled, the database answers or fails within its timeouts,
\* a handler whose stream is broken learns it from Recv, and clients read.
ChatFairSpec ==
  /\ ChatSpec
  /\ \A s \in Sessions :
       /\ WF_chatVars(HandlerStep(s))
       /\ WF_chatVars(s \notin alive /\ RecvEnd(s))
       /\ WF_chatVars(StreamStep(s) /\ read' # read)

-------------------------------------------------------------------------------
(* Properties.                                                               *)

\* Took(s, via, m): stream s has taken message m as an "ack" or from the "hub".
Took(s, via, m) ==
  \E i \in 1 .. Len(out[s]) : out[s][i] = [via |-> via, resp |-> m]

Acked(m) == msgs[m] # NoDoc /\ Took(msgs[m].src, "ack", m)

\* The sender's handler still has the push of m before it.
PushPending(m) ==
  LET s == msgs[m].src
  IN  \/ step[s] = "push" /\ req[s].id = m
      \/ frame[s].pc # "idle" /\ frame[s].resp = m

Missed(m) ==
  {s \in msgs[m].owed \cap open \cap alive : ~Got(s, m)}

\* No acknowledged message is missed: a session of the recipient that was open
\* when the message was stored, and stayed open and intact, has the message or
\* is about to get it, whatever streams came, went or failed meanwhile.
NoMissedPush ==
  \A m \in Resps :
    Acked(m) /\ msgs[m].addr \in Emails /\ Missed(m) # {} => PushPending(m)

\* Each session has seen what its handler acknowledged as the contract
\* of Mailbox says: stored, acknowledged and pushed in that order, in the
\* sender's order, once, to the recipient only, across crashes too.
M == INSTANCE Mailbox
MailboxSpec == M!MailSpec

\* The handlers use the hub as Presence says: the streams and pushes of every
\* process are those of one set per user, a handler neither acknowledges nor leaves
\* while it is in a push, and no stream outlives its process.
PresenceCrashSpec == P!PresenceCrashSpec

\* What a client can tell from its stream alone: acknowledgements, and the pushes
\* of any one sender, come in the order they were sent and none twice, a push of
\* its own only after the acknowledgement, over reconnects of everybody else.
InOrder ==
  \A s \in Sessions : \A i, j \in 1 .. Len(out[s]) :
    LET x == out[s][i]
        y == out[s][j]
    IN  /\ i < j /\ x.via = y.via /\ (x.via = "hub" => msgs[x.resp].src = msgs[y.resp].src)
             => x.resp < y.resp
        /\ x = [via |-> "hub", resp |-> y.resp] /\ y.via = "ack" => j < i

\* The inductive invariant behind NoMissedPush and MailboxSpec.
\* Where a handler is, what it works on and what SendToUser does for it agree.
HandlerInv(s) ==
  /\ step[s] \in {"verify", "save", "ack", "push"} <=> req[s] # NoReq
  /\ s \in open <=> step[s] \notin {"new", "ended"}
  /\ step[s] = "new" => connID[s] = 0
  /\ req[s] # NoReq =>
       /\ req[s].id <= issued
       /\ \A t \in Sessions \ {s} : req[t] # NoReq => req[t].id # req[s].id
  /\ step[s] \in {"verify", "save"} => msgs[req[s].id] = NoDoc
  /\ step[s] \in {"ack", "push"} =>
       /\ msgs[req[s].id] # NoDoc
       /\ msgs[req[s].id].src = s
       /\ msgs[req[s].id].addr = req[s].addr
  /\ step[s] = "push" => Took(s, "ack", req[s].id)
  /\ frame[s].pc # "idle" =>
       /\ step[s] = "recv"
       /\ msgs[frame[s].resp] # NoDoc
       /\ msgs[frame[s].resp].src = s
       /\ msgs[frame[s].resp].addr = frame[s].addr
       /\ Took(s, "ack", frame[s].resp)

\* A document is of a request that was received, and owed to streams of its
\* recipient that had been opened.
DocInv(m) ==
  msgs[m] # NoDoc =>
    /\ m <= issued
    /\ msgs[m].to = Email[msgs[m].addr]
    /\ \A t \in msgs[m].owed : step[t] # "new" /\ Owner[t] = msgs[m].to

\* The streams that an activation has already sent to.
Served(f) == {stream[id] : id \in IF f.pc = "send" THEN f.seen \ {f.cur} ELSE f.seen}

\* A stream took what was stored: of each sender's messages those before the
\* one in progress, and that one only if the activation has served the stream.
AckedInOrder(s, m) ==
  Took(s, "ack", m) =>
    /\ msgs[m] # NoDoc
    /\ msgs[m].src = s
    /\ step[s] \in {"verify", "save", "ack"} => m < req[s].id

PushedInOrder(s, m) ==
  Got(s, m) =>
    /\ msgs[m] # NoDoc
    /\ LET g == msgs[m].src
       IN  /\ req[g] # NoReq => m < req[g].id
           /\ frame[g].pc # "idle" =>
                m < frame[g].resp \/ (m = frame[g].resp /\ s \in Served(frame[g]))

\* What a stream is owed it has, or is not acknowledged, or the activation for
\* it is about to start or still has to reach the stream's connection.
Reaches(f, m, t) ==
  /\ f.pc # "idle"
  /\ f.resp = m
  /\ connID[t] \in conns[f.map]
  /\ f.pc # "len" => connID[t] \in f.must

OwedPending(m, t) ==
  msgs[m] # NoDoc =>
    (t \in msgs[m].owed \cap open \cap alive /\ msgs[m].addr \in Emails =>
      LET s == msgs[m].src
      IN  \/ Got(t, m)
          \/ ~Took(s, "ack", m)
          \/ step[s] = "push" /\ req[s].id = m
          \/ Reaches(frame[s], m, t))

ChatInv ==
  /\ ChatTypeOK
  /\ HubInv
  /\ \A s \in Sessions : HandlerInv(s)
  /\ \A m \in Resps : DocInv(m)
  /\ \A s \in Sessions, m \in Resps :
       AckedInOrder(s, m) /\ PushedInOrder(s, m) /\ OwedPending(m, s)

\* A broken stream does not stay in the hub for ever: its handler gets out of
\* whatever it is doing, pushes to other streams included, and unregisters it.
GoneClientsAreReaped ==
  \A s \in Sessions : s \in open /\ s \notin alive ~> s \notin open \/ ~Running

\* handlers.go delivers "the saved message to the recipient's active streams",
\* and messages.go and users.go treat every spelling of an address as the same
\* user: NoMissedPush for every spelling of to_email.
NoMissedPushAnyCase ==
  \A m \in Resps : Acked(m) /\ Missed(m) # {} => PushPending(m)
===============================================================================
