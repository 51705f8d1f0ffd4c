---------------------------------- MODULE Hub ----------------------------------
(*****************************************************************************)
(* ConnectionHub (cmd/api/hub.go): the registry that maps an e-mail address  *)
(* to the open ChatStream connections of that user, and SendToUser, which    *)
(* pushes a response to all of them.                                         *)
(*                                                                           *)
(* A session is one ChatStream RPC: the StreamSender that the hub stores and *)
(* the handler goroutine that registers it, calls SendToUser for the         *)
(* messages it receives, and unregisters it when it returns.                 *)
(*                                                                           *)
(* Register and Unregister run under h.mu and are one step each.  SendToUser *)
(* holds the read lock only while it fetches the inner map: it then ranges   *)
(* over that map, a shared reference, without a lock, so every iteration and *)
(* every Send is a step of its own.  The Go runtime aborts the process when  *)
(* a map write meets a map iteration; that is one of the two outcomes of a   *)
(* write to a map some goroutine is ranging over.                            *)
(*                                                                           *)
(* An operator named after another one and a fault (RegisterFreshMap) is     *)
(* that operation with a plausible bug.  No specification uses it: it is     *)
(* there to show that the properties notice the bug.                         *)
(*****************************************************************************)
EXTENDS Naturals, Sequences, FiniteSets

CONSTANTS
  Addrs,      \* strings used as e-mail addresses: the keys of h.streams
  Sessions,   \* the ChatStream RPCs
  Owner,      \* Owner[s]: the address in the claims of session s
  Resps,      \* the ChatStreamResponse values handed to SendToUser
  MaxConns,   \* bound on h.nextID
  Window,     \* responses a stream takes before Send blocks (gRPC flow control)
  NoSession   \* "no stream": the value of an absent entry of an inner map

ASSUME HubAssumption ==
  /\ Owner \in [Sessions -> Addrs]
  /\ MaxConns \in Nat
  /\ Window \in Nat \ {0}
  /\ NoSession \notin Sessions

Ids   == 1 .. MaxConns
NoMap == 0

VARIABLES
  streams,  \* h.streams: address -> name of its inner map, or NoMap
  conns,    \* the inner maps: name -> set of connection ids it holds
  stream,   \* connection id -> the StreamSender stored under it
  nextID,   \* h.nextID
  connID,   \* the handler's connID, 0 before Register returned
  open,     \* sessions whose handler is between Register and Unregister
  alive,    \* sessions whose stream is intact: a Send on it does not fail
  out,      \* what the Sends of each stream have accepted, in order
  read,     \* how much of out[s] the client of s has consumed
  frame,    \* frame[g]: the activation of SendToUser that g's handler runs
  proc      \* the server process: running, aborted by a map race, or killed

Running == proc = "running"

registry == <<streams, conns, stream, nextID>>
grpc     == <<alive, out, read>>
hubVars  == <<streams, conns, stream, nextID, connID, open, alive, out, read,
              frame, proc>>

(* An inner map is a heap object.  It is created by the Register that finds  *)
(* no map for the address, so it is named after the id given out there, and  *)
(* keeps that name for goroutines that still range over it after h.streams   *)
(* has dropped it.                                                           *)
MapNames == Ids \cup {NoMap}

Sent  == [via : {"ack", "hub"}, resp : Resps]
Idle  == [pc |-> "idle"]
Frame == [pc : {"len", "range", "send", "purge"}, addr : Addrs, resp : Resps,
          map : Ids, must : SUBSET Ids, seen : SUBSET Ids, cur : Ids \cup {0},
          failed : SUBSET Ids]

\* Type invariant: in particular, an activation of SendToUser always has a map.
HubTypeOK ==
  /\ streams \in [Addrs -> MapNames]
  /\ conns \in [Ids -> SUBSET Ids]
  /\ stream \in [Ids -> Sessions \cup {NoSession}]
  /\ nextID \in 0 .. MaxConns
  /\ connID \in [Sessions -> 0 .. MaxConns]
  /\ open \subseteq Sessions
  /\ alive \subseteq Sessions
  /\ out \in [Sessions -> Seq(Sent)]
  /\ read \in [Sessions -> Nat]
  /\ frame \in [Sessions -> {Idle} \cup Frame]
  /\ proc \in {"running", "mapRace", "killed"}

HubInit ==
  /\ streams = [a \in Addrs |-> NoMap]
  /\ conns = [m \in Ids |-> {}]
  /\ stream = [id \in Ids |-> NoSession]
  /\ nextID = 0
  /\ connID = [s \in Sessions |-> 0]
  /\ open = {}
  /\ alive = Sessions
  /\ out = [s \in Sessions |-> <<>>]
  /\ read = [s \in Sessions |-> 0]
  /\ frame = [g \in Sessions |-> Idle]
  /\ Running

-------------------------------------------------------------------------------
(* gRPC streams, as the hub and the handlers use them.                        *)

\* Send blocks while the client has a full window of unread responses.
HasRoom(s) == Len(out[s]) - read[s] < Window

\* stream.Send succeeded: the response follows the earlier ones.
Accept(s, via, r) ==
  /\ s \in alive
  /\ HasRoom(s)
  /\ out' = [out EXCEPT ![s] = Append(@, [via |-> via, resp |-> r])]
  /\ UNCHANGED <<alive, read>>

\* stream.Send failed: the stream is broken, or its RPC is over.
Refuse(s) ==
  /\ s \notin alive
  /\ UNCHANGED grpc

\* The connection of s is lost or its RPC is cancelled.
Break(s) ==
  /\ Running
  /\ s \in alive
  /\ s \in open
  /\ alive' = alive \ {s}
  /\ UNCHANGED <<registry, connID, open, out, read, frame, proc>>

\* The client consumes what is buffered.  An earlier read changes nothing that
\* a server step can see, so only the read that reopens a full window is a step.
ClientRead(s) ==
  /\ Running
  /\ s \in alive
  /\ ~HasRoom(s)
  /\ read' = [read EXCEPT ![s] = Len(out[s])]
  /\ UNCHANGED <<registry, connID, open, alive, out, frame, proc>>

-------------------------------------------------------------------------------
(* Register and Unregister: critical sections under h.mu.                     *)

Ranging(m) == \E g \in Sessions : frame[g].pc = "range" /\ frame[g].map = m

\* A write to inner map m: "concurrent map iteration and map write" is fatal.
MapWrite(m) ==
  \/ proc' = "running"
  \/ Ranging(m) /\ proc' = "mapRace"

\* The id of the new connection goes into inner map m.
AddConnection(s, m) ==
  LET id == nextID + 1
  IN  /\ nextID < MaxConns
      /\ nextID' = id
      /\ streams' = [streams EXCEPT ![Owner[s]] = m]
      /\ conns' = [conns EXCEPT ![m] = @ \cup {id}]
      /\ stream' = [stream EXCEPT ![id] = s]
      /\ connID' = [connID EXCEPT ![s] = id]
      /\ open' = open \cup {s}
      /\ MapWrite(m)

\* Fault: a new inner map for every connection.
RegisterFreshMap(s) == AddConnection(s, nextID + 1)

\* h.Register(claims.Email, stream), and the handler keeping its result.
Register(s) ==
  LET m == streams[Owner[s]]
  IN  AddConnection(s, IF m = NoMap THEN nextID + 1 ELSE m)

\* delete(conns, id), in inner map m.
RemoveConnection(m, id) ==
  /\ conns' = [conns EXCEPT ![m] = @ \ {id}]
  /\ MapWrite(m)

\* Fault: the entry of a map that became empty stays.
UnregisterKeepsEmpty(a, id) ==
  /\ IF streams[a] = NoMap THEN UNCHANGED <<conns, proc>>
                           ELSE RemoveConnection(streams[a], id)
  /\ UNCHANGED streams

\* Fault: the entry goes with its first connection.
UnregisterDropsEntry(a, id) ==
  /\ IF streams[a] = NoMap THEN UNCHANGED <<conns, proc>>
                           ELSE RemoveConnection(streams[a], id)
  /\ streams' = [streams EXCEPT ![a] = NoMap]

\* h.Unregister(a, id).
Unregister(a, id) ==
  \/ /\ streams[a] = NoMap
     /\ UNCHANGED <<streams, conns, proc>>
  \/ /\ streams[a] # NoMap
     /\ RemoveConnection(streams[a], id)
     /\ streams' = IF conns[streams[a]] \subseteq {id}
                   THEN [streams EXCEPT ![a] = NoMap]
                   ELSE streams

\* The handler's deferred h.Unregister(claims.Email, connID).
DeferredUnregister(s) ==
  /\ Unregister(Owner[s], connID[s])
  /\ open' = open \ {s}
  /\ UNCHANGED <<stream, nextID, connID>>

-------------------------------------------------------------------------------
(* SendToUser(a, r), run by the handler goroutine of session g.               *)

In(g, pc) == Running /\ frame[g].pc = pc

SetFrame(g, f) ==
  /\ frame' = [frame EXCEPT ![g] = f]
  /\ UNCHANGED <<registry, connID, open, proc>>

NewFrame(a, r, m) ==
  [pc |-> "len", addr |-> a, resp |-> r, map |-> m,
   must |-> {}, seen |-> {}, cur |-> 0, failed |-> {}]

\* Fault: the connections of the sender instead of the addressee.
LookupOwn(g, a, r) ==
  /\ In(g, "idle")
  /\ SetFrame(g, NewFrame(a, r, streams[Owner[g]]))
  /\ UNCHANGED grpc

\* Under the read lock: fetch the inner map.  No map: "user not connected".
SendToUserLookup(g, a, r) ==
  /\ In(g, "idle")
  /\ SetFrame(g, IF streams[a] = NoMap THEN Idle ELSE NewFrame(a, r, streams[a]))
  /\ UNCHANGED grpc

\* Lock released: an emptied map is "not connected" too, else the range starts.
\* must holds the connections the range has to reach unless they are deleted.
SendToUserLen(g) ==
  LET members == conns[frame[g].map]
  IN  /\ In(g, "len")
      /\ SetFrame(g, IF members = {}
                     THEN Idle
                     ELSE [frame[g] EXCEPT !.pc = "range", !.must = members])
      /\ UNCHANGED grpc

Yield(g, id) ==
  SetFrame(g, [frame[g] EXCEPT !.pc = "send", !.cur = id,
                               !.seen = frame[g].seen \cup {id}])

\* Fault: a connection may be served twice.
RangeNextAgain(g) ==
  /\ In(g, "range")
  /\ \E id \in conns[frame[g].map] : Yield(g, id)
  /\ UNCHANGED grpc

\* The range yields some connection that is in the map and was not yielded yet.
RangeNext(g) ==
  /\ In(g, "range")
  /\ \E id \in conns[frame[g].map] \ frame[g].seen : Yield(g, id)
  /\ UNCHANGED grpc

\* st.Send(resp) succeeds, maybe after waiting for room.
Sending(g) ==
  /\ Accept(stream[frame[g].cur], "hub", frame[g].resp)
  /\ SetFrame(g, [frame[g] EXCEPT !.pc = "range", !.cur = 0])

\* Fault: the first error ends the range.
SendingStops(g) ==
  /\ Refuse(stream[frame[g].cur])
  /\ SetFrame(g, [frame[g] EXCEPT !.pc = "purge", !.failed = {frame[g].cur}])

\* Fault: a Send that failed is tried again.
SendingRetries(g) ==
  /\ Refuse(stream[frame[g].cur])
  /\ SetFrame(g, frame[g])

\* st.Send(resp) fails: the id is kept and the range goes on.
SendingFails(g) ==
  /\ Refuse(stream[frame[g].cur])
  /\ SetFrame(g, [frame[g] EXCEPT !.pc = "range", !.cur = 0,
                                  !.failed = frame[g].failed \cup {frame[g].cur}])

RangeSend(g) ==
  /\ In(g, "send")
  /\ Sending(g) \/ SendingFails(g)

\* The range ends when nothing that it has to reach is left.  A connection
\* added since the range began may or may not have been yielded.
RangeEnd(g) ==
  /\ In(g, "range")
  /\ frame[g].must \cap conns[frame[g].map] \subseteq frame[g].seen
  /\ SetFrame(g, IF frame[g].failed = {}
                 THEN Idle
                 ELSE [frame[g] EXCEPT !.pc = "purge"])
  /\ UNCHANGED grpc

\* h.Unregister(email, id) for each id in failedIDs; SendToUser then returns.
UnregisterFailed(g) ==
  /\ In(g, "purge")
  /\ \E id \in frame[g].failed :
       /\ Unregister(frame[g].addr, id)
       /\ frame' = [frame EXCEPT ![g] =
            IF frame[g].failed = {id}
            THEN Idle
            ELSE [frame[g] EXCEPT !.failed = frame[g].failed \ {id}]]
  /\ UNCHANGED <<stream, nextID, connID, open, grpc>>

\* One step of an activation of SendToUser.
SendToUserStep(g) ==
  \/ SendToUserLen(g)
  \/ RangeNext(g)
  \/ RangeSend(g)
  \/ RangeEnd(g)
  \/ UnregisterFailed(g)

-------------------------------------------------------------------------------
(* The hub driven by handlers: a session connects once, sends fresh responses *)
(* to any address while it is open, and disconnects when no SendToUser of its *)
(* own is active.                                                             *)

Connect(s) ==
  /\ Running
  /\ connID[s] = 0
  /\ Register(s)
  /\ UNCHANGED <<alive, out, read, frame>>

Disconnect(s) ==
  /\ Running
  /\ s \in open
  /\ frame[s].pc = "idle"
  /\ DeferredUnregister(s)
  /\ UNCHANGED <<alive, out, read, frame>>

\* The handler has returned and gRPC ends the RPC: later Sends fail.
EndRPC(s) ==
  /\ Running
  /\ connID[s] # 0
  /\ s \notin open
  /\ s \in alive
  /\ alive' = alive \ {s}
  /\ UNCHANGED <<registry, connID, open, out, read, frame, proc>>

Got(s, r) == \E i \in 1 .. Len(out[s]) : out[s][i] = [via |-> "hub", resp |-> r]

\* Every saved message is pushed once, so a response is never sent again.
Fresh(r) ==
  /\ \A s \in Sessions : ~Got(s, r)
  /\ \A g \in Sessions : frame[g].pc # "idle" => frame[g].resp # r

SendToUser(g, a, r) ==
  /\ g \in open
  /\ Fresh(r)
  /\ SendToUserLookup(g, a, r)

HubNext ==
  \/ \E s \in Sessions : Connect(s)
  \/ \E s \in Sessions : Disconnect(s)
  \/ \E s \in Sessions : EndRPC(s)
  \/ \E s \in Sessions : Break(s)
  \/ \E s \in Sessions : ClientRead(s)
  \/ \E g \in Sessions, a \in Addrs, r \in Resps : SendToUser(g, a, r)
  \/ \E g \in Sessions : SendToUserStep(g)

HubSpec == HubInit /\ [][HubNext]_hubVars

-------------------------------------------------------------------------------
(* Properties.                                                                *)

\* No stale endpoint: whatever the hub holds for an address is the connection
\* of a session of that user whose handler has not unregistered it.  Register,
\* Unregister and the clean-up of failed connections must agree on ids and maps.
OnlyOpenRegistered ==
  \A a \in Addrs : streams[a] # NoMap =>
    /\ conns[streams[a]] # {}
    /\ \A id \in conns[streams[a]] :
         /\ stream[id] \in open
         /\ Owner[stream[id]] = a
         /\ connID[stream[id]] = id

\* No lost endpoint: a session with an intact stream stays registered until its
\* own handler unregisters it, whatever Unregister calls for other or former
\* connections, and deletions of emptied inner maps, happen around it.
HealthyRegistered ==
  \A s \in open \cap alive :
    /\ streams[Owner[s]] # NoMap
    /\ connID[s] \in conns[streams[Owner[s]]]
    /\ stream[connID[s]] = s

\* No misdelivery: a Send in progress, although its connection was found in a
\* map read without the lock and maybe dropped since, is on a stream of the
\* addressee.
SendsToAddressee ==
  \A g \in Sessions : frame[g].pc = "send" =>
    Owner[stream[frame[g].cur]] = frame[g].addr

\* The inductive invariant behind these three and EveryEndpointServed.
\* Ids are given out once, to one session each.
IdsGivenOnce ==
  /\ \A id \in Ids :
       /\ stream[id] \in Sessions <=> id <= nextID
       /\ stream[id] \in Sessions => connID[stream[id]] = id
  /\ \A s \in Sessions : connID[s] # 0 =>
       connID[s] <= nextID /\ stream[connID[s]] = s
  /\ \A s \in open : connID[s] # 0

\* An inner map belongs to the user of its first connection for ever: it is
\* h.streams[user] as long as it is not empty, and empty once it is not.
MapsOfOneUser ==
  /\ \A m \in Ids : \A id \in conns[m] :
       /\ m <= nextID
       /\ id <= nextID
       /\ stream[id] \in open
       /\ Owner[stream[id]] = Owner[stream[m]]
       /\ streams[Owner[stream[m]]] = m
  /\ \A a \in Addrs : streams[a] # NoMap =>
       /\ streams[a] <= nextID
       /\ Owner[stream[streams[a]]] = a
       /\ conns[streams[a]] # {}

\* An activation of SendToUser stays with its user, blames only broken streams,
\* and accounts for every connection it was given.
FrameAccounted(f) ==
  f.pc # "idle" =>
    /\ f.map <= nextID
    /\ Owner[stream[f.map]] = f.addr
    /\ \A id \in f.must \cup f.seen \cup f.failed : id <= nextID
    /\ \A id \in f.failed : stream[id] \notin alive
    /\ f.pc = "send" => f.cur \in f.seen /\ Owner[stream[f.cur]] = f.addr
    /\ f.pc = "purge" => f.must \cap conns[f.map] \subseteq f.seen
    /\ \A id \in f.seen \cap conns[f.map] :
         \/ id \in f.failed
         \/ Got(stream[id], f.resp)
         \/ f.pc = "send" /\ id = f.cur

\* All of it together: what every operation of the hub preserves.
HubInv ==
  /\ HubTypeOK
  /\ IdsGivenOnce
  /\ MapsOfOneUser
  /\ HealthyRegistered
  /\ \A g \in Sessions : FrameAccounted(frame[g])

\* Best-effort delivery to all endpoints: when SendToUser returns, every
\* connection that was in the map when its range began, or was yielded later,
\* and that the map still holds, has taken the response.
EndpointsServed(g) ==
  frame[g].pc \in {"range", "purge"} /\ frame'[g].pc = "idle" =>
    \A id \in (frame[g].must \cup frame[g].seen) \cap conns'[frame[g].map] :
      Got(stream[id], frame[g].resp)

EveryEndpointServed == [][\A g \in Sessions : EndpointsServed(g)]_hubVars

\* The steps activation f has left, if its map holds members and nobody connects:
\* a yield and a Send for each member to come, a deletion for each that failed.
StepsLeft(f, members) ==
  LET unseen == Cardinality(members \ f.seen)
      failed == Cardinality(f.failed)
  IN  CASE f.pc = "idle"  -> 0
        [] f.pc = "len"   -> 3 * unseen + failed + 3
        [] f.pc = "range" -> 3 * unseen + failed + 2
        [] f.pc = "send"  -> 3 * unseen + failed + 4
        [] f.pc = "purge" -> failed + 1

Left(g) == StepsLeft(frame[g], conns[frame[g].map])

Connects(a) == nextID' = nextID + 1 /\ Owner[stream'[nextID']] = a

Advances(g) ==
  frame[g].pc # "idle" =>
    \/ Left(g)' < Left(g)
    \/ frame'[g] = frame[g] /\ Left(g)' = Left(g)
    \/ frame'[g] = frame[g] /\ Connects(frame[g].addr)

\* SendToUser is bounded: whatever is registered, unregistered or purged around
\* it, each of its steps brings its end nearer, and only a new connection of the
\* addressee, which the range may also yield, can put the end off.
SendToUserBounded == [][\A g \in Sessions : Advances(g)]_hubVars

\* SendToUser returns, if every client reads or goes away: no interleaving of
\* registrations, failures and clean-up keeps the range from ending.
SendToUserReturns ==
  \A g \in Sessions :
    frame[g].pc # "idle" ~> frame[g].pc = "idle" \/ ~Running

\* hub.go says that Unregister is safe to call concurrently: no interleaving of
\* hub operations makes the runtime abort the process.
NoMapRace == proc # "mapRace"

-------------------------------------------------------------------------------
(* The hub without ids and maps.  The connections of an inner map that has    *)
(* emptied are gone for ever: Register makes another map.                     *)

StreamsOf(ids) == {stream[id] : id \in ids}

CallOf(f) ==
  IF f.pc = "idle" THEN f
  ELSE [pc |-> IF f.pc = "len" /\ conns[f.map] = {} THEN "nobody" ELSE f.pc,
        addr |-> f.addr, resp |-> f.resp,
        must |-> StreamsOf(f.must), seen |-> StreamsOf(f.seen),
        cur |-> IF f.pc = "send" THEN stream[f.cur] ELSE NoSession,
        failed |-> StreamsOf(f.failed)]

Joined  == {s \in Sessions : connID[s] # 0}
Present == StreamsOf(UNION {conns[m] : m \in Ids})
Calls   == [g \in Sessions |-> CallOf(frame[g])]

P == INSTANCE Presence WITH joined <- Joined, present <- Present, call <- Calls

\* The two levels of maps, the ids, and the ranges that read an inner map without
\* the lock, after it was dropped too, amount to one set of streams per user and
\* to passes over it: no stream is lost, found twice or found after it left, and
\* "user not connected" is answered only if that was so during the call.
PresenceSpec == P!PresenceSpec

===============================================================================
