---------------------------- MODULE PresenceProofs ----------------------------
(*****************************************************************************)
(* Proof that Hub implements Presence: every step of the hub, seen through   *)
(* the streams that its ids and maps stand for, is a step of Presence or a   *)
(* stutter.                                                                  *)
(*****************************************************************************)
EXTENDS HubProofs

\* CallOf, with the registry it looks at as arguments.
View(f, str, cns) ==
  IF f.pc = "idle" THEN f
  ELSE [pc |-> IF f.pc = "len" /\ cns[f.map] = {} THEN "nobody" ELSE f.pc,
        addr |-> f.addr, resp |-> f.resp,
        must |-> {str[id] : id \in f.must}, seen |-> {str[id] : id \in f.seen},
        cur |-> IF f.pc = "send" THEN str[f.cur] ELSE NoSession,
        failed |-> {str[id] : id \in f.failed}]

Given(f) == f.must \cup f.seen \cup f.failed

\* The connections that activation f was given are of its addressee, and are in
\* no map but the one it ranges over.
AtHomeIn(f, str, cns) ==
  \A id \in Given(f) :
    /\ Owner[str[id]] = f.addr
    /\ \A n \in Ids : id \in cns[n] => n = f.map

AtHome ==
  \A g \in Sessions : frame[g].pc # "idle" => AtHomeIn(frame[g], stream, conns)

\* What a step of the hub is, whoever takes it: the driver of Hub, or the handlers
\* of Chat.
Joining(s) ==
  /\ s \in alive
  /\ connID[s] = 0
  /\ Register(s)
  /\ UNCHANGED <<alive, out, frame>>

Parting(s) ==
  /\ s \in open
  /\ frame[s].pc = "idle"
  /\ DeferredUnregister(s)
  /\ UNCHANGED <<alive, out, frame>>

Breaking(s) ==
  /\ s \in alive
  /\ connID[s] # 0
  /\ alive' = alive \ {s}
  /\ UNCHANGED <<registry, connID, out, frame>>

Calling(g, a, r) == g \in open /\ SendToUserLookup(g, a, r)

Unseen == UNCHANGED <<registry, connID, alive, out, frame>>

HubStep ==
  \/ \E s \in Sessions :
       \/ Joining(s) \/ Parting(s) \/ Breaking(s) \/ SendToUserStep(s)
       \/ \E a \in Addrs, r \in Resps : Calling(s, a, r)
  \/ Unseen

\* A stream that never joined is intact.
FreshIntact == \A s \in Sessions : connID[s] = 0 => s \in alive

LEMMA CallsAreViews ==
  /\ Calls = [g \in Sessions |-> View(frame[g], stream, conns)]
  /\ Calls' = [g \in Sessions |-> View(frame'[g], stream', conns')]
BY DEF Calls, CallOf, View, StreamsOf

-------------------------------------------------------------------------------
(* Ids and the streams they stand for.                                        *)

\* An id that was given out stands for one stream, and no other id does.
LEMMA StreamsApart ==
  ASSUME HubInv
  PROVE  /\ \A i \in Ids : i <= nextID => stream[i] \in Sessions
         /\ \A i, j \in Ids :
              i <= nextID /\ j <= nextID /\ stream[i] = stream[j] => i = j
BY DEF HubInv, IdsGivenOnce

\* A stream is present when its id is in some map.
LEMMA PresentIds ==
  ASSUME HubInv
  PROVE  /\ Present \subseteq Sessions
         /\ \A i \in Ids : i <= nextID =>
              (stream[i] \in Present <=> \E n \in Ids : i \in conns[n])
<1>1. \A n \in Ids : \A i \in conns[n] : i \in Ids /\ i <= nextID
  BY DEF HubInv, HubTypeOK, MapsOfOneUser
<1>2. \A x : x \in Present <=> \E n \in Ids : \E i \in conns[n] : x = stream[i]
  BY DEF Present, StreamsOf
<1> QED
  BY <1>1, <1>2, StreamsApart

\* The streams of a user are those of any map of that user that is not empty.
LEMMA OfMap ==
  ASSUME HubInv, NEW m \in Ids, conns[m] # {}
  PROVE  P!Of(Owner[stream[m]]) = {stream[i] : i \in conns[m]}
<1>1. \A n \in Ids : \A i \in conns[n] :
        Owner[stream[i]] = Owner[stream[n]] /\ streams[Owner[stream[n]]] = n
  BY DEF HubInv, MapsOfOneUser
<1>2. \A x : x \in Present <=> \E n \in Ids : \E i \in conns[n] : x = stream[i]
  BY DEF Present, StreamsOf
<1>3. streams[Owner[stream[m]]] = m
  BY <1>1
<1>4. \A x : x \in P!Of(Owner[stream[m]]) <=>
               x \in Present /\ Owner[x] = Owner[stream[m]]
  BY DEF P!Of
<1>5. ASSUME NEW x, x \in P!Of(Owner[stream[m]]) PROVE \E i \in conns[m] : x = stream[i]
  <2>1. PICK n \in Ids : \E i \in conns[n] : x = stream[i]
    BY <1>2, <1>4, <1>5
  <2>2. n = m
    BY <1>1, <1>3, <1>4, <1>5, <2>1
  <2> QED
    BY <2>1, <2>2
<1>6. ASSUME NEW i \in conns[m] PROVE stream[i] \in P!Of(Owner[stream[m]])
  BY <1>1, <1>2, <1>4
<1> QED
  BY <1>5, <1>6

\* A user without a map has no stream, one with a map has those of the map.
LEMMA OfUser ==
  ASSUME HubInv, NEW a \in Addrs
  PROVE  /\ streams[a] = NoMap => P!Of(a) = {}
         /\ streams[a] # NoMap => /\ streams[a] \in Ids
                                  /\ conns[streams[a]] # {}
                                  /\ P!Of(a) # {}
<1>1. CASE streams[a] = NoMap
  <2>1. \A x : x \in Present <=> \E n \in Ids : \E i \in conns[n] : x = stream[i]
    BY DEF Present, StreamsOf
  <2>2. \A n \in Ids : \A i \in conns[n] :
          Owner[stream[i]] = Owner[stream[n]] /\ streams[Owner[stream[n]]] = n
    BY DEF HubInv, MapsOfOneUser
  <2>3. \A x \in Present : Owner[x] # a
    BY <1>1, <2>1, <2>2, IdFacts
  <2> QED
    BY <1>1, <2>3 DEF P!Of
<1>2. CASE streams[a] # NoMap
  <2>1. /\ streams[a] \in Ids
        /\ conns[streams[a]] # {}
        /\ Owner[stream[streams[a]]] = a
    BY <1>2, IdFacts DEF HubInv, HubTypeOK, MapsOfOneUser
  <2> QED
    BY <1>2, <2>1, OfMap
<1> QED
  BY <1>1, <1>2

\* What an activation was given, an activation that has a map sees of its user.
LEMMA FrameFacts ==
  ASSUME HubInv, NEW g \in Sessions, frame[g].pc # "idle"
  PROVE  /\ frame[g] \in Frame
         /\ FrameAccounted(frame[g])
         /\ frame[g].map \in Ids /\ frame[g].addr \in Addrs
         /\ Given(frame[g]) \subseteq {i \in Ids : i <= nextID}
         /\ \A i \in Given(frame[g]) : stream[i] \in Sessions
         /\ conns[frame[g].map] # {} =>
              P!Of(frame[g].addr) = {stream[i] : i \in conns[frame[g].map]}
<1>1. frame[g] \in Frame /\ FrameAccounted(frame[g])
  BY FrameTyped DEF HubInv
<1>2. frame[g].map \in Ids /\ frame[g].addr \in Addrs /\ Given(frame[g]) \subseteq Ids
  BY <1>1 DEF Frame, Given
<1>3. /\ Owner[stream[frame[g].map]] = frame[g].addr
      /\ \A i \in Given(frame[g]) : i <= nextID
  BY <1>1 DEF FrameAccounted, Given
<1> QED
  BY <1>1, <1>2, <1>3, StreamsApart, OfMap

-------------------------------------------------------------------------------
(* Streams that join and leave.                                               *)

\* An activation looks the same as long as its ids stand for the same streams
\* and its map has not emptied.
LEMMA ViewStays ==
  ASSUME HubInv, NEW g \in Sessions, NEW str, NEW cns,
         \A i \in Ids : i <= nextID => str[i] = stream[i],
         frame[g].pc = "len" => (cns[frame[g].map] = {} <=> conns[frame[g].map] = {})
  PROVE  View(frame[g], str, cns) = View(frame[g], stream, conns)
<1> DEFINE f == frame[g]
<1>1. CASE f.pc = "idle"
  BY <1>1 DEF View
<1>2. CASE f.pc # "idle"
  <2>1. \A i \in Given(f) : str[i] = stream[i]
    BY <1>2, FrameFacts
  <2>2. /\ {str[i] : i \in f.must} = {stream[i] : i \in f.must}
        /\ {str[i] : i \in f.seen} = {stream[i] : i \in f.seen}
        /\ {str[i] : i \in f.failed} = {stream[i] : i \in f.failed}
    BY <2>1 DEF Given
  <2>3. f.pc = "send" => str[f.cur] = stream[f.cur]
    BY <1>2, <2>1, FrameFacts DEF FrameAccounted, Given
  <2>4. (f.pc = "len" /\ cns[f.map] = {}) <=> (f.pc = "len" /\ conns[f.map] = {})
    OBVIOUS
  <2> QED
    BY <1>2, <2>2, <2>3, <2>4 DEF View
<1> QED
  BY <1>1, <1>2

LEMMA ConnectJoins ==
  ASSUME HubInv, NEW s \in Sessions, Joining(s)
  PROVE  P!Join(s)
<1>1. PICK id \in Ids, m \in Ids :
        /\ id = nextID + 1
        /\ m = IF streams[Owner[s]] = NoMap THEN id ELSE streams[Owner[s]]
        /\ connID[s] = 0 /\ s \in alive
        /\ conns' = [conns EXCEPT ![m] = conns[m] \cup {id}]
        /\ stream' = [stream EXCEPT ![id] = s]
        /\ connID' = [connID EXCEPT ![s] = id]
        /\ UNCHANGED <<alive, out, frame>>
  <2>1. nextID + 1 \in Ids
    BY HubAssumption DEF Ids, Joining, Register, AddConnection, HubInv, HubTypeOK
  <2>2. streams[Owner[s]] # NoMap => streams[Owner[s]] \in Ids
    BY OfUser, IdFacts
  <2> QED
    BY <2>1, <2>2 DEF Joining, Register, AddConnection
<1>2. /\ \A n \in Ids : conns'[n] = IF n = m THEN conns[n] \cup {id} ELSE conns[n]
      /\ \A i \in Ids : stream'[i] = IF i = id THEN s ELSE stream[i]
      /\ \A t \in Sessions : connID'[t] = IF t = s THEN id ELSE connID[t]
  BY <1>1 DEF HubInv, HubTypeOK
<1>3. \A i \in Ids : i <= nextID => i # id
  BY <1>1, IdFacts DEF HubInv, HubTypeOK
<1>4. \A i \in Ids : i <= nextID => stream'[i] = stream[i]
  BY <1>2, <1>3
<1>5. \A n \in Ids : \A i \in conns[n] : i \in Ids /\ i <= nextID /\ n <= nextID
  BY DEF HubInv, HubTypeOK, MapsOfOneUser
<1>6. Joined' = Joined \cup {s} /\ s \notin Joined
  BY <1>1, <1>2, IdFacts DEF Joined
<1>7. Present' = Present \cup {s}
  <2>1. \A x : x \in Present <=> \E n \in Ids : \E i \in conns[n] : x = stream[i]
    BY DEF Present, StreamsOf
  <2>2. \A x : x \in Present' <=> \E n \in Ids : \E i \in conns'[n] : x = stream'[i]
    BY DEF Present, StreamsOf
  <2>3. s \in Present'
    BY <1>2, <2>2
  <2>4. ASSUME NEW x \in Present PROVE x \in Present'
    <3>1. PICK n \in Ids : \E i \in conns[n] : x = stream[i]
      BY <2>1
    <3>2. PICK i \in conns[n] : x = stream[i]
      BY <3>1
    <3>3. i \in conns'[n] /\ stream'[i] = x
      BY <1>2, <1>4, <1>5, <3>2
    <3> QED
      BY <2>2, <3>3
  <2>5. ASSUME NEW x \in Present', x # s PROVE x \in Present
    <3>1. PICK n \in Ids : \E i \in conns'[n] : x = stream'[i]
      BY <2>2
    <3>2. PICK i \in conns'[n] : x = stream'[i]
      BY <3>1
    <3>3. i # id
      BY <1>2, <2>5, <3>2
    <3>4. i \in conns[n] /\ x = stream[i]
      BY <1>2, <1>4, <1>5, <3>2, <3>3
    <3> QED
      BY <2>1, <3>4
  <2> QED
    BY <2>3, <2>4, <2>5
<1>8. ASSUME NEW g \in Sessions, frame[g].pc = "len"
      PROVE  conns'[frame[g].map] = {} <=> conns[frame[g].map] = {}
  <2>1. frame[g].map \in Ids /\ frame[g].map <= nextID
    BY <1>8, FrameFacts DEF FrameAccounted
  <2>2. frame[g].map # id
    BY <1>3, <2>1
  <2>3. frame[g].map = m => conns[m] # {}
    BY <1>1, <2>2, OfUser, IdFacts
  <2> QED
    BY <1>2, <2>1, <2>3
<1>9. \A g \in Sessions : View(frame[g], stream', conns') = View(frame[g], stream, conns)
  <2> TAKE g \in Sessions
  <2> QED
    BY <1>4, <1>8, ViewStays
<1>10. Calls' = Calls
  BY <1>1, <1>9, CallsAreViews
<1> QED
  BY <1>1, <1>6, <1>7, <1>10 DEF P!Join

\* Unregister(a, id) takes the stream of id, which is a's, out of a's set.
LEMMA UnregisterLeaves ==
  ASSUME HubInv, NEW a \in Addrs, NEW id \in Ids, id <= nextID,
         Owner[stream[id]] = a, Unregister(a, id), UNCHANGED stream
  PROVE  /\ Present' = Present \ {stream[id]}
         /\ \A g \in Sessions :
              View(frame[g], stream, conns')
                = P!LeftBy(stream[id], View(frame[g], stream, conns))
<1>1. \A n \in Ids : \A i \in conns[n] :
        /\ i \in Ids /\ i <= nextID
        /\ Owner[stream[i]] = Owner[stream[n]] /\ streams[Owner[stream[n]]] = n
  BY DEF HubInv, HubTypeOK, MapsOfOneUser
<1>2. \A n \in Ids : conns'[n] = conns[n] \ {id}
  <2>1. CASE streams[a] = NoMap
    <3>1. conns' = conns
      BY <2>1 DEF Unregister
    <3>2. \A n \in Ids : id \notin conns[n]
      BY <1>1, <2>1, IdFacts
    <3> QED
      BY <3>1, <3>2
  <2>2. CASE streams[a] # NoMap
    <3>1. streams[a] \in Ids
      BY <2>2, OfUser
    <3>2. conns' = [conns EXCEPT ![streams[a]] = conns[streams[a]] \ {id}]
      BY <2>2 DEF Unregister, RemoveConnection
    <3>3. \A n \in Ids : id \in conns[n] => n = streams[a]
      BY <1>1
    <3> QED
      BY <3>1, <3>2, <3>3 DEF HubInv, HubTypeOK
  <2> QED
    BY <2>1, <2>2
<1>3. \A n \in Ids : \A i \in conns[n] : i # id => stream[i] # stream[id]
  BY <1>1, StreamsApart
<1>4. Present' = Present \ {stream[id]}
  <2>1. \A x : x \in Present <=> \E n \in Ids : \E i \in conns[n] : x = stream[i]
    BY DEF Present, StreamsOf
  <2>2. \A x : x \in Present' <=> \E n \in Ids : \E i \in conns'[n] : x = stream[i]
    BY DEF Present, StreamsOf
  <2>3. ASSUME NEW x \in Present' PROVE x \in Present /\ x # stream[id]
    BY <1>2, <1>3, <2>1, <2>2
  <2>4. ASSUME NEW x \in Present, x # stream[id] PROVE x \in Present'
    BY <1>2, <2>1, <2>2, <2>4
  <2> QED
    BY <2>3, <2>4
<1>5. ASSUME NEW g \in Sessions
      PROVE  View(frame[g], stream, conns')
               = P!LeftBy(stream[id], View(frame[g], stream, conns))
  <2> DEFINE f == frame[g]
             v == View(f, stream, conns)
  <2>1. CASE f.pc # "len"
    <3>1. v.pc # "len"
      BY <2>1 DEF View
    <3>2. View(f, stream, conns') = v
      BY <2>1 DEF View
    <3> HIDE DEF v
    <3> QED
      BY <3>1, <3>2 DEF P!LeftBy, v
  <2>2. CASE f.pc = "len" /\ conns[f.map] = {}
    <3>1. conns'[f.map] = {}
      BY <1>2, <2>2, FrameFacts
    <3>2. v.pc = "nobody" /\ View(f, stream, conns') = v
      BY <2>2, <3>1 DEF View
    <3> HIDE DEF v
    <3> QED
      BY <3>2 DEF P!LeftBy, v
  <2>3. CASE f.pc = "len" /\ conns[f.map] # {}
    <3>1. /\ f.map \in Ids
          /\ P!Of(f.addr) = {stream[i] : i \in conns[f.map]}
      BY <2>3, FrameFacts
    <3>2. P!Of(f.addr) = {stream[id]} <=> conns'[f.map] = {}
      BY <1>2, <1>3, <2>3, <3>1
    <3>3. v.pc = "len" /\ v.addr = f.addr
      BY <2>3 DEF View
    <3>4. View(f, stream, conns') = IF conns'[f.map] = {} THEN [v EXCEPT !.pc = "nobody"]
                                                          ELSE v
      BY <2>3 DEF View
    <3> HIDE DEF v, f
    <3> QED
      BY <3>2, <3>3, <3>4 DEF P!LeftBy, v, f
  <2> QED
    BY <2>1, <2>2, <2>3
<1> QED
  BY <1>4, <1>5

LEMMA DisconnectParts ==
  ASSUME HubInv, NEW s \in Sessions, Parting(s)
  PROVE  P!Part(s) \/ UNCHANGED P!presenceVars
<1>1. PICK id \in Ids :
        id = connID[s] /\ stream[id] = s /\ id <= nextID /\ Owner[s] \in Addrs
  BY IdFacts, HubAssumption DEF Parting, HubInv, HubTypeOK, IdsGivenOnce, Ids
<1>2. /\ Unregister(Owner[s], id)
      /\ UNCHANGED <<stream, connID, alive, out, frame>>
      /\ frame[s].pc = "idle"
  BY <1>1 DEF Parting, DeferredUnregister
<1>3. /\ Present' = Present \ {s}
      /\ \A g \in Sessions : View(frame[g], stream, conns')
                              = P!LeftBy(s, View(frame[g], stream, conns))
  BY <1>1, <1>2, UnregisterLeaves
<1>4. \A g \in Sessions : Calls[g] = View(frame[g], stream, conns)
  BY CallsAreViews
<1>5. Calls' = [g \in Sessions |-> P!LeftBy(s, Calls[g])]
  <2>1. Calls' = [g \in Sessions |-> View(frame[g], stream, conns')]
    BY <1>2, CallsAreViews
  <2> QED
    BY <1>3, <1>4, <2>1
<1>6. Joined' = Joined
  BY <1>2 DEF Joined
<1>7. CASE s \in Present
  <2>1. Calls[s] = P!NoCall
    BY <1>2, <1>4, FrameTyped DEF View, P!NoCall, HubInv, HubTypeOK, Frame, Idle
  <2> QED
    BY <1>2, <1>3, <1>5, <1>6, <1>7, <2>1 DEF P!Part, P!Leave
<1>8. CASE s \notin Present
  <2>1. \A a : P!Of(a) # {s}
    BY <1>8 DEF P!Of
  <2>2. \A c : P!LeftBy(s, c) = c
    BY <2>1 DEF P!LeftBy
  <2>3. Calls' = [g \in Sessions |-> Calls[g]]
    BY <1>5, <2>2
  <2>4. Calls' = Calls
    BY <2>3 DEF Calls
  <2>5. Present' = Present
    BY <1>3, <1>8
  <2> QED
    BY <1>2, <1>6, <2>4, <2>5 DEF P!presenceVars
<1> QED
  BY <1>7, <1>8

-------------------------------------------------------------------------------
(* What an activation was given stays of its user.                            *)

\* The registry only grows by ids that are new, or shrinks.
LEMMA RegistryGrows ==
  ASSUME HubInv, HubStep
  PROVE  \A i \in Ids : i <= nextID =>
           /\ stream'[i] = stream[i]
           /\ \A n \in Ids : i \in conns'[n] => i \in conns[n]
<1>1. ASSUME NEW s \in Sessions, Joining(s)
      PROVE  \A i \in Ids : i <= nextID =>
               /\ stream'[i] = stream[i]
               /\ \A n \in Ids : i \in conns'[n] => i \in conns[n]
  <2>1. PICK id, m :
          /\ id = nextID + 1
          /\ conns' = [conns EXCEPT ![m] = conns[m] \cup {id}]
          /\ stream' = [stream EXCEPT ![id] = s]
    BY <1>1 DEF Joining, Register, AddConnection
  <2>2. \A i \in Ids : i <= nextID => i # id
    BY <2>1, IdFacts DEF HubInv, HubTypeOK
  <2> QED
    BY <2>1, <2>2 DEF HubInv, HubTypeOK
<1>2. ASSUME NEW a, NEW id, Unregister(a, id)
      PROVE  \A n \in Ids : conns'[n] \subseteq conns[n]
  BY <1>2 DEF Unregister, RemoveConnection, HubInv, HubTypeOK
<1>3. ASSUME NEW s \in Sessions, Parting(s)
      PROVE  stream' = stream /\ \A n \in Ids : conns'[n] \subseteq conns[n]
  BY <1>2, <1>3 DEF Parting, DeferredUnregister
<1>4. ASSUME NEW g \in Sessions, UnregisterFailed(g)
      PROVE  stream' = stream /\ \A n \in Ids : conns'[n] \subseteq conns[n]
  BY <1>2, <1>4 DEF UnregisterFailed
<1>5. \/ \E s \in Sessions : Joining(s) \/ Parting(s) \/ UnregisterFailed(s)
      \/ stream' = stream /\ conns' = conns
  BY DEF HubStep, Unseen, Breaking, Calling, SendToUserLookup, SendToUserStep,
         SendToUserLen, RangeNext, RangeSend, RangeEnd, Yield, Sending, SendingFails,
         SetFrame, registry
<1> QED
  BY <1>1, <1>3, <1>4, <1>5

\* A step of an activation adds connections of its map, if any, to its own.
LEMMA GivenByMap ==
  ASSUME HubInv, NEW g \in Sessions, SendToUserStep(g), frame'[g].pc # "idle"
  PROVE  /\ frame'[g].map = frame[g].map /\ frame'[g].addr = frame[g].addr
         /\ Given(frame'[g]) \subseteq Given(frame[g]) \cup conns[frame[g].map]
<1> DEFINE old == frame[g]
<1>1. old \in Frame /\ FrameAccounted(old)
  BY FrameTyped DEF HubInv, SendToUserStep, SendToUserLen, RangeNext, RangeSend,
                    RangeEnd, UnregisterFailed, In
<1>2. ASSUME NEW f, frame' = [frame EXCEPT ![g] = f] PROVE frame'[g] = f
  BY <1>2 DEF HubInv, HubTypeOK
<1>3. Idle.pc = "idle"
  BY DEF Idle
<1>4. CASE SendToUserLen(g)
  <2>1. frame' = [frame EXCEPT ![g] = [old EXCEPT !.pc = "range", !.must = conns[old.map]]]
    BY <1>2, <1>3, <1>4 DEF SendToUserLen, SetFrame
  <2>2. frame'[g] = [old EXCEPT !.pc = "range", !.must = conns[old.map]]
    BY <1>2, <2>1
  <2> QED
    BY <1>1, <2>2 DEF Frame, Given
<1>5. CASE RangeNext(g)
  <2>1. PICK id \in conns[old.map] :
          frame' = [frame EXCEPT ![g] = [old EXCEPT !.pc = "send", !.cur = id,
                                                    !.seen = old.seen \cup {id}]]
    BY <1>5 DEF RangeNext, Yield, SetFrame
  <2>2. frame'[g] = [old EXCEPT !.pc = "send", !.cur = id, !.seen = old.seen \cup {id}]
    BY <1>2, <2>1
  <2> QED
    BY <1>1, <2>2 DEF Frame, Given
<1>6. CASE RangeSend(g) /\ Sending(g)
  <2>1. frame'[g] = [old EXCEPT !.pc = "range", !.cur = 0]
    BY <1>2, <1>6 DEF Sending, SetFrame
  <2> QED
    BY <1>1, <2>1 DEF Frame, Given
<1>7. CASE RangeSend(g) /\ SendingFails(g)
  <2>1. frame'[g] = [old EXCEPT !.pc = "range", !.cur = 0,
                                !.failed = old.failed \cup {old.cur}]
    BY <1>2, <1>7 DEF SendingFails, SetFrame
  <2>2. old.cur \in old.seen
    BY <1>1, <1>7 DEF RangeSend, In, FrameAccounted
  <2> QED
    BY <1>1, <2>1, <2>2 DEF Frame, Given
<1>8. CASE RangeEnd(g)
  <2>1. frame'[g] = [old EXCEPT !.pc = "purge"]
    BY <1>2, <1>3, <1>8 DEF RangeEnd, SetFrame
  <2> QED
    BY <1>1, <2>1 DEF Frame, Given
<1>9. CASE UnregisterFailed(g)
  <2>1. PICK id : frame'[g] = [old EXCEPT !.failed = old.failed \ {id}]
    BY <1>2, <1>3, <1>9 DEF UnregisterFailed
  <2> QED
    BY <1>1, <2>1 DEF Frame, Given
<1> QED
  BY <1>4, <1>5, <1>6, <1>7, <1>8, <1>9 DEF SendToUserStep, RangeSend

LEMMA AtHomeNext ==
  ASSUME HubInv, AtHome, HubStep
  PROVE  AtHome'
<1> SUFFICES ASSUME NEW g \in Sessions, frame'[g].pc # "idle"
             PROVE  AtHomeIn(frame'[g], stream', conns')
  BY DEF AtHome, AtHomeIn, Given
<1>1. CASE frame[g].pc # "idle"
  <2>1. /\ frame[g] \in Frame /\ frame[g].map \in Ids
        /\ Owner[stream[frame[g].map]] = frame[g].addr
        /\ \A i \in Given(frame[g]) : i \in Ids /\ i <= nextID
    BY <1>1, FrameFacts DEF FrameAccounted
  <2>2. AtHomeIn(frame[g], stream, conns)
    BY <1>1 DEF AtHome
  <2>3. \A i \in conns[frame[g].map] :
          /\ i \in Ids /\ i <= nextID
          /\ Owner[stream[i]] = frame[g].addr
          /\ \A n \in Ids : i \in conns[n] => n = frame[g].map
    <3>1. \A n \in Ids : \A i \in conns[n] :
            /\ i \in Ids /\ i <= nextID
            /\ Owner[stream[i]] = Owner[stream[n]] /\ streams[Owner[stream[n]]] = n
      BY DEF HubInv, HubTypeOK, MapsOfOneUser
    <3> QED
      BY <2>1, <3>1
  <2>4. /\ frame'[g].map = frame[g].map /\ frame'[g].addr = frame[g].addr
        /\ Given(frame'[g]) \subseteq Given(frame[g]) \cup conns[frame[g].map]
    <3>2. CASE SendToUserStep(g)
      BY <3>2, GivenByMap
    <3>3. CASE \E h \in Sessions \ {g} : SendToUserStep(h)
      <4>1. frame'[g] = frame[g]
        BY <3>3, OneActivation DEF HubInv
      <4> QED
        BY <4>1
    <3>4. CASE \E h \in Sessions, a \in Addrs, r \in Resps : Calling(h, a, r)
      <4>1. frame'[g] = frame[g]
        BY <1>1, <3>4 DEF Calling, SendToUserLookup, In, SetFrame, HubInv, HubTypeOK
      <4> QED
        BY <4>1
    <3>5. CASE frame' = frame
      BY <3>5
    <3> QED
      BY <3>2, <3>3, <3>4, <3>5 DEF HubStep, Joining, Parting, Breaking, Unseen
  <2>5. \A i \in Given(frame'[g]) :
          /\ i \in Ids /\ i <= nextID
          /\ Owner[stream[i]] = frame'[g].addr
          /\ \A n \in Ids : i \in conns[n] => n = frame'[g].map
    BY <2>1, <2>2, <2>3, <2>4 DEF AtHomeIn
  <2>6. \A i \in Given(frame'[g]) :
          /\ stream'[i] = stream[i]
          /\ \A n \in Ids : i \in conns'[n] => i \in conns[n]
    BY <2>5, RegistryGrows
  <2> QED
    BY <2>5, <2>6 DEF AtHomeIn
<1>2. CASE frame[g].pc = "idle"
  <2>1. \E a, r, m : frame'[g] = NewFrame(a, r, m)
    <3>1. frame'[g] # frame[g]
      BY <1>2
    <3>2. ~SendToUserStep(g)
      BY <1>2 DEF SendToUserStep, SendToUserLen, RangeNext, RangeSend, RangeEnd,
                  UnregisterFailed, In
    <3>3. \A h \in Sessions \ {g} : ~SendToUserStep(h)
      BY <3>1, OneActivation DEF HubInv
    <3>4. PICK h \in Sessions, a \in Addrs, r \in Resps : Calling(h, a, r)
      BY <3>1, <3>2, <3>3 DEF HubStep, Joining, Parting, Breaking, Unseen
    <3>5. PICK f : /\ frame' = [frame EXCEPT ![h] = f]
                   /\ f = Idle \/ f = NewFrame(a, r, streams[a])
      BY <3>4 DEF Calling, SendToUserLookup, SetFrame
    <3>6. frame'[g] = f
      BY <3>1, <3>5 DEF HubInv, HubTypeOK
    <3> QED
      BY <3>5, <3>6 DEF Idle
  <2>2. Given(frame'[g]) = {}
    BY <2>1 DEF NewFrame, Given
  <2> QED
    BY <2>2 DEF AtHomeIn
<1> QED
  BY <1>1, <1>2

-------------------------------------------------------------------------------
(* SendToUser is a pass over the streams of its user.                         *)

\* A step that only replaces the activation of g replaces the call of g.
LEMMA SetFrameSetsCall ==
  ASSUME HubInv, NEW g \in Sessions, NEW f,
         frame' = [frame EXCEPT ![g] = f], UNCHANGED <<registry, connID, alive>>
  PROVE  P!SetCall(g, View(f, stream, conns))
<1>1. stream' = stream /\ conns' = conns
  BY DEF registry
<1>2. \A h \in Sessions : frame'[h] = IF h = g THEN f ELSE frame[h]
  BY DEF HubInv, HubTypeOK
<1>3. Calls' = [h \in Sessions |-> View(frame'[h], stream, conns)]
  BY <1>1, CallsAreViews
<1>4. Calls' = [Calls EXCEPT ![g] = View(f, stream, conns)]
  BY <1>2, <1>3, CallsAreViews
<1>5. Joined' = Joined
  BY DEF Joined
<1>6. Present' = Present
  BY <1>1 DEF Present, StreamsOf
<1> QED
  BY <1>4, <1>5, <1>6 DEF P!SetCall

\* A call that is under way.
Busy(pc, addr, resp, must, seen, cur, failed) ==
  [pc |-> pc, addr |-> addr, resp |-> resp, must |-> must, seen |-> seen,
   cur |-> cur, failed |-> failed]

\* What the steps of Presence look at in a call.
LEMMA BusyFields ==
  \A pc, addr, resp, must, seen, cur, failed :
    LET c == Busy(pc, addr, resp, must, seen, cur, failed)
    IN  /\ c.pc = pc /\ c.addr = addr /\ c.resp = resp /\ c.must = must
        /\ c.seen = seen /\ c.cur = cur /\ c.failed = failed
BY DEF Busy

\* The call that an activation is seen as.
LEMMA ViewIs ==
  ASSUME NEW f, f.pc # "idle"
  PROVE  View(f, stream, conns) =
           Busy(IF f.pc = "len" /\ conns[f.map] = {} THEN "nobody" ELSE f.pc,
                f.addr, f.resp,
                {stream[i] : i \in f.must}, {stream[i] : i \in f.seen},
                IF f.pc = "send" THEN stream[f.cur] ELSE NoSession,
                {stream[i] : i \in f.failed})
BY DEF View, Busy

LEMMA CallIs ==
  ASSUME NEW g \in Sessions, frame[g].pc # "idle"
  PROVE  Calls[g] =
           Busy(IF frame[g].pc = "len" /\ conns[frame[g].map] = {}
                THEN "nobody" ELSE frame[g].pc,
                frame[g].addr, frame[g].resp,
                {stream[i] : i \in frame[g].must}, {stream[i] : i \in frame[g].seen},
                IF frame[g].pc = "send" THEN stream[frame[g].cur] ELSE NoSession,
                {stream[i] : i \in frame[g].failed})
BY CallsAreViews, ViewIs

LEMMA IdleIsNoCall == View(Idle, stream, conns) = P!NoCall
BY DEF View, Idle, P!NoCall

LEMMA LookupCalls ==
  ASSUME HubInv, NEW g \in Sessions, NEW a \in Addrs, NEW r \in Resps,
         Calling(g, a, r)
  PROVE  P!Call(g, a, r) \/ UNCHANGED P!presenceVars
<1>1. /\ frame[g].pc = "idle" /\ g \in open
      /\ UNCHANGED <<registry, connID, alive, out>>
  BY DEF Calling, SendToUserLookup, In, SetFrame, grpc
<1>2. frame[g] = Idle
  BY <1>1 DEF HubInv, HubTypeOK, Frame
<1>3. Calls[g] = P!NoCall
  BY <1>2, CallsAreViews, IdleIsNoCall
<1>4. g \in Joined
  BY <1>1 DEF HubInv, IdsGivenOnce, Joined
<1>5. CASE streams[a] = NoMap
  <2>1. frame' = [frame EXCEPT ![g] = Idle]
    BY <1>5 DEF Calling, SendToUserLookup, SetFrame
  <2>2. P!SetCall(g, P!NoCall)
    BY <1>1, <2>1, SetFrameSetsCall, IdleIsNoCall
  <2>3. Calls' = Calls
    BY <1>3, <2>2 DEF P!SetCall, Calls
  <2> QED
    BY <1>1, <2>2, <2>3 DEF P!SetCall, P!presenceVars
<1>6. CASE streams[a] # NoMap
  <2> DEFINE f == NewFrame(a, r, streams[a])
  <2>1. frame' = [frame EXCEPT ![g] = f]
    BY <1>6 DEF Calling, SendToUserLookup, SetFrame
  <2>2. conns[streams[a]] # {} /\ P!Of(a) # {}
    BY <1>6, OfUser
  <2>3. View(f, stream, conns) = P!Called(a, r)
    BY <2>2 DEF View, NewFrame, P!Called
  <2> HIDE DEF f
  <2>4. P!SetCall(g, P!Called(a, r))
    BY <1>1, <2>1, <2>3, SetFrameSetsCall
  <2> QED
    BY <1>1, <1>3, <1>4, <2>2, <2>4 DEF P!Call
<1> QED
  BY <1>5, <1>6

LEMMA LenBegins ==
  ASSUME HubInv, NEW g \in Sessions, SendToUserLen(g)
  PROVE  P!Begin(g) \/ P!NotConnected(g)
<1> DEFINE old == frame[g]
           m == old.map
           must == {stream[i] : i \in old.must}
           seen == {stream[i] : i \in old.seen}
           failed == {stream[i] : i \in old.failed}
<1>1. old.pc = "len" /\ UNCHANGED <<registry, connID, alive, out>>
  BY DEF SendToUserLen, In, SetFrame, grpc
<1>2. old \in Frame /\ (conns[m] # {} => P!Of(old.addr) = {stream[i] : i \in conns[m]})
  BY <1>1, FrameFacts
<1>3. Calls[g] = Busy(IF conns[m] = {} THEN "nobody" ELSE "len", old.addr, old.resp,
                      must, seen, NoSession, failed)
  BY <1>1, CallIs
<1>4. CASE conns[m] = {}
  <2>1. frame' = [frame EXCEPT ![g] = Idle]
    BY <1>4 DEF SendToUserLen, SetFrame
  <2>2. P!SetCall(g, P!NoCall)
    BY <1>1, <2>1, SetFrameSetsCall, IdleIsNoCall
  <2>3. Calls[g].pc = "nobody"
    BY <1>3, <1>4, BusyFields
  <2> QED
    BY <1>1, <2>2, <2>3 DEF P!NotConnected
<1>5. CASE conns[m] # {}
  <2> DEFINE f == [old EXCEPT !.pc = "range", !.must = conns[m]]
             c == [Calls[g] EXCEPT !.pc = "range", !.must = P!Of(Calls[g].addr)]
  <2>1. frame' = [frame EXCEPT ![g] = f]
    BY <1>5 DEF SendToUserLen, SetFrame
  <2>2. /\ f.pc = "range" /\ f.addr = old.addr /\ f.resp = old.resp
        /\ f.must = conns[m] /\ f.seen = old.seen /\ f.failed = old.failed
    BY <1>2 DEF Frame
  <2>3. View(f, stream, conns) =
          Busy("range", old.addr, old.resp, P!Of(old.addr), seen, NoSession, failed)
    <3> HIDE DEF f
    <3> QED
      BY <1>2, <1>5, <2>2, ViewIs
  <2>4. Calls[g].pc = "len" /\ Calls[g].addr = old.addr
    BY <1>3, <1>5, BusyFields
  <2>5. c = Busy("range", old.addr, old.resp, P!Of(old.addr), seen, NoSession, failed)
    <3>1. PICK w : w = Calls[g]
      OBVIOUS
    <3>2. PICK x : x = P!Of(old.addr)
      OBVIOUS
    <3>3. PICK d : d = [w EXCEPT !.pc = "range", !.must = x]
      OBVIOUS
    <3>4. w = Busy("len", old.addr, old.resp, must, seen, NoSession, failed)
      BY <1>3, <1>5, <3>1
    <3>5. d = Busy("range", old.addr, old.resp, x, seen, NoSession, failed)
      <4> HIDE DEF must, seen, failed, old
      <4> QED
        BY <3>3, <3>4 DEF Busy
    <3> QED
      BY <2>4, <3>1, <3>2, <3>3, <3>5
  <2>6. P!SetCall(g, View(f, stream, conns))
    <3> HIDE DEF f
    <3> QED
      BY <1>1, <2>1, SetFrameSetsCall
  <2>7. P!SetCall(g, c)
    <3> HIDE DEF f, c
    <3> QED
      BY <2>3, <2>5, <2>6
  <2> QED
    BY <1>1, <2>4, <2>7 DEF P!Begin
<1> QED
  BY <1>4, <1>5

LEMMA NextReaches ==
  ASSUME HubInv, NEW g \in Sessions, RangeNext(g)
  PROVE  \E t \in Sessions : P!Reach(g, t)
<1> DEFINE old == frame[g]
           must == {stream[i] : i \in old.must}
           seen == {stream[i] : i \in old.seen}
           failed == {stream[i] : i \in old.failed}
<1>1. old.pc = "range" /\ UNCHANGED <<registry, connID, alive, out>>
  BY DEF RangeNext, Yield, In, SetFrame, grpc
<1>2. PICK id \in conns[old.map] \ old.seen :
        frame' = [frame EXCEPT ![g] = [old EXCEPT !.pc = "send", !.cur = id,
                                                  !.seen = old.seen \cup {id}]]
  BY DEF RangeNext, Yield, SetFrame
<1>3. Calls[g] = Busy("range", old.addr, old.resp, must, seen, NoSession, failed)
  BY <1>1, CallIs
<1> DEFINE f == [old EXCEPT !.pc = "send", !.cur = id, !.seen = old.seen \cup {id}]
           t == stream[id]
           c == [Calls[g] EXCEPT !.pc = "send", !.cur = t,
                                 !.seen = Calls[g].seen \cup {t}]
<1>4. /\ old \in Frame /\ P!Of(old.addr) = {stream[i] : i \in conns[old.map]}
      /\ old.map \in Ids
      /\ \A i \in old.seen : i \in Ids /\ i <= nextID
  BY <1>1, <1>2, FrameFacts DEF Given
<1>5. id \in Ids /\ id <= nextID /\ t \in Sessions
  <2>1. id \in Ids /\ id <= nextID
    BY <1>2, <1>4 DEF HubInv, HubTypeOK, MapsOfOneUser
  <2> QED
    BY <2>1, StreamsApart
<1>6. t \in P!Of(old.addr) /\ t \notin seen
  <2>1. \A i \in old.seen : stream[i] # t
    BY <1>2, <1>4, <1>5, StreamsApart
  <2> QED
    BY <1>2, <1>4, <2>1
<1>7. /\ f.pc = "send" /\ f.addr = old.addr /\ f.resp = old.resp /\ f.cur = id
      /\ f.must = old.must /\ f.seen = old.seen \cup {id} /\ f.failed = old.failed
  BY <1>4 DEF Frame
<1>8. {stream[i] : i \in f.seen} = seen \cup {t}
  <2> HIDE DEF f
  <2> QED
    BY <1>7
<1>9. View(f, stream, conns) =
        Busy("send", old.addr, old.resp, must, seen \cup {t}, t, failed)
  <2> HIDE DEF f
  <2> QED
    BY <1>7, <1>8, ViewIs
<1>10. Calls[g].pc = "range" /\ Calls[g].addr = old.addr /\ Calls[g].seen = seen
  BY <1>3, BusyFields
<1>11. c = Busy("send", old.addr, old.resp, must, seen \cup {t}, t, failed)
  <2>1. PICK w : w = Calls[g]
    OBVIOUS
  <2>2. PICK x : x = seen \cup {t}
    OBVIOUS
  <2>3. PICK d : d = [w EXCEPT !.pc = "send", !.cur = t, !.seen = x]
    OBVIOUS
  <2>4. w = Busy("range", old.addr, old.resp, must, seen, NoSession, failed)
    BY <1>3, <2>1
  <2>5. d = Busy("send", old.addr, old.resp, must, x, t, failed)
    <3> HIDE DEF must, seen, failed, t, old
    <3> QED
      BY <2>3, <2>4 DEF Busy
  <2> QED
    BY <1>10, <2>1, <2>2, <2>3, <2>5
<1>12. P!SetCall(g, View(f, stream, conns))
  <2>1. frame' = [frame EXCEPT ![g] = f]
    BY <1>2
  <2> HIDE DEF f
  <2> QED
    BY <1>1, <2>1, SetFrameSetsCall
<1>13. P!SetCall(g, c)
  <2> HIDE DEF f, c
  <2> QED
    BY <1>9, <1>11, <1>12
<1>14. P!Reach(g, t)
  BY <1>1, <1>6, <1>10, <1>13 DEF P!Reach
<1> QED
  BY <1>5, <1>14

LEMMA SendServes ==
  ASSUME HubInv, NEW g \in Sessions, RangeSend(g), Sending(g)
  PROVE  P!Serve(g)
<1> DEFINE old == frame[g]
           must == {stream[i] : i \in old.must}
           seen == {stream[i] : i \in old.seen}
           failed == {stream[i] : i \in old.failed}
           s == stream[old.cur]
           f == [old EXCEPT !.pc = "range", !.cur = 0]
           c == [Calls[g] EXCEPT !.pc = "range", !.cur = NoSession]
<1>1. /\ old.pc = "send" /\ s \in alive /\ frame' = [frame EXCEPT ![g] = f]
      /\ out' = [out EXCEPT ![s] = Append(out[s], [via |-> "hub", resp |-> old.resp])]
      /\ UNCHANGED <<registry, connID, alive>>
  BY DEF RangeSend, Sending, Accept, In, SetFrame
<1>2. old \in Frame
  BY <1>1, FrameFacts
<1>3. Calls[g] = Busy("send", old.addr, old.resp, must, seen, s, failed)
  BY <1>1, CallIs
<1>4. Calls[g].pc = "send" /\ Calls[g].cur = s /\ Calls[g].resp = old.resp
  BY <1>3, BusyFields
<1>5. /\ f.pc = "range" /\ f.addr = old.addr /\ f.resp = old.resp
      /\ f.must = old.must /\ f.seen = old.seen /\ f.failed = old.failed
  BY <1>2 DEF Frame
<1>6. View(f, stream, conns) =
        Busy("range", old.addr, old.resp, must, seen, NoSession, failed)
  <2> HIDE DEF f
  <2> QED
    BY <1>5, ViewIs
<1>7. c = Busy("range", old.addr, old.resp, must, seen, NoSession, failed)
  <2>1. PICK w : w = Calls[g]
    OBVIOUS
  <2>2. PICK d : d = [w EXCEPT !.pc = "range", !.cur = NoSession]
    OBVIOUS
  <2>3. w = Busy("send", old.addr, old.resp, must, seen, s, failed)
    BY <1>3, <2>1
  <2>4. d = Busy("range", old.addr, old.resp, must, seen, NoSession, failed)
    <3> HIDE DEF must, seen, failed, s, old
    <3> QED
      BY <2>2, <2>3 DEF Busy
  <2> QED
    BY <2>1, <2>2, <2>4
<1>8. P!SetCall(g, View(f, stream, conns))
  <2> HIDE DEF f
  <2> QED
    BY <1>1, SetFrameSetsCall
<1>9. P!SetCall(g, c)
  <2> HIDE DEF f, c
  <2> QED
    BY <1>6, <1>7, <1>8
<1> QED
  BY <1>1, <1>4, <1>9 DEF P!Serve

LEMMA SendBlames ==
  ASSUME HubInv, NEW g \in Sessions, RangeSend(g), SendingFails(g)
  PROVE  P!Blame(g)
<1> DEFINE old == frame[g]
           must == {stream[i] : i \in old.must}
           seen == {stream[i] : i \in old.seen}
           failed == {stream[i] : i \in old.failed}
           s == stream[old.cur]
           f == [old EXCEPT !.pc = "range", !.cur = 0, !.failed = old.failed \cup {old.cur}]
           c == [Calls[g] EXCEPT !.pc = "range", !.cur = NoSession,
                                 !.failed = Calls[g].failed \cup {s}]
<1>1. /\ old.pc = "send" /\ s \notin alive /\ frame' = [frame EXCEPT ![g] = f]
      /\ UNCHANGED <<registry, connID, alive, out>>
  BY DEF RangeSend, SendingFails, Refuse, In, SetFrame, grpc
<1>2. old \in Frame
  BY <1>1, FrameFacts
<1>3. Calls[g] = Busy("send", old.addr, old.resp, must, seen, s, failed)
  BY <1>1, CallIs
<1>4. Calls[g].pc = "send" /\ Calls[g].cur = s /\ Calls[g].failed = failed
  BY <1>3, BusyFields
<1>5. /\ f.pc = "range" /\ f.addr = old.addr /\ f.resp = old.resp
      /\ f.must = old.must /\ f.seen = old.seen
      /\ f.failed = old.failed \cup {old.cur}
  BY <1>2 DEF Frame
<1>6. View(f, stream, conns) =
        Busy("range", old.addr, old.resp, must, seen, NoSession, failed \cup {s})
  <2>1. {stream[i] : i \in f.failed} = failed \cup {s}
    <3> HIDE DEF f
    <3> QED
      BY <1>5
  <2> HIDE DEF f
  <2> QED
    BY <1>5, <2>1, ViewIs
<1>7. c = Busy("range", old.addr, old.resp, must, seen, NoSession, failed \cup {s})
  <2>1. PICK w : w = Calls[g]
    OBVIOUS
  <2>2. PICK x : x = failed \cup {s}
    OBVIOUS
  <2>3. PICK d : d = [w EXCEPT !.pc = "range", !.cur = NoSession, !.failed = x]
    OBVIOUS
  <2>4. w = Busy("send", old.addr, old.resp, must, seen, s, failed)
    BY <1>3, <2>1
  <2>5. d = Busy("range", old.addr, old.resp, must, seen, NoSession, x)
    <3> HIDE DEF must, seen, failed, s, old
    <3> QED
      BY <2>3, <2>4 DEF Busy
  <2> QED
    BY <1>4, <2>1, <2>2, <2>3, <2>5
<1>8. P!SetCall(g, View(f, stream, conns))
  <2> HIDE DEF f
  <2> QED
    BY <1>1, SetFrameSetsCall
<1>9. P!SetCall(g, c)
  <2> HIDE DEF f, c
  <2> QED
    BY <1>6, <1>7, <1>8
<1> QED
  BY <1>1, <1>4, <1>9 DEF P!Blame

LEMMA EndEnds ==
  ASSUME HubInv, AtHome, NEW g \in Sessions, RangeEnd(g)
  PROVE  P!End(g)
<1> DEFINE old == frame[g]
           must == {stream[i] : i \in old.must}
           seen == {stream[i] : i \in old.seen}
           failed == {stream[i] : i \in old.failed}
<1>1. /\ old.pc = "range" /\ UNCHANGED <<registry, connID, alive, out>>
      /\ old.must \cap conns[old.map] \subseteq old.seen
  BY DEF RangeEnd, In, SetFrame, grpc
<1>2. /\ old \in Frame
      /\ \A i \in Given(old) : i \in Ids /\ i <= nextID
  BY <1>1, FrameFacts
<1>3. Calls[g] = Busy("range", old.addr, old.resp, must, seen, NoSession, failed)
  BY <1>1, CallIs
<1>4. /\ Calls[g].pc = "range" /\ Calls[g].must = must /\ Calls[g].seen = seen
      /\ Calls[g].failed = failed
  BY <1>3, BusyFields
<1>5. must \cap Present \subseteq seen
  <2> SUFFICES ASSUME NEW i \in old.must, stream[i] \in Present
               PROVE  stream[i] \in seen
    OBVIOUS
  <2>1. i \in Given(old)
    BY DEF Given
  <2>2. PICK n \in Ids : i \in conns[n]
    BY <1>2, <2>1, PresentIds
  <2>3. n = old.map
    BY <1>1, <2>1, <2>2 DEF AtHome, AtHomeIn
  <2> QED
    BY <1>1, <2>2, <2>3
<1>6. failed = {} <=> old.failed = {}
  OBVIOUS
<1>7. CASE old.failed = {}
  <2>1. frame' = [frame EXCEPT ![g] = Idle]
    BY <1>7 DEF RangeEnd, SetFrame
  <2>2. P!SetCall(g, P!NoCall)
    BY <1>1, <2>1, SetFrameSetsCall, IdleIsNoCall
  <2>3. P!Purging(Calls[g], Calls[g].failed) = P!NoCall
    BY <1>4, <1>6, <1>7 DEF P!Purging
  <2> QED
    BY <1>1, <1>4, <1>5, <2>2, <2>3 DEF P!End
<1>8. CASE old.failed # {}
  <2> DEFINE f == [old EXCEPT !.pc = "purge"]
             c == P!Purging(Calls[g], Calls[g].failed)
  <2>1. frame' = [frame EXCEPT ![g] = f]
    BY <1>8 DEF RangeEnd, SetFrame
  <2>2. /\ f.pc = "purge" /\ f.addr = old.addr /\ f.resp = old.resp
        /\ f.must = old.must /\ f.seen = old.seen /\ f.failed = old.failed
    BY <1>2 DEF Frame
  <2>3. View(f, stream, conns) =
          Busy("purge", old.addr, old.resp, must, seen, NoSession, failed)
    <3> HIDE DEF f
    <3> QED
      BY <2>2, ViewIs
  <2>4. c = Busy("purge", old.addr, old.resp, must, seen, NoSession, failed)
    <3>1. PICK w : w = Calls[g]
      OBVIOUS
    <3>2. PICK d : d = [w EXCEPT !.pc = "purge", !.failed = failed]
      OBVIOUS
    <3>3. w = Busy("range", old.addr, old.resp, must, seen, NoSession, failed)
      BY <1>3, <3>1
    <3>4. d = Busy("purge", old.addr, old.resp, must, seen, NoSession, failed)
      <4> HIDE DEF must, seen, failed, old
      <4> QED
        BY <3>2, <3>3 DEF Busy
    <3>5. c = [Calls[g] EXCEPT !.pc = "purge", !.failed = failed]
      BY <1>4, <1>6, <1>8 DEF P!Purging
    <3> QED
      BY <3>1, <3>2, <3>4, <3>5
  <2>5. P!SetCall(g, View(f, stream, conns))
    <3> HIDE DEF f
    <3> QED
      BY <1>1, <2>1, SetFrameSetsCall
  <2>6. P!SetCall(g, c)
    <3> HIDE DEF f, c
    <3> QED
      BY <2>3, <2>4, <2>5
  <2> QED
    BY <1>1, <1>4, <1>5, <2>6 DEF P!End
<1> QED
  BY <1>7, <1>8

LEMMA FailedLeave ==
  ASSUME HubInv, AtHome, NEW g \in Sessions, UnregisterFailed(g)
  PROVE  \E t \in Sessions : P!Purge(g, t)
<1> DEFINE old == frame[g]
           must == {stream[i] : i \in old.must}
           seen == {stream[i] : i \in old.seen}
           failed == {stream[i] : i \in old.failed}
<1>1. old.pc = "purge" /\ UNCHANGED <<stream, connID, alive, out>>
  BY DEF UnregisterFailed, In, grpc
<1>2. PICK id \in old.failed :
        /\ Unregister(old.addr, id)
        /\ frame' = [frame EXCEPT ![g] =
             IF old.failed = {id}
             THEN Idle
             ELSE [old EXCEPT !.failed = old.failed \ {id}]]
  BY DEF UnregisterFailed
<1> DEFINE t == stream[id]
           f == frame'[g]
           rest == failed \ {t}
           c == P!Purging(Calls[g], Calls[g].failed \ {t})
<1>3. /\ old \in Frame /\ old.addr \in Addrs
      /\ \A i \in old.failed : i \in Ids /\ i <= nextID /\ stream[i] \in Sessions
  BY <1>1, FrameFacts DEF Given
<1>4. Owner[t] = old.addr
  BY <1>1 DEF AtHome, AtHomeIn, Given
<1>5. /\ Present' = Present \ {t}
      /\ \A h \in Sessions : View(frame[h], stream, conns')
                              = P!LeftBy(t, View(frame[h], stream, conns))
  BY <1>1, <1>2, <1>3, <1>4, UnregisterLeaves
<1>6. /\ \A h \in Sessions \ {g} : frame'[h] = frame[h]
      /\ f = IF old.failed = {id} THEN Idle ELSE [old EXCEPT !.failed = old.failed \ {id}]
  BY <1>2 DEF HubInv, HubTypeOK
<1>7. Calls[g] = Busy("purge", old.addr, old.resp, must, seen, NoSession, failed)
  BY <1>1, CallIs
<1>8. Calls[g].pc = "purge" /\ Calls[g].failed = failed /\ t \in failed
  BY <1>7, BusyFields
<1>9. {stream[i] : i \in old.failed \ {id}} = rest
  <2>1. \A i \in old.failed : i # id => stream[i] # t
    BY <1>3, StreamsApart
  <2> QED
    BY <2>1
<1>10. View(f, stream, conns') = c /\ P!LeftBy(t, c) = c
  <2>1. CASE old.failed = {id}
    <3>1. f = Idle /\ rest = {}
      BY <1>6, <1>9, <2>1
    <3>2. View(Idle, stream, conns') = P!NoCall
      BY DEF View, Idle, P!NoCall
    <3>3. c = P!NoCall
      BY <1>8, <3>1 DEF P!Purging
    <3>4. P!LeftBy(t, P!NoCall) = P!NoCall
      BY DEF P!LeftBy, P!NoCall
    <3> HIDE DEF c, f
    <3> QED
      BY <3>1, <3>2, <3>3, <3>4
  <2>2. CASE old.failed # {id}
    <3>1. PICK j \in old.failed : j # id
      BY <2>2
    <3>2. rest # {}
      BY <1>9, <3>1
    <3>3. f = [old EXCEPT !.failed = old.failed \ {id}]
      BY <1>6, <2>2
    <3>4. /\ f.pc = "purge" /\ f.addr = old.addr /\ f.resp = old.resp
          /\ f.must = old.must /\ f.seen = old.seen
          /\ f.failed = old.failed \ {id}
      BY <1>1, <1>3, <3>3 DEF Frame
    <3>5. {stream[i] : i \in f.failed} = rest
      BY <1>9, <3>4
    <3>6. View(f, stream, conns') =
            Busy("purge", old.addr, old.resp, must, seen, NoSession, rest)
      <4> HIDE DEF f, rest
      <4> QED
        BY <3>4, <3>5 DEF View, Busy
    <3>7. c = Busy("purge", old.addr, old.resp, must, seen, NoSession, rest)
      <4>1. PICK w : w = Calls[g]
        OBVIOUS
      <4>2. PICK d : d = [w EXCEPT !.pc = "purge", !.failed = rest]
        OBVIOUS
      <4>3. w = Busy("purge", old.addr, old.resp, must, seen, NoSession, failed)
        BY <1>7, <4>1
      <4>4. d = Busy("purge", old.addr, old.resp, must, seen, NoSession, rest)
        <5> HIDE DEF must, seen, failed, rest, old
        <5> QED
          BY <4>2, <4>3 DEF Busy
      <4>5. c = [Calls[g] EXCEPT !.pc = "purge", !.failed = rest]
        BY <1>8, <3>2 DEF P!Purging
      <4> QED
        BY <4>1, <4>2, <4>4, <4>5
    <3>8. c.pc = "purge"
      <4> HIDE DEF c
      <4> QED
        BY <3>7, BusyFields
    <3>9. P!LeftBy(t, c) = c
      <4> HIDE DEF c
      <4> QED
        BY <3>8 DEF P!LeftBy
    <3> QED
      BY <3>6, <3>7, <3>9
  <2> QED
    BY <2>1, <2>2
<1>11. Calls' = [h \in Sessions |-> P!LeftBy(t, [Calls EXCEPT ![g] = c][h])]
  <2> HIDE DEF c, f
  <2>1. Calls' = [h \in Sessions |-> View(frame'[h], stream, conns')]
    BY <1>1, CallsAreViews
  <2>2. \A h \in Sessions : [Calls EXCEPT ![g] = c][h] = IF h = g THEN c ELSE Calls[h]
    BY DEF Calls
  <2>3. \A h \in Sessions : Calls[h] = View(frame[h], stream, conns)
    BY CallsAreViews
  <2>4. View(frame'[g], stream, conns') = P!LeftBy(t, c)
    BY <1>10 DEF f
  <2>5. \A h \in Sessions : View(frame'[h], stream, conns')
                             = P!LeftBy(t, [Calls EXCEPT ![g] = c][h])
    BY <1>5, <1>6, <2>2, <2>3, <2>4
  <2> QED
    BY <2>1, <2>5
<1>12. Joined' = Joined
  BY <1>1 DEF Joined
<1>13. P!Leave(t, [Calls EXCEPT ![g] = c])
  <2> HIDE DEF c
  <2> QED
    BY <1>1, <1>5, <1>11, <1>12 DEF P!Leave
<1>14. P!Purge(g, t) /\ t \in Sessions
  BY <1>3, <1>8, <1>13 DEF P!Purge
<1> QED
  BY <1>14

-------------------------------------------------------------------------------
(* The hub is what Presence says.                                             *)

LEMMA PresenceInitially == HubInit => P!PresenceInit
<1> SUFFICES ASSUME HubInit PROVE P!PresenceInit
  OBVIOUS
<1>1. Joined = {} /\ Present = {}
  BY DEF HubInit, Joined, Present, StreamsOf
<1>2. Calls = [g \in Sessions |-> P!NoCall]
  BY CallsAreViews, IdleIsNoCall DEF HubInit
<1> QED
  BY <1>1, <1>2 DEF HubInit, P!PresenceInit

LEMMA StreamsBreak ==
  ASSUME HubInv, NEW s \in Sessions, Breaking(s)
  PROVE  P!Break(s)
<1>1. s \in alive /\ s \in Joined
  BY DEF Breaking, Joined
<1>2. UNCHANGED <<stream, conns>>
  BY DEF Breaking, registry
<1>3. Joined' = Joined /\ Present' = Present /\ Calls' = Calls
  BY <1>2 DEF Breaking, Joined, Present, StreamsOf, Calls, CallOf
<1> QED
  BY <1>1, <1>3 DEF Breaking, P!Break

LEMMA QuietPresence ==
  ASSUME Unseen
  PROVE  UNCHANGED P!presenceVars
<1>1. UNCHANGED <<stream, conns>>
  BY DEF Unseen, registry
<1>2. Joined' = Joined /\ Present' = Present /\ Calls' = Calls
  BY <1>1 DEF Unseen, Joined, Present, StreamsOf, Calls, CallOf
<1> QED
  BY <1>2 DEF Unseen, P!presenceVars

\* Every step of the hub, whoever takes it, is one of Presence or a stutter.
LEMMA PresenceSteps ==
  ASSUME HubInv, AtHome, HubStep
  PROVE  [P!PresenceNext]_(P!presenceVars)
<1>1. ASSUME NEW s \in Sessions, Joining(s) PROVE P!PresenceNext
  BY <1>1, ConnectJoins DEF P!PresenceNext
<1>2. ASSUME NEW s \in Sessions, Parting(s)
      PROVE  [P!PresenceNext]_(P!presenceVars)
  BY <1>2, DisconnectParts DEF P!PresenceNext
<1>3. ASSUME NEW s \in Sessions, Breaking(s) PROVE P!PresenceNext
  BY <1>3, StreamsBreak DEF P!PresenceNext
<1>4. ASSUME NEW g \in Sessions, NEW a \in Addrs, NEW r \in Resps, Calling(g, a, r)
      PROVE  [P!PresenceNext]_(P!presenceVars)
  BY <1>4, LookupCalls DEF P!PresenceNext
<1>5. ASSUME NEW g \in Sessions, SendToUserStep(g) PROVE P!PresenceNext
  <2>1. CASE SendToUserLen(g)
    BY <2>1, LenBegins DEF P!PresenceNext
  <2>2. CASE RangeNext(g)
    BY <2>2, NextReaches DEF P!PresenceNext
  <2>3. CASE RangeSend(g)
    BY <2>3, SendServes, SendBlames DEF RangeSend, P!PresenceNext
  <2>4. CASE RangeEnd(g)
    BY <2>4, EndEnds DEF P!PresenceNext
  <2>5. CASE UnregisterFailed(g)
    BY <2>5, FailedLeave DEF P!PresenceNext
  <2> QED
    BY <1>5, <2>1, <2>2, <2>3, <2>4, <2>5 DEF SendToUserStep
<1>6. CASE Unseen
  BY <1>6, QuietPresence
<1> QED
  BY <1>1, <1>2, <1>3, <1>4, <1>5, <1>6 DEF HubStep

-------------------------------------------------------------------------------
(* The hub with the driver of Hub.                                            *)

LEMMA DriverSteps ==
  ASSUME HubInv, FreshIntact, [HubNext]_hubVars
  PROVE  HubStep
<1>1. ASSUME NEW s \in Sessions, Connect(s) PROVE Joining(s)
  BY <1>1 DEF Connect, Joining, FreshIntact
<1>2. ASSUME NEW s \in Sessions, Disconnect(s) PROVE Parting(s)
  BY <1>2 DEF Disconnect, Parting
<1>3. ASSUME NEW s \in Sessions, EndRPC(s) \/ Break(s) PROVE Breaking(s)
  BY <1>3 DEF Break, EndRPC, Breaking, HubInv, IdsGivenOnce
<1>4. ASSUME NEW s \in Sessions, ClientRead(s) PROVE Unseen
  BY <1>4 DEF ClientRead, Unseen
<1>5. ASSUME NEW g \in Sessions, NEW a \in Addrs, NEW r \in Resps, SendToUser(g, a, r)
      PROVE  Calling(g, a, r)
  BY <1>5 DEF SendToUser, Calling
<1>6. UNCHANGED hubVars => Unseen
  BY DEF hubVars, registry, Unseen
<1>7. CASE HubNext
  <2>1. PICK s \in Sessions :
          \/ Connect(s) \/ Disconnect(s) \/ EndRPC(s) \/ Break(s) \/ ClientRead(s)
          \/ SendToUserStep(s)
          \/ \E a \in Addrs, r \in Resps : SendToUser(s, a, r)
    BY <1>7 DEF HubNext
  <2>2. CASE \E a \in Addrs, r \in Resps : SendToUser(s, a, r)
    BY <1>5, <2>2 DEF HubStep
  <2> QED
    BY <1>1, <1>2, <1>3, <1>4, <2>1, <2>2 DEF HubStep
<1> QED
  BY <1>6, <1>7 DEF HubStep

\* Only streams that joined break, and none that joined loses its id.
LEMMA FreshKept ==
  ASSUME HubInv, HubStep
  PROVE  \A s \in Sessions :
           connID'[s] = 0 => connID[s] = 0 /\ (s \in alive' <=> s \in alive)
<1>1. ASSUME NEW s \in Sessions, Joining(s)
      PROVE  /\ alive' = alive
             /\ \A t \in Sessions : connID'[t] = 0 => connID[t] = 0
  <2>1. connID' = [connID EXCEPT ![s] = nextID + 1] /\ alive' = alive
    BY <1>1 DEF Joining, Register, AddConnection
  <2>2. nextID + 1 # 0
    BY DEF HubInv, HubTypeOK
  <2> QED
    BY <2>1, <2>2 DEF HubInv, HubTypeOK
<1>2. ASSUME NEW s \in Sessions, Breaking(s)
      PROVE  /\ connID' = connID
             /\ \A t \in Sessions : connID[t] = 0 => (t \in alive' <=> t \in alive)
  BY <1>2 DEF Breaking
<1>3. ASSUME NEW s \in Sessions,
             \/ Parting(s) \/ SendToUserStep(s)
             \/ \E a \in Addrs, r \in Resps : Calling(s, a, r)
      PROVE  UNCHANGED <<connID, alive>>
  BY <1>3 DEF Parting, DeferredUnregister, Calling, SendToUserLookup, SendToUserStep,
              SendToUserLen, RangeNext, RangeSend, RangeEnd, UnregisterFailed, Yield,
              Sending, SendingFails, Accept, Refuse, SetFrame, grpc
<1> QED
  BY <1>1, <1>2, <1>3 DEF HubStep, Unseen

LEMMA AtHomeAlways == HubSpec => [](FreshIntact /\ AtHome)
<1>1. HubInit => FreshIntact /\ AtHome
  BY DEF HubInit, FreshIntact, AtHome, Idle
<1>2. HubInv /\ FreshIntact /\ AtHome /\ [HubNext]_hubVars => (FreshIntact /\ AtHome)'
  <2> SUFFICES ASSUME HubInv, FreshIntact, AtHome, [HubNext]_hubVars
               PROVE  (FreshIntact /\ AtHome)'
    OBVIOUS
  <2>1. HubStep
    BY DriverSteps
  <2> QED
    BY <2>1, AtHomeNext, FreshKept DEF FreshIntact
<1> QED
  BY <1>1, <1>2, HubInvariant, PTL DEF HubSpec

\* The hub's maps of maps, ids and unlocked ranges implement Presence: one set of
\* streams per user, which changes atomically, and calls that pass over it.
THEOREM HubIsPresence == HubSpec => PresenceSpec
<1>1. HubInv /\ FreshIntact /\ AtHome /\ [HubNext]_hubVars
        => [P!PresenceNext]_(P!presenceVars)
  BY DriverSteps, PresenceSteps
<1>2. HubSpec => P!PresenceInit
  BY PresenceInitially DEF HubSpec
<1>3. HubSpec => [][P!PresenceNext]_(P!presenceVars)
  BY <1>1, HubInvariant, AtHomeAlways, PTL DEF HubSpec
<1> QED
  BY <1>2, <1>3 DEF PresenceSpec, P!PresenceSpec
===============================================================================
