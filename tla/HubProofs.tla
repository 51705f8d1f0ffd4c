------------------------------- MODULE HubProofs -------------------------------
(*****************************************************************************)
(* Proofs about Hub: HubInv is an invariant of HubSpec, and the properties   *)
(* of the hub that follow from it, for every set of users, sessions and      *)
(* responses and every bound on the connections.                             *)
(*                                                                           *)
(* One lemma per operation shows that the operation preserves HubInv, with   *)
(* the variables it leaves alone as hypotheses, so that a module which       *)
(* composes the hub with its callers can cite it for its own actions.        *)
(*****************************************************************************)
EXTENDS Hub, FiniteSetTheorems, TLAPS

\* Connection ids and the names of inner maps.
LEMMA IdFacts ==
  /\ Ids \subseteq Nat
  /\ 0 \notin Ids
  /\ NoMap = 0
  /\ \A m \in MapNames : m # NoMap => m \in Ids
  /\ Ids \subseteq MapNames
  /\ NoMap \in MapNames
  /\ NoSession \notin Sessions
  /\ \A s \in Sessions : Owner[s] \in Addrs
BY HubAssumption DEF Ids, NoMap, MapNames

\* An activation that is not idle is a proper frame.
LEMMA FrameTyped ==
  ASSUME HubTypeOK, NEW g \in Sessions, frame[g].pc # "idle"
  PROVE  frame[g] \in Frame
BY DEF HubTypeOK, Idle

\* A step that only replaces g's activation by one that is accounted for.
LEMMA FrameStep ==
  ASSUME HubInv, NEW g \in Sessions, NEW f \in {Idle} \cup Frame,
         FrameAccounted(f),
         frame' = [frame EXCEPT ![g] = f],
         UNCHANGED <<registry, connID, open, grpc, proc>>
  PROVE  HubInv'
<1>1. HubTypeOK'
  BY DEF HubInv, HubTypeOK, registry, grpc
<1>2. IdsGivenOnce' /\ MapsOfOneUser' /\ HealthyRegistered'
  BY DEF HubInv, IdsGivenOnce, MapsOfOneUser, HealthyRegistered, registry, grpc
<1>3. \A h \in Sessions : FrameAccounted(frame[h])'
  <2> TAKE h \in Sessions
  <2>1. frame'[h] = IF h = g THEN f ELSE frame[h]
    BY DEF HubInv, HubTypeOK
  <2>2. FrameAccounted(frame'[h])
    BY <2>1 DEF HubInv
  <2> QED
    BY <2>2 DEF FrameAccounted, Got, registry, grpc
<1> QED
  BY <1>1, <1>2, <1>3 DEF HubInv

\* A stream that takes a response keeps what it had.
LEMMA GotGrows ==
  ASSUME HubTypeOK, NEW s \in Sessions, NEW via \in {"ack", "hub"},
         NEW r \in Resps, Accept(s, via, r)
  PROVE  /\ out' \in [Sessions -> Seq(Sent)]
         /\ \A t \in Sessions, x \in Resps : Got(t, x) => Got(t, x)'
         /\ via = "hub" => Got(s, r)'
<1> DEFINE e == [via |-> via, resp |-> r]
<1>1. e \in Sent /\ out[s] \in Seq(Sent)
  BY DEF Sent, HubTypeOK
<1>2. out' = [out EXCEPT ![s] = Append(out[s], e)]
  BY DEF Accept
<1>3. out' \in [Sessions -> Seq(Sent)]
  BY <1>1, <1>2 DEF HubTypeOK
<1>4. \A t \in Sessions, x \in Resps : Got(t, x) => Got(t, x)'
  <2> SUFFICES ASSUME NEW t \in Sessions, NEW x \in Resps, Got(t, x)
               PROVE  Got(t, x)'
    OBVIOUS
  <2>1. PICK i \in 1 .. Len(out[t]) : out[t][i] = [via |-> "hub", resp |-> x]
    BY DEF Got
  <2>2. out[t] \in Seq(Sent)
    BY DEF HubTypeOK
  <2>3. i \in 1 .. Len(out'[t]) /\ out'[t][i] = out[t][i]
    BY <1>1, <1>2, <2>1, <2>2 DEF HubTypeOK
  <2> QED
    BY <2>1, <2>3 DEF Got
<1>5. via = "hub" => Got(s, r)'
  <2> SUFFICES ASSUME via = "hub" PROVE Got(s, r)'
    OBVIOUS
  <2>1. out'[s] = Append(out[s], e)
    BY <1>2 DEF HubTypeOK
  <2>2. Len(out'[s]) = Len(out[s]) + 1 /\ out'[s][Len(out[s]) + 1] = e /\ Len(out[s]) \in Nat
    BY <1>1, <2>1
  <2> QED
    BY <2>2 DEF Got
<1> QED
  BY <1>3, <1>4, <1>5

-------------------------------------------------------------------------------
(* SendToUser.                                                                *)

\* SendToUser finding the map of its addressee preserves HubInv.
LEMMA LookupStep ==
  ASSUME HubInv, NEW g \in Sessions, NEW a \in Addrs, NEW r \in Resps,
         SendToUserLookup(g, a, r)
  PROVE  HubInv'
<1> DEFINE new == [pc |-> "len", addr |-> a, resp |-> r, map |-> streams[a],
                   must |-> {}, seen |-> {}, cur |-> 0, failed |-> {}]
           f == IF streams[a] = NoMap THEN Idle ELSE new
<1>1. f \in {Idle} \cup Frame
  BY IdFacts DEF HubInv, HubTypeOK, Frame
<1>2. FrameAccounted(f)
  BY DEF HubInv, MapsOfOneUser, FrameAccounted, Idle
<1>3. frame' = [frame EXCEPT ![g] = f]
  BY DEF SendToUserLookup, In, SetFrame, NewFrame
<1> HIDE DEF f
<1> QED
  BY <1>1, <1>2, <1>3, FrameStep DEF SendToUserLookup, In, SetFrame, NewFrame

\* SendToUser starting its range preserves HubInv.
LEMMA LenStep ==
  ASSUME HubInv, NEW g \in Sessions, SendToUserLen(g)
  PROVE  HubInv'
<1> DEFINE old == frame[g]
           members == conns[old.map]
           f == IF members = {} THEN Idle
                ELSE [old EXCEPT !.pc = "range", !.must = members]
<1>1. old \in Frame /\ old.pc = "len" /\ FrameAccounted(old)
  BY FrameTyped DEF HubInv, SendToUserLen, In, SetFrame
<1>2. members \subseteq Ids /\ \A id \in members : id <= nextID
  BY <1>1 DEF HubInv, HubTypeOK, MapsOfOneUser, Frame
<1>3. f \in {Idle} \cup Frame
  BY <1>1, <1>2 DEF Frame
<1>4. FrameAccounted(f)
  BY <1>1, <1>2 DEF FrameAccounted, Idle, Frame
<1>5. frame' = [frame EXCEPT ![g] = f]
  BY DEF SendToUserLen, HubInv, HubTypeOK, In, SetFrame
<1> HIDE DEF f
<1> QED
  BY <1>3, <1>4, <1>5, FrameStep DEF SendToUserLen, In, SetFrame

\* The range yielding a connection preserves HubInv.
LEMMA NextStep ==
  ASSUME HubInv, NEW g \in Sessions, RangeNext(g)
  PROVE  HubInv'
<1> DEFINE old == frame[g]
<1>1. old \in Frame /\ old.pc = "range" /\ FrameAccounted(old)
  BY FrameTyped DEF HubInv, RangeNext, In, Yield, SetFrame
<1>2. PICK id \in conns[old.map] \ old.seen :
        frame' = [frame EXCEPT ![g] =
          [old EXCEPT !.pc = "send", !.cur = id, !.seen = old.seen \cup {id}]]
  BY DEF RangeNext, HubInv, HubTypeOK, In, Yield, SetFrame
<1> DEFINE f == [old EXCEPT !.pc = "send", !.cur = id,
                             !.seen = old.seen \cup {id}]
<1>3. /\ id \in Ids
      /\ id <= nextID
      /\ Owner[stream[id]] = old.addr
  BY <1>1 DEF HubInv, HubTypeOK, MapsOfOneUser, FrameAccounted, Frame
<1>4. f \in {Idle} \cup Frame
  BY <1>1, <1>3 DEF Frame
<1>5. FrameAccounted(f)
  BY <1>1, <1>3 DEF FrameAccounted, Frame
<1>6. frame' = [frame EXCEPT ![g] = f]
  BY <1>2
<1> HIDE DEF f
<1> QED
  BY <1>4, <1>5, <1>6, FrameStep DEF RangeNext, In, Yield, SetFrame

\* The end of the range preserves HubInv.
LEMMA EndStep ==
  ASSUME HubInv, NEW g \in Sessions, RangeEnd(g)
  PROVE  HubInv'
<1> DEFINE old == frame[g]
           f == IF old.failed = {} THEN Idle ELSE [old EXCEPT !.pc = "purge"]
<1>1. old \in Frame /\ old.pc = "range" /\ FrameAccounted(old)
  BY FrameTyped DEF HubInv, RangeEnd, In, SetFrame
<1>2. f \in {Idle} \cup Frame
  BY <1>1 DEF Frame
<1>3. FrameAccounted(f)
  BY <1>1 DEF FrameAccounted, Idle, Frame, RangeEnd, In, SetFrame
<1>4. frame' = [frame EXCEPT ![g] = f]
  BY DEF RangeEnd, HubInv, HubTypeOK, In, SetFrame
<1> HIDE DEF f
<1> QED
  BY <1>2, <1>3, <1>4, FrameStep DEF RangeEnd, In, SetFrame

\* A Send, for the hub or as an acknowledgement, disturbs no one else.
LEMMA AcceptStep ==
  ASSUME HubInv, NEW s \in Sessions, NEW via \in {"ack", "hub"},
         NEW r \in Resps, Accept(s, via, r),
         UNCHANGED <<registry, connID, open, frame, proc>>
  PROVE  HubInv'
<1>1. /\ out' \in [Sessions -> Seq(Sent)]
      /\ \A t \in Sessions, x \in Resps : Got(t, x) => Got(t, x)'
  BY GotGrows DEF HubInv
<1>2. HubTypeOK'
  BY <1>1 DEF HubInv, HubTypeOK, registry, Accept
<1>3. IdsGivenOnce' /\ MapsOfOneUser' /\ HealthyRegistered'
  BY DEF HubInv, IdsGivenOnce, MapsOfOneUser, HealthyRegistered, registry, Accept
<1>4. \A h \in Sessions : FrameAccounted(frame[h])'
  <2> SUFFICES ASSUME NEW h \in Sessions, frame[h].pc # "idle"
               PROVE  FrameAccounted(frame[h])'
    BY DEF FrameAccounted
  <2>1. frame[h] \in Frame /\ FrameAccounted(frame[h])
    BY FrameTyped DEF HubInv
  <2>2. \A id \in frame[h].seen : Got(stream[id], frame[h].resp)
                                  => Got(stream[id], frame[h].resp)'
    <3> TAKE id \in frame[h].seen
    <3>1. id \in Ids /\ id <= nextID /\ stream[id] \in Sessions
      BY <2>1 DEF FrameAccounted, Frame, HubInv, IdsGivenOnce
    <3> QED
      BY <1>1, <2>1, <3>1 DEF Frame, registry
  <2> QED
    BY <2>1, <2>2 DEF FrameAccounted, registry, Accept
<1> QED
  BY <1>2, <1>3, <1>4 DEF HubInv

\* A Send of the range, successful or not, preserves HubInv.
LEMMA SendStep ==
  ASSUME HubInv, NEW g \in Sessions, RangeSend(g)
  PROVE  HubInv'
<1> DEFINE old == frame[g]
<1>1. old \in Frame /\ old.pc = "send" /\ FrameAccounted(old)
  BY FrameTyped DEF HubInv, RangeSend, In, Sending, SendingFails, SetFrame
<1>2. old.cur \in old.seen /\ old.cur \in Ids /\ stream[old.cur] \in Sessions
  BY <1>1 DEF FrameAccounted, Frame, HubInv, IdsGivenOnce
<1> PICK s \in Sessions, r \in Resps : s = stream[old.cur] /\ r = old.resp
  BY <1>1, <1>2 DEF Frame
<1>3. CASE /\ Accept(s, "hub", r)
           /\ frame' = [frame EXCEPT ![g] =
                         [old EXCEPT !.pc = "range", !.cur = 0]]
  <2> DEFINE f == [old EXCEPT !.pc = "range", !.cur = 0]
  <2>1. /\ out' \in [Sessions -> Seq(Sent)]
        /\ \A t \in Sessions, x \in Resps : Got(t, x) => Got(t, x)'
        /\ Got(s, r)'
    BY <1>3, GotGrows DEF HubInv
  <2>2. f \in Frame
    BY <1>1 DEF Frame
  <2>3. HubTypeOK'
    BY <1>3, <2>1, <2>2 DEF HubInv, HubTypeOK, RangeSend, registry, Accept, In,
                            Sending, SendingFails, SetFrame
  <2>4. IdsGivenOnce' /\ MapsOfOneUser' /\ HealthyRegistered'
    BY <1>3 DEF HubInv, IdsGivenOnce, MapsOfOneUser, HealthyRegistered,
                RangeSend, registry, Accept, In, Sending, SendingFails,
                SetFrame
  <2>5. \A h \in Sessions : FrameAccounted(frame[h])'
    <3> SUFFICES ASSUME NEW h \in Sessions, frame'[h].pc # "idle"
                 PROVE  FrameAccounted(frame[h])'
      BY DEF FrameAccounted
    <3>1. frame'[h] = IF h = g THEN f ELSE frame[h]
      BY <1>3 DEF HubInv, HubTypeOK
    <3>2. frame[h] \in Frame /\ FrameAccounted(frame[h])
      BY <1>1, <3>1, FrameTyped DEF HubInv
    <3>3. \A id \in frame[h].seen : Got(stream[id], frame[h].resp)
                                    => Got(stream[id], frame[h].resp)'
      <4> TAKE id \in frame[h].seen
      <4>0. stream' = stream /\ frame'[h].resp = frame[h].resp
        BY <1>1, <3>1, <3>2 DEF RangeSend, registry, Frame, In, Sending,
                                SendingFails, SetFrame
      <4>1. id \in Ids /\ id <= nextID /\ stream[id] \in Sessions
        BY <3>2 DEF FrameAccounted, Frame, HubInv, IdsGivenOnce
      <4> QED
        BY <2>1, <3>2, <4>0, <4>1 DEF Frame
    <3>4. CASE h # g
      BY <1>3, <3>1, <3>2, <3>3, <3>4 DEF FrameAccounted, RangeSend, registry,
                                          Accept, In, Sending, SendingFails,
                                          SetFrame
    <3>5. CASE h = g
      <4>1. /\ f.pc = "range" /\ f.map = old.map /\ f.addr = old.addr
            /\ f.must = old.must /\ f.seen = old.seen /\ f.failed = old.failed
            /\ f.resp = old.resp
        BY <1>1 DEF Frame
      <4>2. alive' = alive /\ UNCHANGED registry
        BY <1>3 DEF RangeSend, Accept, In, Sending, SendingFails, SetFrame
      <4>3. UNCHANGED <<nextID, stream, conns>>
        BY <4>2 DEF registry
      <4>4. /\ old.map <= nextID
            /\ Owner[stream[old.map]] = old.addr
            /\ \A id \in old.must \cup old.seen \cup old.failed : id <= nextID
            /\ \A id \in old.failed : stream[id] \notin alive
            /\ \A id \in old.seen \cap conns[old.map] :
                 id \in old.failed \/ Got(stream[id], old.resp) \/ id = old.cur
        BY <1>1 DEF FrameAccounted
      <4>5. frame'[h] = f /\ frame'[h].resp = r
        BY <3>1, <3>5, <4>1
      <4>6. ASSUME NEW id \in old.seen \cap conns[old.map]
            PROVE  id \in old.failed \/ Got(stream[id], frame[h].resp)'
        <5>1. CASE id = old.cur
          BY <2>1, <4>3, <4>5, <5>1
        <5>2. CASE Got(stream[id], old.resp)
          BY <3>3, <3>5, <5>2
        <5> QED
          BY <4>4, <5>1, <5>2
      <4> HIDE DEF f
      <4>7. /\ frame'[h].map <= nextID'
            /\ Owner[stream'[frame'[h].map]] = frame'[h].addr
            /\ \A id \in frame'[h].must \cup frame'[h].seen \cup frame'[h].failed :
                 id <= nextID'
            /\ \A id \in frame'[h].failed : stream'[id] \notin alive'
        BY <4>1, <4>2, <4>3, <4>4, <4>5
      <4>8. \A id \in frame'[h].seen \cap conns'[frame'[h].map] :
              id \in frame'[h].failed \/ Got(stream[id], frame[h].resp)'
        BY <4>1, <4>3, <4>5, <4>6
      <4>9. frame'[h].pc = "range"
        BY <4>1, <4>5
      <4> QED
        BY <4>7, <4>8, <4>9 DEF FrameAccounted
    <3> QED
      BY <3>4, <3>5
  <2> QED
    BY <2>3, <2>4, <2>5 DEF HubInv
<1>4. CASE /\ Refuse(s)
           /\ frame' = [frame EXCEPT ![g] =
                [old EXCEPT !.pc = "range", !.cur = 0,
                            !.failed = old.failed \cup {old.cur}]]
  <2> DEFINE f == [old EXCEPT !.pc = "range", !.cur = 0,
                              !.failed = old.failed \cup {old.cur}]
  <2>1. f \in {Idle} \cup Frame
    BY <1>1, <1>2 DEF Frame
  <2>2. FrameAccounted(f)
    BY <1>1, <1>2, <1>4 DEF FrameAccounted, Frame, Refuse
  <2>3. frame' = [frame EXCEPT ![g] = f]
    BY <1>4
  <2> HIDE DEF f
  <2> QED
    BY <1>4, <2>1, <2>2, <2>3, FrameStep DEF RangeSend, Refuse, grpc, In,
                                             Sending, SendingFails, SetFrame
<1> QED
  BY <1>3, <1>4 DEF RangeSend, HubInv, HubTypeOK, In, Sending, SendingFails,
                    SetFrame

-------------------------------------------------------------------------------
(* Streams, Register and Unregister.                                          *)

\* Streams that break, RPCs that end and clients that read leave the hub alone.
LEMMA StreamChangeStep ==
  ASSUME HubInv, alive' \subseteq alive, read' \in [Sessions -> Nat],
         UNCHANGED <<registry, connID, open, out, frame, proc>>
  PROVE  HubInv'
<1>1. HubTypeOK'
  BY DEF HubInv, HubTypeOK, registry
<1>2. IdsGivenOnce' /\ MapsOfOneUser' /\ HealthyRegistered'
  BY DEF HubInv, IdsGivenOnce, MapsOfOneUser, HealthyRegistered, registry
<1>3. \A h \in Sessions : FrameAccounted(frame[h])'
  BY DEF HubInv, FrameAccounted, Got, registry
<1> QED
  BY <1>1, <1>2, <1>3 DEF HubInv
\* Register for a session that has no connection yet preserves HubInv.
LEMMA RegisterStep ==
  ASSUME HubInv, NEW s \in Sessions, connID[s] = 0, Register(s),
         UNCHANGED <<alive, out, read, frame>>
  PROVE  HubInv'
<1>1. PICK id \in Ids, a \in Addrs, m \in Ids :
        /\ id = nextID + 1
        /\ a = Owner[s]
        /\ m = IF streams[a] = NoMap THEN id ELSE streams[a]
  <2>1. nextID + 1 \in Ids
    BY HubAssumption DEF Ids, Register, HubInv, HubTypeOK, AddConnection
  <2> QED
    BY <2>1, IdFacts DEF HubInv, HubTypeOK
<1>2. /\ nextID' = id
      /\ streams' = [streams EXCEPT ![a] = m]
      /\ conns' = [conns EXCEPT ![m] = conns[m] \cup {id}]
      /\ stream' = [stream EXCEPT ![id] = s]
      /\ connID' = [connID EXCEPT ![s] = id]
      /\ open' = open \cup {s}
  BY <1>1 DEF Register, AddConnection
<1>3. HubTypeOK'
  BY <1>1, <1>2, IdFacts DEF HubInv, HubTypeOK, Register, MapWrite, Ids,
                             AddConnection
<1>4. /\ \A b \in Addrs : streams'[b] = IF b = a THEN m ELSE streams[b]
      /\ \A n \in Ids : conns'[n] = IF n = m THEN conns[n] \cup {id} ELSE conns[n]
      /\ \A i \in Ids : stream'[i] = IF i = id THEN s ELSE stream[i]
      /\ \A t \in Sessions : connID'[t] = IF t = s THEN id ELSE connID[t]
  BY <1>1, <1>2 DEF HubInv, HubTypeOK
<1>5. \A i \in Ids : i <= nextID => i # id /\ stream[i] \in Sessions \ {s}
  BY <1>1, IdFacts DEF HubInv, HubTypeOK, IdsGivenOnce
<1>6. \A i \in Ids : i <= nextID => i <= nextID'
  BY <1>1, <1>2, IdFacts DEF HubInv, HubTypeOK
<1>7. id <= nextID' /\ m <= nextID' /\ (m = id \/ m <= nextID)
  BY <1>1, <1>2, IdFacts DEF HubInv, HubTypeOK, MapsOfOneUser
<1>8. Owner[stream'[m]] = a
  <2>1. CASE m = id
    BY <1>1, <1>4, <2>1
  <2>2. CASE m # id
    BY <1>1, <1>4, <2>2 DEF HubInv, MapsOfOneUser
  <2> QED
    BY <2>1, <2>2
<1>9. IdsGivenOnce'
  <2>1. ASSUME NEW i \in Ids
        PROVE  /\ stream'[i] \in Sessions <=> i <= nextID'
               /\ stream'[i] \in Sessions => connID'[stream'[i]] = i
    <3>1. CASE i = id
      BY <1>4, <1>7, <3>1
    <3>2. CASE i # id
      <4>1. stream'[i] = stream[i] /\ (i <= nextID' <=> i <= nextID)
        BY <1>1, <1>2, <1>4, <3>2, IdFacts DEF HubInv, HubTypeOK
      <4> QED
        BY <1>4, <1>5, <4>1 DEF HubInv, IdsGivenOnce
    <3> QED
      BY <3>1, <3>2
  <2>2. ASSUME NEW t \in Sessions, connID'[t] # 0
        PROVE  connID'[t] <= nextID' /\ stream'[connID'[t]] = t
    <3>1. CASE t = s
      BY <1>4, <1>7, <3>1
    <3>2. CASE t # s
      <4>1. connID'[t] = connID[t] /\ connID[t] \in Ids
        BY <1>4, <2>2, <3>2 DEF HubInv, HubTypeOK, Ids
      <4>2. connID[t] <= nextID /\ stream[connID[t]] = t
        BY <2>2, <4>1 DEF HubInv, IdsGivenOnce
      <4> QED
        BY <1>4, <1>5, <1>6, <4>1, <4>2
    <3> QED
      BY <3>1, <3>2
  <2>3. \A t \in open' : connID'[t] # 0
    BY <1>2, <1>4, IdFacts DEF HubInv, HubTypeOK, IdsGivenOnce
  <2> QED
    BY <2>1, <2>2, <2>3 DEF IdsGivenOnce
<1>10. MapsOfOneUser'
  <2>1. ASSUME NEW n \in Ids, NEW i \in conns'[n]
        PROVE  /\ n <= nextID'
               /\ i <= nextID'
               /\ stream'[i] \in open'
               /\ Owner[stream'[i]] = Owner[stream'[n]]
               /\ streams'[Owner[stream'[n]]] = n
    <3>1. CASE i = id /\ n = m
      BY <1>1, <1>2, <1>4, <1>7, <1>8, <3>1
    <3>2. CASE i \in conns[n]
      <4>1. i \in Ids
        BY <3>2 DEF HubInv, HubTypeOK
      <4>2. /\ n <= nextID
            /\ i <= nextID
            /\ stream[i] \in open
            /\ Owner[stream[i]] = Owner[stream[n]]
            /\ streams[Owner[stream[n]]] = n
        BY <3>2 DEF HubInv, MapsOfOneUser
      <4>3. stream'[i] = stream[i] /\ stream'[n] = stream[n]
        BY <1>4, <1>5, <4>1, <4>2
      <4>4. stream[n] \in Sessions /\ Owner[stream[n]] \in Addrs
        BY <1>5, <4>2, IdFacts
      <4>5. streams'[Owner[stream[n]]] = n
        BY <1>1, <1>4, <4>2, <4>4, IdFacts
      <4> QED
        BY <1>2, <1>6, <4>1, <4>2, <4>3, <4>5
    <3>3. (i = id /\ n = m) \/ i \in conns[n]
      <4>1. conns'[n] = IF n = m THEN conns[n] \cup {id} ELSE conns[n]
        BY <1>4
      <4> QED
        BY <4>1
    <3> QED
      BY <3>1, <3>2, <3>3
  <2>2. ASSUME NEW b \in Addrs, streams'[b] # NoMap
        PROVE  /\ streams'[b] <= nextID'
               /\ Owner[stream'[streams'[b]]] = b
               /\ conns'[streams'[b]] # {}
    <3>1. CASE b = a
      <4>1. streams'[b] = m /\ conns'[m] = conns[m] \cup {id}
        BY <1>1, <1>4, <3>1
      <4> QED
        BY <1>7, <1>8, <3>1, <4>1
    <3>2. CASE b # a
      <4>1. PICK n \in Ids : n = streams[b] /\ streams'[b] = n
        BY <1>4, <2>2, <3>2, IdFacts DEF HubInv, HubTypeOK
      <4>2. n <= nextID /\ Owner[stream[n]] = b /\ conns[n] # {}
        BY <2>2, <4>1, IdFacts DEF HubInv, MapsOfOneUser
      <4>3. stream'[n] = stream[n] /\ conns[n] \subseteq conns'[n]
        BY <1>4, <1>5, <4>2
      <4> QED
        BY <1>6, <4>1, <4>2, <4>3
    <3> QED
      BY <3>1, <3>2
  <2> QED
    BY <2>1, <2>2 DEF MapsOfOneUser
<1>11. HealthyRegistered'
  <2> SUFFICES ASSUME NEW t \in open', t \in alive'
               PROVE  /\ streams'[Owner[t]] # NoMap
                      /\ connID'[t] \in conns'[streams'[Owner[t]]]
                      /\ stream'[connID'[t]] = t
    BY DEF HealthyRegistered
  <2>1. CASE t = s
    BY <1>1, <1>4, <2>1, IdFacts
  <2>2. CASE t # s
    <3>1. t \in open /\ t \in alive /\ t \in Sessions /\ Owner[t] \in Addrs
      BY <1>2, <2>2, IdFacts DEF HubInv, HubTypeOK
    <3>2. PICK n \in Ids, i \in Ids :
            /\ n = streams[Owner[t]]
            /\ i = connID[t]
            /\ i \in conns[n]
            /\ stream[i] = t
      BY <3>1, IdFacts DEF HubInv, HubTypeOK, HealthyRegistered
    <3>3. i <= nextID
      BY <3>2 DEF HubInv, MapsOfOneUser
    <3>4. streams'[Owner[t]] = n
      BY <1>1, <1>4, <3>1, <3>2, IdFacts
    <3>5. connID'[t] = i /\ stream'[i] = t /\ i \in conns'[n]
      BY <1>4, <1>5, <2>2, <3>1, <3>2, <3>3
    <3> QED
      BY <3>4, <3>5, IdFacts
  <2> QED
    BY <2>1, <2>2
<1>12. \A h \in Sessions : FrameAccounted(frame[h])'
  <2> SUFFICES ASSUME NEW h \in Sessions, frame[h].pc # "idle"
               PROVE  FrameAccounted(frame[h])'
    BY DEF FrameAccounted
  <2>1. frame[h] \in Frame /\ FrameAccounted(frame[h])
    BY FrameTyped DEF HubInv
  <2> DEFINE f == frame[h]
             given == f.must \cup f.seen \cup f.failed
  <2>2. /\ f.map \in Ids
        /\ f.map <= nextID
        /\ given \subseteq Ids
        /\ \A i \in given : i <= nextID
        /\ f.pc = "send" => f.cur \in f.seen
    BY <2>1 DEF FrameAccounted, Frame
  <2>3. /\ stream'[f.map] = stream[f.map]
        /\ \A i \in given :
             /\ stream'[i] = stream[i]
             /\ i <= nextID'
             /\ i \in conns'[f.map] => i \in conns[f.map]
    <3>1. stream'[f.map] = stream[f.map]
      BY <1>4, <1>5, <2>2
    <3>2. ASSUME NEW i \in given
          PROVE  /\ stream'[i] = stream[i]
                 /\ i <= nextID'
                 /\ i \in conns'[f.map] => i \in conns[f.map]
      <4>1. i \in Ids /\ i <= nextID /\ i # id
        BY <1>5, <2>2
      <4>2. conns'[f.map] = IF f.map = m THEN conns[f.map] \cup {id} ELSE conns[f.map]
        BY <1>4, <2>2
      <4> QED
        BY <1>4, <1>6, <4>1, <4>2
    <3> QED
      BY <3>1, <3>2
  <2>4. f.map <= nextID'
    BY <1>6, <2>2
  <2>5. \A i \in f.seen \cap conns'[f.map] :
           \/ i \in f.failed
           \/ Got(stream[i], f.resp)'
           \/ f.pc = "send" /\ i = f.cur
    <3> TAKE i \in f.seen \cap conns'[f.map]
    <3>1. i \in given /\ i \in conns[f.map] /\ stream'[i] = stream[i]
      BY <2>3
    <3> QED
      BY <2>1, <3>1 DEF FrameAccounted, Got
  <2>6. f.pc = "purge" => f.must \cap conns'[f.map] \subseteq f.seen
    BY <2>1, <2>3 DEF FrameAccounted
  <2>7. frame' = frame /\ alive' = alive
    OBVIOUS
  <2> HIDE DEF f
  <2> QED
    BY <2>1, <2>2, <2>3, <2>4, <2>5, <2>6, <2>7 DEF FrameAccounted, f
<1> QED
  BY <1>3, <1>9, <1>10, <1>11, <1>12 DEF HubInv

\* What Unregister(a, id) does to the maps when they are in order: it takes id,
\* and nothing else, out of whatever map a has or ever had.
LEMMA UnregisterEffect ==
  ASSUME HubInv, NEW a \in Addrs, NEW id \in Ids, Unregister(a, id)
  PROVE  /\ streams' \in [Addrs -> MapNames]
         /\ conns' \in [Ids -> SUBSET Ids]
         /\ proc' \in {proc, "running", "mapRace"}
         /\ \A n \in Ids : conns'[n] \subseteq conns[n]
         /\ \A n \in Ids : \A i \in conns'[n] : streams'[Owner[stream[n]]] = n
         /\ \A n \in Ids : Owner[stream[n]] = a => id \notin conns'[n]
         /\ \A b \in Addrs : streams'[b] # NoMap =>
               streams'[b] = streams[b] /\ conns'[streams[b]] # {}
         /\ \A t \in open \cap alive : connID[t] # id =>
               /\ streams'[Owner[t]] # NoMap
               /\ connID[t] \in conns'[streams'[Owner[t]]]
<1>1. CASE streams[a] = NoMap
  <2>1. streams' = streams /\ conns' = conns /\ proc' \in {proc, "running", "mapRace"}
    BY <1>1 DEF Unregister, MapWrite, RemoveConnection
  <2>2. \A n \in Ids : Owner[stream[n]] = a => conns[n] = {}
    BY <1>1, IdFacts DEF HubInv, MapsOfOneUser
  <2>3. \A b \in Addrs : streams[b] # NoMap => conns[streams[b]] # {}
    BY DEF HubInv, MapsOfOneUser
  <2>4. \A n \in Ids : \A i \in conns[n] : streams[Owner[stream[n]]] = n
    BY DEF HubInv, MapsOfOneUser
  <2>5. \A t \in open \cap alive :
          streams[Owner[t]] # NoMap /\ connID[t] \in conns[streams[Owner[t]]]
    BY DEF HubInv, HealthyRegistered
  <2> QED
    BY <2>1, <2>2, <2>3, <2>4, <2>5 DEF HubInv, HubTypeOK
<1>2. CASE streams[a] # NoMap
  <2>1. PICK m \in Ids : m = streams[a]
    BY <1>2, IdFacts DEF HubInv, HubTypeOK
  <2>2. /\ conns' = [conns EXCEPT ![m] = conns[m] \ {id}]
        /\ streams' = IF conns[m] \subseteq {id}
                      THEN [streams EXCEPT ![a] = NoMap]
                      ELSE streams
        /\ proc' \in {"running", "mapRace"}
    BY <1>2, <2>1 DEF Unregister, MapWrite, RemoveConnection
  <2>3. streams' \in [Addrs -> MapNames] /\ conns' \in [Ids -> SUBSET Ids]
    BY <2>1, <2>2, IdFacts DEF HubInv, HubTypeOK
  <2>4. /\ \A n \in Ids : conns'[n] = IF n = m THEN conns[m] \ {id} ELSE conns[n]
        /\ \A b \in Addrs : streams'[b] =
              IF b = a /\ conns[m] \subseteq {id} THEN NoMap ELSE streams[b]
    BY <2>2 DEF HubInv, HubTypeOK
  <2>5. \A n \in Ids : conns'[n] \subseteq conns[n]
    BY <2>4
  <2>6. Owner[stream[m]] = a
    BY <1>2, <2>1 DEF HubInv, MapsOfOneUser
  <2>7. \A n \in Ids : n # m /\ Owner[stream[n]] = a => conns[n] = {}
    BY <2>1 DEF HubInv, MapsOfOneUser
  <2>8. ASSUME NEW n \in Ids, NEW i \in conns'[n]
        PROVE  streams'[Owner[stream[n]]] = n
    <3>1. i \in conns[n] /\ streams[Owner[stream[n]]] = n
      BY <2>5 DEF HubInv, MapsOfOneUser
    <3>2. stream[n] \in Sessions /\ Owner[stream[n]] \in Addrs
      BY <3>1, IdFacts DEF HubInv, MapsOfOneUser, IdsGivenOnce
    <3>3. n = m => ~(conns[m] \subseteq {id})
      BY <2>4
    <3> QED
      BY <2>1, <2>4, <3>1, <3>2, <3>3
  <2>9. \A n \in Ids : Owner[stream[n]] = a => id \notin conns'[n]
    BY <2>4, <2>7
  <2>10. ASSUME NEW b \in Addrs, streams'[b] # NoMap
         PROVE  streams'[b] = streams[b] /\ conns'[streams[b]] # {}
    <3>1. streams'[b] = streams[b] /\ (b = a => ~(conns[m] \subseteq {id}))
      BY <2>4, <2>10
    <3>2. PICK n \in Ids : n = streams[b]
      BY <2>10, <3>1, IdFacts DEF HubInv, HubTypeOK
    <3>3. conns[n] # {} /\ Owner[stream[n]] = b
      BY <2>10, <3>1, <3>2 DEF HubInv, MapsOfOneUser
    <3>4. CASE b = a
      <4>1. streams[b] = m
        BY <2>1, <3>4
      <4>2. conns'[m] = conns[m] \ {id} /\ ~(conns[m] \subseteq {id})
        BY <2>1, <2>4, <3>1, <3>4
      <4> QED
        BY <3>1, <4>1, <4>2
    <3>5. CASE b # a
      BY <2>4, <2>6, <3>1, <3>2, <3>3, <3>5
    <3> QED
      BY <3>4, <3>5
  <2>11. ASSUME NEW t \in open \cap alive, connID[t] # id
         PROVE  /\ streams'[Owner[t]] # NoMap
                /\ connID[t] \in conns'[streams'[Owner[t]]]
    <3>1. t \in Sessions /\ Owner[t] \in Addrs
      BY IdFacts DEF HubInv, HubTypeOK
    <3>2. PICK n \in Ids : n = streams[Owner[t]] /\ connID[t] \in conns[n]
      <4>1. /\ streams[Owner[t]] # NoMap
            /\ connID[t] \in conns[streams[Owner[t]]]
        BY DEF HubInv, HealthyRegistered
      <4>2. streams[Owner[t]] \in Ids
        BY <3>1, <4>1, IdFacts DEF HubInv, HubTypeOK
      <4> QED
        BY <4>1, <4>2
    <3>3. connID[t] \in conns'[n]
      BY <2>4, <2>11, <3>2
    <3>4. Owner[t] = a => ~(conns[m] \subseteq {id})
      BY <2>1, <2>11, <3>2
    <3>5. streams'[Owner[t]] = n
      BY <2>4, <3>1, <3>2, <3>4
    <3> QED
      BY <3>3, <3>5, IdFacts
  <2> QED
    BY <2>2, <2>3, <2>5, <2>8, <2>9, <2>10, <2>11
<1> QED
  BY <1>1, <1>2

\* A handler that unregisters its own connection.
LEMMA UnregisterStep ==
  ASSUME HubInv, NEW s \in open, DeferredUnregister(s),
         UNCHANGED <<alive, out, read, frame>>
  PROVE  HubInv'
<1>1. PICK id \in Ids, a \in Addrs :
        s \in Sessions /\ id = connID[s] /\ a = Owner[s] /\ stream[id] = s
  <2>1. s \in Sessions /\ connID[s] \in 0 .. MaxConns /\ connID[s] # 0
    BY DEF HubInv, HubTypeOK, IdsGivenOnce
  <2>2. connID[s] \in Ids
    BY <2>1, HubAssumption DEF Ids
  <2> QED
    BY <2>1, <2>2, IdFacts DEF HubInv, IdsGivenOnce
<1>2. /\ Unregister(a, id)
      /\ open' = open \ {s}
      /\ UNCHANGED <<stream, nextID, connID>>
  BY <1>1 DEF DeferredUnregister
<1>3. /\ streams' \in [Addrs -> MapNames]
      /\ conns' \in [Ids -> SUBSET Ids]
      /\ proc' \in {proc, "running", "mapRace"}
      /\ \A n \in Ids : conns'[n] \subseteq conns[n]
      /\ \A n \in Ids : \A i \in conns'[n] : streams'[Owner[stream[n]]] = n
      /\ \A n \in Ids : Owner[stream[n]] = a => id \notin conns'[n]
      /\ \A b \in Addrs : streams'[b] # NoMap =>
            streams'[b] = streams[b] /\ conns'[streams[b]] # {}
      /\ \A t \in open \cap alive : connID[t] # id =>
            /\ streams'[Owner[t]] # NoMap
            /\ connID[t] \in conns'[streams'[Owner[t]]]
  BY <1>2, UnregisterEffect
<1>4. HubTypeOK'
  BY <1>2, <1>3 DEF HubInv, HubTypeOK
<1>5. IdsGivenOnce'
  BY <1>2 DEF HubInv, IdsGivenOnce
<1>6. MapsOfOneUser'
  <2>1. ASSUME NEW n \in Ids, NEW i \in conns'[n]
        PROVE  /\ n <= nextID
               /\ i <= nextID
               /\ stream[i] \in open'
               /\ Owner[stream[i]] = Owner[stream[n]]
               /\ streams'[Owner[stream[n]]] = n
    <3>1. /\ i \in Ids
          /\ n <= nextID
          /\ i <= nextID
          /\ stream[i] \in open
          /\ Owner[stream[i]] = Owner[stream[n]]
      BY <1>3 DEF HubInv, HubTypeOK, MapsOfOneUser
    <3>2. stream[i] # s
      <4>1. SUFFICES ASSUME stream[i] = s PROVE FALSE
        OBVIOUS
      <4>2. i = id
        BY <1>1, <3>1, <4>1 DEF HubInv, IdsGivenOnce
      <4> QED
        BY <1>1, <1>3, <3>1, <4>1, <4>2
    <3> QED
      BY <1>2, <1>3, <3>1, <3>2
  <2>2. ASSUME NEW b \in Addrs, streams'[b] # NoMap
        PROVE  /\ streams'[b] <= nextID
               /\ Owner[stream[streams'[b]]] = b
               /\ conns'[streams'[b]] # {}
    BY <1>3, <2>2 DEF HubInv, MapsOfOneUser
  <2> QED
    BY <1>2, <2>1, <2>2 DEF MapsOfOneUser
<1>7. HealthyRegistered'
  <2>1. ASSUME NEW t \in open', t \in alive
        PROVE  /\ streams'[Owner[t]] # NoMap
               /\ connID[t] \in conns'[streams'[Owner[t]]]
               /\ stream[connID[t]] = t
    <3>1. t \in open \cap alive /\ t # s
      BY <1>2, <2>1
    <3>2. stream[connID[t]] = t
      BY <3>1 DEF HubInv, HealthyRegistered
    <3>3. connID[t] # id
      BY <1>1, <3>1, <3>2
    <3> QED
      BY <1>3, <3>1, <3>2, <3>3
  <2> QED
    BY <1>2, <2>1 DEF HealthyRegistered
<1>8. \A h \in Sessions : FrameAccounted(frame[h])'
  <2> SUFFICES ASSUME NEW h \in Sessions, frame[h].pc # "idle"
               PROVE  FrameAccounted(frame[h])'
    BY DEF FrameAccounted
  <2>1. frame[h].map \in Ids /\ FrameAccounted(frame[h])
    BY FrameTyped DEF HubInv, Frame
  <2>2. conns'[frame[h].map] \subseteq conns[frame[h].map]
    BY <1>3, <2>1
  <2> QED
    BY <1>2, <2>1, <2>2 DEF FrameAccounted, Got
<1> QED
  BY <1>4, <1>5, <1>6, <1>7, <1>8 DEF HubInv

\* SendToUser unregistering a connection that failed: its stream is broken, so
\* no healthy session loses its place.
LEMMA UnregisterFailedStep ==
  ASSUME HubInv, NEW g \in Sessions, UnregisterFailed(g)
  PROVE  HubInv'
<1> DEFINE old == frame[g]
<1>1. old \in Frame /\ old.pc = "purge" /\ FrameAccounted(old)
  BY FrameTyped DEF HubInv, UnregisterFailed, In
<1>2. PICK id \in old.failed :
        /\ Unregister(old.addr, id)
        /\ frame' = [frame EXCEPT ![g] =
             IF old.failed = {id}
             THEN Idle
             ELSE [old EXCEPT !.failed = old.failed \ {id}]]
  BY DEF UnregisterFailed, In
<1>3. UNCHANGED <<stream, nextID, connID, open, alive, out, read>>
  BY DEF UnregisterFailed, grpc, In
<1>4. id \in Ids /\ old.addr \in Addrs /\ old.map \in Ids
  BY <1>1 DEF Frame
<1>5. stream[id] \notin alive /\ Owner[stream[old.map]] = old.addr
  BY <1>1 DEF FrameAccounted
<1>6. /\ streams' \in [Addrs -> MapNames]
      /\ conns' \in [Ids -> SUBSET Ids]
      /\ proc' \in {proc, "running", "mapRace"}
      /\ \A n \in Ids : conns'[n] \subseteq conns[n]
      /\ \A n \in Ids : \A i \in conns'[n] : streams'[Owner[stream[n]]] = n
      /\ \A n \in Ids : Owner[stream[n]] = old.addr => id \notin conns'[n]
      /\ \A b \in Addrs : streams'[b] # NoMap =>
            streams'[b] = streams[b] /\ conns'[streams[b]] # {}
      /\ \A t \in open \cap alive : connID[t] # id =>
            /\ streams'[Owner[t]] # NoMap
            /\ connID[t] \in conns'[streams'[Owner[t]]]
  BY <1>2, <1>4, UnregisterEffect
<1>7. PICK f \in {Idle} \cup Frame :
        /\ frame' = [frame EXCEPT ![g] = f]
        /\ f # Idle => f = [old EXCEPT !.failed = old.failed \ {id}]
  <2>1. [old EXCEPT !.failed = old.failed \ {id}] \in Frame
    BY <1>1 DEF Frame
  <2> QED
    BY <1>2, <2>1
<1>8. HubTypeOK'
  BY <1>3, <1>6, <1>7 DEF HubInv, HubTypeOK
<1>9. IdsGivenOnce'
  BY <1>3 DEF HubInv, IdsGivenOnce
<1>10. MapsOfOneUser'
  <2>1. ASSUME NEW n \in Ids, NEW i \in conns'[n]
        PROVE  /\ n <= nextID
               /\ i <= nextID
               /\ stream[i] \in open
               /\ Owner[stream[i]] = Owner[stream[n]]
               /\ streams'[Owner[stream[n]]] = n
    BY <1>6 DEF HubInv, MapsOfOneUser
  <2>2. ASSUME NEW b \in Addrs, streams'[b] # NoMap
        PROVE  /\ streams'[b] <= nextID
               /\ Owner[stream[streams'[b]]] = b
               /\ conns'[streams'[b]] # {}
    BY <1>6, <2>2 DEF HubInv, MapsOfOneUser
  <2> QED
    BY <1>3, <2>1, <2>2 DEF MapsOfOneUser
<1>11. HealthyRegistered'
  <2>1. ASSUME NEW t \in open \cap alive
        PROVE  /\ streams'[Owner[t]] # NoMap
               /\ connID[t] \in conns'[streams'[Owner[t]]]
               /\ stream[connID[t]] = t
    <3>1. stream[connID[t]] = t
      BY DEF HubInv, HealthyRegistered
    <3> QED
      BY <1>5, <1>6, <3>1
  <2> QED
    BY <1>3, <2>1 DEF HealthyRegistered
<1>12. \A h \in Sessions : FrameAccounted(frame[h])'
  <2> SUFFICES ASSUME NEW h \in Sessions, frame'[h].pc # "idle"
               PROVE  FrameAccounted(frame[h])'
    BY DEF FrameAccounted
  <2>1. frame'[h] = IF h = g THEN f ELSE frame[h]
    BY <1>7 DEF HubInv, HubTypeOK
  <2>2. CASE h # g
    <3>1. frame'[h] = frame[h]
      BY <2>1, <2>2
    <3>2. frame[h].map \in Ids /\ FrameAccounted(frame[h])
      BY <3>1, FrameTyped DEF HubInv, Frame
    <3>3. conns'[frame[h].map] \subseteq conns[frame[h].map]
      BY <1>6, <3>2
    <3> QED
      BY <1>3, <3>1, <3>2, <3>3 DEF FrameAccounted, Got
  <2>3. CASE h = g
    <3>1. frame'[g] = [old EXCEPT !.failed = old.failed \ {id}]
      BY <1>7, <2>1, <2>3 DEF Idle
    <3>2. /\ conns'[old.map] \subseteq conns[old.map]
          /\ id \notin conns'[old.map]
      BY <1>4, <1>5, <1>6
    <3> HIDE DEF old
    <3> QED
      BY <1>1, <1>3, <2>3, <3>1, <3>2 DEF FrameAccounted, Got, Frame
  <2> QED
    BY <2>2, <2>3
<1> QED
  BY <1>8, <1>9, <1>10, <1>11, <1>12 DEF HubInv

-------------------------------------------------------------------------------
(* The theorems.                                                              *)

\* HubInv holds in a new hub.
LEMMA HubInvInit == HubInit => HubInv
<1> SUFFICES ASSUME HubInit PROVE HubInv
  OBVIOUS
<1>1. HubTypeOK
  BY IdFacts, HubAssumption DEF HubInit, HubTypeOK, Running
<1>2. IdsGivenOnce
  BY IdFacts DEF HubInit, IdsGivenOnce
<1>3. MapsOfOneUser /\ HealthyRegistered
  BY DEF HubInit, MapsOfOneUser, HealthyRegistered
<1>4. \A g \in Sessions : FrameAccounted(frame[g])
  BY DEF HubInit, FrameAccounted, Idle
<1> QED
  BY <1>1, <1>2, <1>3, <1>4 DEF HubInv

\* Every step of the hub, of its streams and of its callers preserves HubInv.
LEMMA HubInvNext == HubInv /\ [HubNext]_hubVars => HubInv'
<1> SUFFICES ASSUME HubInv, [HubNext]_hubVars PROVE HubInv'
  OBVIOUS
<1>1. ASSUME NEW s \in Sessions, Connect(s) PROVE HubInv'
  BY <1>1, RegisterStep DEF Connect
<1>2. ASSUME NEW s \in Sessions, Disconnect(s) PROVE HubInv'
  BY <1>2, UnregisterStep DEF Disconnect
<1>3. ASSUME NEW s \in Sessions, EndRPC(s) \/ Break(s) \/ ClientRead(s)
      PROVE  HubInv'
  <2>1. alive' \subseteq alive
    BY <1>3 DEF EndRPC, Break, ClientRead
  <2>2. read' \in [Sessions -> Nat]
    <3>1. Len(out[s]) \in Nat
      BY DEF HubInv, HubTypeOK
    <3> QED
      BY <1>3, <3>1 DEF EndRPC, Break, ClientRead, HubInv, HubTypeOK
  <2> QED
    BY <1>3, <2>1, <2>2, StreamChangeStep DEF EndRPC, Break, ClientRead
<1>4. ASSUME NEW g \in Sessions, NEW a \in Addrs, NEW r \in Resps,
             SendToUser(g, a, r)
      PROVE  HubInv'
  BY <1>4, LookupStep DEF SendToUser
<1>5. ASSUME NEW g \in Sessions, SendToUserStep(g) PROVE HubInv'
  BY <1>5, LenStep, NextStep, SendStep, EndStep, UnregisterFailedStep
  DEF SendToUserStep
<1>6. CASE UNCHANGED hubVars
  <2>1. UNCHANGED <<registry, connID, open, alive, out, read, frame, proc>>
    BY <1>6 DEF hubVars, registry
  <2> QED
    BY <2>1, StreamChangeStep DEF HubInv, HubTypeOK
<1> QED
  BY <1>1, <1>2, <1>3, <1>4, <1>5, <1>6 DEF HubNext

\* The hub never leaves HubInv: ids are given out once, an inner map is always
\* of one user, and every activation of SendToUser is accounted for, for any
\* number of users, sessions, responses and connections.
THEOREM HubInvariant == HubSpec => []HubInv
BY HubInvInit, HubInvNext, PTL DEF HubSpec

\* What HubInv says of the connections in the maps.
LEMMA RegisteredAreOpen == HubInv => OnlyOpenRegistered
<1> SUFFICES ASSUME HubInv, NEW a \in Addrs, streams[a] # NoMap
             PROVE  /\ conns[streams[a]] # {}
                    /\ \A id \in conns[streams[a]] :
                         /\ stream[id] \in open
                         /\ Owner[stream[id]] = a
                         /\ connID[stream[id]] = id
  BY DEF OnlyOpenRegistered
<1>1. PICK m \in Ids : m = streams[a]
  BY IdFacts DEF HubInv, HubTypeOK
<1>2. conns[m] # {} /\ Owner[stream[m]] = a
  BY <1>1 DEF HubInv, MapsOfOneUser
<1>3. ASSUME NEW id \in conns[m]
      PROVE  /\ stream[id] \in open
             /\ Owner[stream[id]] = a
             /\ connID[stream[id]] = id
  <2>1. id \in Ids /\ stream[id] \in open /\ Owner[stream[id]] = a
    BY <1>2 DEF HubInv, HubTypeOK, MapsOfOneUser
  <2> QED
    BY <2>1 DEF HubInv, HubTypeOK, IdsGivenOnce
<1> QED
  BY <1>1, <1>2, <1>3

\* The maps that Register, Unregister and SendToUser share hold no connection
\* of a handler that has unregistered, and none under another user's address.
THEOREM NoStaleEndpoint == HubSpec => []OnlyOpenRegistered
BY RegisteredAreOpen, HubInvariant, PTL

\* A session with an intact stream keeps its place in the hub until its own
\* handler unregisters it, whatever SendToUser unregisters meanwhile.
THEOREM NoLostEndpoint == HubSpec => []HealthyRegistered
<1>1. HubInv => HealthyRegistered
  BY DEF HubInv
<1> QED
  BY <1>1, HubInvariant, PTL

\* SendToUser, which ranges over its map without the lock, sends only to streams
\* of its addressee.
THEOREM NoMisdelivery == HubSpec => []SendsToAddressee
<1>1. HubInv => SendsToAddressee
  BY DEF HubInv, FrameAccounted, SendsToAddressee
<1> QED
  BY <1>1, HubInvariant, PTL

\* No activation returns in a step that leaves activations alone or starts one.
LEMMA QuietServes ==
  ASSUME \A h \in Sessions : frame'[h] = frame[h] \/ frame[h].pc = "idle"
  PROVE  \A h \in Sessions : EndpointsServed(h)
BY DEF EndpointsServed

\* A step of SendToUser is of one activation.
LEMMA OneActivation ==
  ASSUME HubTypeOK, NEW g \in Sessions, SendToUserStep(g)
  PROVE  \A h \in Sessions \ {g} : frame'[h] = frame[h]
<1>1. \E v : frame' = [frame EXCEPT ![g] = v]
  BY DEF SendToUserStep, SendToUserLen, RangeNext, RangeSend, RangeEnd,
         UnregisterFailed, SetFrame, Yield, Sending, SendingFails
<1> QED
  BY <1>1 DEF HubTypeOK

\* The step in which an activation returns has served its endpoints.
LEMMA ActivationServes ==
  ASSUME HubInv, NEW g \in Sessions, SendToUserStep(g)
  PROVE  \A h \in Sessions : EndpointsServed(h)
<1>1. HubTypeOK
  BY DEF HubInv
<1>2. ASSUME NEW h \in Sessions, h # g PROVE EndpointsServed(h)
  BY <1>1, <1>2, OneActivation DEF EndpointsServed
<1>3. EndpointsServed(g)
  <2> SUFFICES ASSUME frame[g].pc \in {"range", "purge"}, frame'[g].pc = "idle",
                      NEW id \in frame[g].must \cup frame[g].seen,
                      id \in conns'[frame[g].map]
               PROVE  Got(stream[id], frame[g].resp)
    BY DEF EndpointsServed
  <2>1. frame[g] \in Frame /\ FrameAccounted(frame[g])
    BY FrameTyped DEF HubInv
  <2>2. RangeEnd(g) \/ UnregisterFailed(g)
    <3>1. ~SendToUserLen(g) /\ ~RangeSend(g)
      BY DEF SendToUserLen, RangeSend, In
    <3>2. ~RangeNext(g)
      <4>1. SUFFICES ASSUME RangeNext(g) PROVE FALSE
        OBVIOUS
      <4>2. PICK x \in Ids :
              frame' = [frame EXCEPT ![g] =
                [frame[g] EXCEPT !.pc = "send", !.cur = x,
                                 !.seen = frame[g].seen \cup {x}]]
        BY <2>1, <4>1 DEF RangeNext, HubInv, HubTypeOK, Frame, In, Yield,
                          SetFrame
      <4>3. frame'[g].pc = "send"
        BY <2>1, <4>2 DEF HubInv, HubTypeOK, Frame
      <4> QED
        BY <4>3
    <3> QED
      BY <3>1, <3>2 DEF SendToUserStep
  <2>3. CASE RangeEnd(g)
    <3>1. frame[g].failed = {} /\ frame[g].pc = "range" /\ conns' = conns
      BY <2>3, <2>1 DEF RangeEnd, registry, HubInv, HubTypeOK, Frame, In,
                        SetFrame
    <3> QED
      BY <2>1, <2>3, <3>1 DEF FrameAccounted, RangeEnd, In, SetFrame
  <2>4. CASE UnregisterFailed(g)
    <3>1. PICK x \in frame[g].failed :
            frame[g].failed = {x} /\ Unregister(frame[g].addr, x)
      BY <2>1, <2>4 DEF UnregisterFailed, HubInv, HubTypeOK, Frame, In
    <3>2. x \in Ids /\ frame[g].addr \in Addrs /\ frame[g].map \in Ids
      BY <2>1 DEF Frame
    <3>3. /\ conns'[frame[g].map] \subseteq conns[frame[g].map]
          /\ x \notin conns'[frame[g].map]
      BY <2>1, <3>1, <3>2, UnregisterEffect DEF FrameAccounted
    <3>4. frame[g].pc = "purge"
      BY <2>4 DEF UnregisterFailed, In
    <3> QED
      BY <2>1, <3>1, <3>3, <3>4 DEF FrameAccounted
  <2> QED
    BY <2>2, <2>3, <2>4
<1> QED
  BY <1>2, <1>3

\* Steps of the hub that are not of an activation leave those that run alone.
LEMMA OtherHubSteps ==
  ASSUME HubInv, [HubNext]_hubVars
  PROVE  \/ \E g \in Sessions : SendToUserStep(g)
         \/ \A h \in Sessions : frame'[h] = frame[h] \/ frame[h].pc = "idle"
<1>1. CASE \E g \in Sessions, a \in Addrs, r \in Resps : SendToUser(g, a, r)
  BY <1>1 DEF SendToUser, SendToUserLookup, In, SetFrame, HubInv, HubTypeOK
<1>2. CASE UNCHANGED frame
  BY <1>2
<1> QED
  BY <1>1, <1>2 DEF HubNext, hubVars, Connect, Disconnect, EndRPC, Break, ClientRead

\* When SendToUser returns, every connection that its range was to reach and
\* that is still registered has the response.
THEOREM BestEffort == HubSpec => EveryEndpointServed
<1>1. HubInv /\ [HubNext]_hubVars => \A g \in Sessions : EndpointsServed(g)
  BY OtherHubSteps, ActivationServes, QuietServes
<1> QED
  BY <1>1, HubInvariant, PTL DEF HubSpec, EveryEndpointServed

-------------------------------------------------------------------------------
(* SendToUser is bounded.                                                     *)

\* How many ids a set of them has.
LEMMA IdCount ==
  ASSUME NEW S \in SUBSET Ids
  PROVE  /\ Cardinality(S) \in Nat
         /\ \A x \in S : Cardinality(S \ {x}) = Cardinality(S) - 1
         /\ \A x : Cardinality(S \cup {x}) <= Cardinality(S) + 1
         /\ \A T \in SUBSET S : Cardinality(T) <= Cardinality(S)
<1>1. IsFiniteSet(Ids)
  BY FS_Interval, HubAssumption DEF Ids
<1>2. IsFiniteSet(S)
  BY <1>1, FS_Subset
<1>3. Cardinality(S) \in Nat
  BY <1>2, FS_CardinalityType
<1>4. \A x \in S : Cardinality(S \ {x}) = Cardinality(S) - 1
  BY <1>2, FS_RemoveElement
<1>5. \A x : Cardinality(S \cup {x}) <= Cardinality(S) + 1
  BY <1>2, <1>3, FS_AddElement
<1>6. \A T \in SUBSET S : Cardinality(T) <= Cardinality(S)
  BY <1>2, FS_Subset
<1> QED
  BY <1>3, <1>4, <1>5, <1>6

\* A frame has at least a step left, and none gains any when its map shrinks.
LEMMA LeftShrinks ==
  ASSUME NEW f \in Frame, NEW C \in SUBSET Ids, NEW D \in SUBSET C
  PROVE  /\ StepsLeft(f, C) \in Nat
         /\ StepsLeft(f, D) \in Nat
         /\ StepsLeft(f, C) > 0
         /\ StepsLeft(f, D) <= StepsLeft(f, C)
<1> DEFINE u == Cardinality(C \ f.seen)
           v == Cardinality(D \ f.seen)
           n == Cardinality(f.failed)
<1>1. u \in Nat /\ v \in Nat /\ n \in Nat /\ v <= u
  <2>1. C \ f.seen \in SUBSET Ids /\ D \ f.seen \in SUBSET (C \ f.seen)
    OBVIOUS
  <2>2. D \ f.seen \in SUBSET Ids /\ f.failed \in SUBSET Ids
    BY <2>1 DEF Frame
  <2> QED
    BY <2>1, <2>2, IdCount
<1>2. f.pc \in {"len", "range", "send", "purge"}
  BY DEF Frame
<1>3. /\ f.pc = "len" => StepsLeft(f, C) = 3 * u + n + 3 /\ StepsLeft(f, D) = 3 * v + n + 3
      /\ f.pc = "range" => StepsLeft(f, C) = 3 * u + n + 2 /\ StepsLeft(f, D) = 3 * v + n + 2
      /\ f.pc = "send" => StepsLeft(f, C) = 3 * u + n + 4 /\ StepsLeft(f, D) = 3 * v + n + 4
      /\ f.pc = "purge" => StepsLeft(f, C) = n + 1 /\ StepsLeft(f, D) = n + 1
  BY DEF StepsLeft
<1> HIDE DEF u, v, n
<1> QED
  BY <1>1, <1>2, <1>3

\* An activation that its own step leaves alone, in a map that only shrinks.
LEMMA WaitingAdvances ==
  ASSUME HubTypeOK, NEW g \in Sessions, frame'[g] = frame[g],
         \A m \in Ids : conns'[m] \subseteq conns[m]
  PROVE  Advances(g)
<1> SUFFICES ASSUME frame[g].pc # "idle"
             PROVE  Left(g)' < Left(g) \/ Left(g)' = Left(g)
  BY DEF Advances
<1> PICK f \in Frame : f = frame[g]
  BY FrameTyped
<1> PICK C \in SUBSET Ids : C = conns[f.map]
  BY DEF HubTypeOK, Frame
<1> PICK D \in SUBSET C : D = conns'[f.map]
  BY DEF Frame
<1>1. Left(g) = StepsLeft(f, C)
  BY DEF Left
<1>2. Left(g)' = StepsLeft(f, D)
  <2>1. Left(g)' = StepsLeft(frame'[g], conns'[frame'[g].map])
    BY DEF Left, StepsLeft
  <2> QED
    BY <2>1
<1> QED
  BY <1>1, <1>2, LeftShrinks

\* A step of g's activation: the others only see their maps shrink.
LEMMA OneAdvances ==
  ASSUME HubTypeOK, NEW g \in Sessions,
         \A h \in Sessions \ {g} : frame'[h] = frame[h],
         \A m \in Ids : conns'[m] \subseteq conns[m],
         Advances(g)
  PROVE  \A h \in Sessions : Advances(h)
BY WaitingAdvances

\* An activation that its own step makes f, of which less is left.
LEMMA NearerAdvances ==
  ASSUME HubTypeOK, NEW g \in Sessions, NEW f \in {Idle} \cup Frame,
         frame' = [frame EXCEPT ![g] = f], conns' = conns,
         NEW old \in Frame, old = frame[g],
         NEW C \in SUBSET Ids, C = conns[old.map],
         f \in Frame => f.map = old.map /\ StepsLeft(f, C) < StepsLeft(old, C)
  PROVE  \A h \in Sessions : Advances(h)
<1>1. frame'[g] = f /\ \A h \in Sessions \ {g} : frame'[h] = frame[h]
  BY DEF HubTypeOK
<1>2. Left(g) = StepsLeft(old, C) /\ StepsLeft(old, C) \in Nat /\ StepsLeft(old, C) > 0
  BY LeftShrinks DEF Left
<1>3. Left(g)' < Left(g)
  <2>1. CASE f = Idle
    <3>1. Left(g)' = 0
      BY <1>1, <2>1 DEF Left, StepsLeft, Idle
    <3> QED
      BY <1>2, <3>1
  <2>2. CASE f \in Frame
    <3>1. Left(g)' = StepsLeft(frame'[g], conns'[frame'[g].map])
      BY DEF Left, StepsLeft
    <3> QED
      BY <1>1, <1>2, <2>2, <3>1
  <2> QED
    BY <2>1, <2>2
<1> QED
  BY <1>1, <1>3, OneAdvances DEF Advances

\* Each step of an activation brings its own end nearer.
LEMMA ActivationAdvances ==
  ASSUME HubInv, NEW g \in Sessions, SendToUserStep(g)
  PROVE  \A h \in Sessions : Advances(h)
<1>0. HubTypeOK /\ frame[g] \in Frame /\ FrameAccounted(frame[g])
  BY FrameTyped DEF HubInv, SendToUserStep, SendToUserLen, RangeNext, RangeSend,
                    RangeEnd, UnregisterFailed, In
<1> PICK old \in Frame : old = frame[g]
  BY <1>0
<1> PICK C \in SUBSET Ids : C = conns[old.map]
  BY <1>0 DEF HubTypeOK, Frame
<1> PICK u \in Nat : u = Cardinality(C \ old.seen)
  BY IdCount
<1>1. old.failed \in SUBSET Ids
  BY DEF Frame
<1> PICK n \in Nat : n = Cardinality(old.failed)
  BY <1>1, IdCount
<1>2. CASE SendToUserLen(g)
  <2> DEFINE f == IF C = {} THEN Idle ELSE [old EXCEPT !.pc = "range", !.must = C]
  <2>1. /\ frame' = [frame EXCEPT ![g] = f]
        /\ old.pc = "len" /\ conns' = conns
    BY <1>2 DEF SendToUserLen, In, SetFrame, registry
  <2>2. f \in {Idle} \cup Frame
    BY DEF Frame
  <2>3. f \in Frame => /\ f.map = old.map /\ f.pc = "range"
                       /\ f.seen = old.seen /\ f.failed = old.failed
    BY DEF Frame, Idle
  <2>4. f \in Frame => StepsLeft(f, C) = 3 * u + n + 2
    BY <2>3 DEF StepsLeft
  <2>5. StepsLeft(old, C) = 3 * u + n + 3
    BY <2>1 DEF StepsLeft
  <2> HIDE DEF f
  <2>6. f \in Frame => f.map = old.map /\ StepsLeft(f, C) < StepsLeft(old, C)
    BY <2>3, <2>4, <2>5
  <2> QED
    BY <1>0, <2>1, <2>2, <2>6, NearerAdvances
<1>3. CASE RangeNext(g)
  <2>1. PICK id \in C \ old.seen :
          frame' = [frame EXCEPT ![g] =
            [old EXCEPT !.pc = "send", !.cur = id, !.seen = old.seen \cup {id}]]
    BY <1>3 DEF RangeNext, Yield, SetFrame
  <2> DEFINE f == [old EXCEPT !.pc = "send", !.cur = id,
                              !.seen = old.seen \cup {id}]
  <2>2. old.pc = "range" /\ conns' = conns
    BY <1>3 DEF RangeNext, Yield, In, SetFrame, registry
  <2>3. /\ f \in Frame
        /\ f.map = old.map /\ f.pc = "send"
        /\ f.seen = old.seen \cup {id} /\ f.failed = old.failed
    BY DEF Frame
  <2>4. Cardinality(C \ f.seen) = u - 1
    <3>1. C \ old.seen \in SUBSET Ids
      OBVIOUS
    <3>2. Cardinality((C \ old.seen) \ {id}) = u - 1
      BY <3>1, IdCount
    <3>3. C \ f.seen = (C \ old.seen) \ {id}
      BY <2>3
    <3> HIDE DEF f
    <3> QED
      BY <3>2, <3>3
  <2>5. StepsLeft(f, C) = 3 * (u - 1) + n + 4
    BY <2>3, <2>4 DEF StepsLeft
  <2>6. StepsLeft(old, C) = 3 * u + n + 2
    BY <2>2 DEF StepsLeft
  <2>7. frame' = [frame EXCEPT ![g] = f]
    BY <2>1
  <2> HIDE DEF f
  <2>8. f.map = old.map /\ StepsLeft(f, C) < StepsLeft(old, C)
    BY <2>3, <2>5, <2>6
  <2> QED
    BY <1>0, <2>2, <2>3, <2>7, <2>8, NearerAdvances
<1>4. CASE RangeSend(g)
  <2>1. old.pc = "send" /\ conns' = conns /\ old.cur \in Ids
    BY <1>0, <1>4 DEF RangeSend, Sending, SendingFails, In, SetFrame, registry,
                      FrameAccounted, Frame
  <2>2. PICK b \in SUBSET {old.cur} :
          frame' = [frame EXCEPT ![g] = [old EXCEPT !.pc = "range", !.cur = 0,
                                         !.failed = old.failed \cup b]]
    <3>1. CASE Sending(g)
      <4>1. [old EXCEPT !.pc = "range", !.cur = 0]
              = [old EXCEPT !.pc = "range", !.cur = 0, !.failed = old.failed \cup {}]
        BY DEF Frame
      <4> QED
        BY <3>1, <4>1 DEF Sending, SetFrame
    <3>2. CASE SendingFails(g)
      BY <3>2 DEF SendingFails, SetFrame
    <3> QED
      BY <1>4, <3>1, <3>2 DEF RangeSend
  <2> DEFINE f == [old EXCEPT !.pc = "range", !.cur = 0,
                              !.failed = old.failed \cup b]
  <2>3. /\ f \in Frame
        /\ f.map = old.map /\ f.pc = "range"
        /\ f.seen = old.seen /\ f.failed = old.failed \cup b
    BY <2>1 DEF Frame
  <2>4. PICK k \in Nat : k = Cardinality(f.failed) /\ k <= n + 1
    <3>1. old.failed \cup b \in SUBSET Ids
      BY <1>1, <2>1
    <3>2. b = {} \/ b = {old.cur}
      OBVIOUS
    <3>3. Cardinality(old.failed \cup {old.cur}) <= n + 1
      BY <1>1, IdCount
    <3>4. Cardinality(old.failed \cup b) <= n + 1
      <4>1. CASE b = {}
        <5>1. old.failed \cup b = old.failed
          BY <4>1
        <5>2. Cardinality(old.failed \cup b) = n
          BY <5>1
        <5> QED
          BY <5>2
      <4>2. CASE b = {old.cur}
        BY <3>3, <4>2
      <4> QED
        BY <3>2, <4>1, <4>2
    <3>5. Cardinality(old.failed \cup b) \in Nat
      BY <3>1, IdCount
    <3> HIDE DEF f
    <3> QED
      BY <2>3, <3>4, <3>5
  <2>5. StepsLeft(f, C) = 3 * u + k + 2
    BY <2>3, <2>4 DEF StepsLeft
  <2>6. StepsLeft(old, C) = 3 * u + n + 4
    BY <2>1 DEF StepsLeft
  <2>7. frame' = [frame EXCEPT ![g] = f]
    BY <2>2
  <2> HIDE DEF f
  <2>8. f.map = old.map /\ StepsLeft(f, C) < StepsLeft(old, C)
    BY <2>3, <2>4, <2>5, <2>6
  <2> QED
    BY <1>0, <2>1, <2>3, <2>7, <2>8, NearerAdvances
<1>5. CASE RangeEnd(g)
  <2> DEFINE f == IF old.failed = {} THEN Idle ELSE [old EXCEPT !.pc = "purge"]
  <2>1. /\ frame' = [frame EXCEPT ![g] = f]
        /\ old.pc = "range" /\ conns' = conns
    BY <1>5 DEF RangeEnd, In, SetFrame, registry
  <2>2. f \in {Idle} \cup Frame
    BY DEF Frame
  <2>3. f \in Frame => f.map = old.map /\ f.pc = "purge" /\ f.failed = old.failed
    BY DEF Frame, Idle
  <2>4. f \in Frame => StepsLeft(f, C) = n + 1
    BY <2>3 DEF StepsLeft
  <2>5. StepsLeft(old, C) = 3 * u + n + 2
    BY <2>1 DEF StepsLeft
  <2> HIDE DEF f
  <2>6. f \in Frame => f.map = old.map /\ StepsLeft(f, C) < StepsLeft(old, C)
    BY <2>3, <2>4, <2>5
  <2> QED
    BY <1>0, <2>1, <2>2, <2>6, NearerAdvances
<1>6. CASE UnregisterFailed(g)
  <2>1. PICK id \in old.failed :
          /\ Unregister(old.addr, id)
          /\ frame' = [frame EXCEPT ![g] =
               IF old.failed = {id} THEN Idle
               ELSE [old EXCEPT !.failed = old.failed \ {id}]]
    BY <1>6 DEF UnregisterFailed
  <2>2. PICK f : f = IF old.failed = {id} THEN Idle
                     ELSE [old EXCEPT !.failed = old.failed \ {id}]
    OBVIOUS
  <2>3. old.pc = "purge" /\ old.addr \in Addrs /\ id \in Ids
    BY <1>1, <1>6 DEF UnregisterFailed, In, Frame
  <2>4. \A m \in Ids : conns'[m] \subseteq conns[m]
    BY <2>1, <2>3, UnregisterEffect
  <2>5. frame'[g] = f /\ \A h \in Sessions \ {g} : frame'[h] = frame[h]
    BY <1>0, <2>1, <2>2 DEF HubTypeOK
  <2>6. f = Idle \/ (f.pc = "purge" /\ f.failed = old.failed \ {id})
    BY <2>2, <2>3 DEF Frame
  <2>7. Left(g) = n + 1
    BY <2>3 DEF Left, StepsLeft
  <2>8. Cardinality(old.failed \ {id}) = n - 1
    BY <1>1, <2>1, IdCount
  <2>9. Left(g)' = 0 \/ Left(g)' = n
    <3>1. CASE f = Idle
      BY <2>5, <3>1 DEF Left, StepsLeft, Idle
    <3>2. CASE f.pc = "purge" /\ f.failed = old.failed \ {id}
      <4>1. Left(g)' = Cardinality(f.failed) + 1
        BY <2>5, <3>2 DEF Left, StepsLeft
      <4> QED
        BY <2>8, <3>2, <4>1
    <3> QED
      BY <2>6, <3>1, <3>2
  <2>10. Left(g)' < Left(g)
    BY <2>7, <2>9
  <2> QED
    BY <1>0, <2>4, <2>5, <2>10, OneAdvances DEF Advances
<1> QED
  BY <1>2, <1>3, <1>4, <1>5, <1>6 DEF SendToUserStep

\* A new connection only puts off the activations for its own user.
LEMMA RegisterAdvances ==
  ASSUME HubInv, NEW s \in Sessions, Register(s), UNCHANGED frame
  PROVE  \A h \in Sessions : Advances(h)
<1> SUFFICES ASSUME NEW h \in Sessions, frame[h].pc # "idle"
             PROVE  Advances(h)
  BY DEF Advances
<1>1. /\ HubTypeOK /\ MapsOfOneUser
      /\ frame[h] \in Frame /\ FrameAccounted(frame[h])
  BY FrameTyped DEF HubInv
<1> PICK m \in Ids : m = IF streams[Owner[s]] = NoMap THEN nextID + 1
                        ELSE streams[Owner[s]]
  <2>1. nextID + 1 \in Ids
    BY <1>1, HubAssumption DEF Ids, Register, HubTypeOK, AddConnection
  <2> QED
    BY <1>1, <2>1, IdFacts DEF HubTypeOK
<1>2. AddConnection(s, m)
  BY DEF Register
<1>3. /\ nextID' = nextID + 1 /\ nextID + 1 \in Ids
      /\ conns' = [conns EXCEPT ![m] = conns[m] \cup {nextID + 1}]
      /\ stream' = [stream EXCEPT ![nextID + 1] = s]
  BY <1>1, <1>2, HubAssumption DEF AddConnection, Ids, HubTypeOK
<1>4. CASE frame[h].map = m
  <2>1. streams[Owner[s]] # NoMap
    BY <1>1, <1>4 DEF FrameAccounted, Frame, HubTypeOK
  <2>2. Owner[stream[m]] = Owner[s]
    BY <1>1, <2>1, IdFacts DEF MapsOfOneUser
  <2>3. Owner[s] = frame[h].addr
    BY <1>1, <1>4, <2>2 DEF FrameAccounted
  <2>4. stream'[nextID'] = s
    BY <1>1, <1>3 DEF HubTypeOK
  <2> QED
    BY <1>3, <2>3, <2>4 DEF Advances, Connects
<1>5. CASE frame[h].map # m
  <2>1. frame[h].map \in Ids /\ conns'[frame[h].map] = conns[frame[h].map]
    BY <1>1, <1>3, <1>5 DEF HubTypeOK, Frame
  <2>2. Left(h)' = StepsLeft(frame'[h], conns'[frame'[h].map])
    BY DEF Left, StepsLeft
  <2>3. Left(h)' = Left(h)
    BY <2>1, <2>2 DEF Left
  <2> QED
    BY <2>3 DEF Advances
<1> QED
  BY <1>4, <1>5

\* A disconnect only takes work from activations.
LEMMA UnregisterAdvances ==
  ASSUME HubInv, NEW s \in open, DeferredUnregister(s), UNCHANGED frame
  PROVE  \A h \in Sessions : Advances(h)
<1>1. HubTypeOK /\ s \in Sessions /\ connID[s] \in 0 .. MaxConns /\ connID[s] # 0
  BY DEF HubInv, HubTypeOK, IdsGivenOnce
<1>2. connID[s] \in Ids /\ Owner[s] \in Addrs
  BY <1>1, IdFacts, HubAssumption DEF Ids
<1>3. \A m \in Ids : conns'[m] \subseteq conns[m]
  BY <1>2, UnregisterEffect DEF DeferredUnregister
<1> QED
  BY <1>1, <1>3, WaitingAdvances

\* Steps that leave the maps and the activations alone, or start an activation.
LEMMA QuietAdvances ==
  ASSUME HubTypeOK, conns' = conns,
         \A h \in Sessions : frame'[h] = frame[h] \/ frame[h].pc = "idle"
  PROVE  \A h \in Sessions : Advances(h)
<1> TAKE h \in Sessions
<1>1. CASE frame'[h] = frame[h]
  BY <1>1, WaitingAdvances
<1> QED
  BY <1>1 DEF Advances

\* SendToUser takes at most three steps for a connection and three more, if no
\* new device of the addressee connects, however often others come and go: no
\* interleaving keeps a range alive that has only its own work to do.
THEOREM BoundedSendToUser == HubSpec => SendToUserBounded
<1>1. HubInv /\ [HubNext]_hubVars => \A g \in Sessions : Advances(g)
  <2> SUFFICES ASSUME HubInv, [HubNext]_hubVars
               PROVE  \A g \in Sessions : Advances(g)
    OBVIOUS
  <2>0. HubTypeOK
    BY DEF HubInv
  <2>1. CASE UNCHANGED hubVars
    BY <2>0, <2>1, QuietAdvances DEF hubVars
  <2>2. ASSUME NEW s \in Sessions, Connect(s) PROVE \A g \in Sessions : Advances(g)
    BY <2>2, RegisterAdvances DEF Connect
  <2>3. ASSUME NEW s \in Sessions, Disconnect(s) PROVE \A g \in Sessions : Advances(g)
    BY <2>3, UnregisterAdvances DEF Disconnect
  <2>4. ASSUME NEW s \in Sessions, EndRPC(s) \/ Break(s) \/ ClientRead(s)
        PROVE  \A g \in Sessions : Advances(g)
    BY <2>0, <2>4, QuietAdvances DEF EndRPC, Break, ClientRead, registry
  <2>5. ASSUME NEW g \in Sessions, NEW a \in Addrs, NEW r \in Resps, SendToUser(g, a, r)
        PROVE  \A h \in Sessions : Advances(h)
    <3>1. conns' = conns /\ \A h \in Sessions : frame'[h] = frame[h] \/ frame[h].pc = "idle"
      BY <2>0, <2>5 DEF SendToUser, SendToUserLookup, SetFrame, In, registry, HubTypeOK
    <3> QED
      BY <2>0, <3>1, QuietAdvances
  <2> QED
    BY <2>1, <2>2, <2>3, <2>4, <2>5, ActivationAdvances DEF HubNext
<1> QED
  BY <1>1, HubInvariant, PTL DEF HubSpec, SendToUserBounded
===============================================================================
