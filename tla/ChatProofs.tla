------------------------------ MODULE ChatProofs ------------------------------
(*****************************************************************************)
(* Proofs about Chat, with crashes and restarts: ChatInv is an invariant of  *)
(* ChatCrashSpec, no acknowledged message is missed, and the handlers        *)
(* implement Mailbox, for every set of users, sessions and spellings and     *)
(* every bound on the connections and messages.                              *)
(*                                                                           *)
(* What an action does to the hub is in the lemmas of HubProofs; those here  *)
(* say what it does to handlers, documents and the order of what streams     *)
(* took.                                                                     *)
(*****************************************************************************)
EXTENDS Chat, HubProofs

\* Messages, and addresses that are in normalized form.
LEMMA ChatFacts ==
  /\ Resps = 1 .. MaxMsgs /\ MaxMsgs \in Nat /\ Resps \subseteq Nat
  /\ \A a \in Addrs : Email[a] \in Emails
  /\ Emails \subseteq Addrs
  /\ \A e \in Emails : Email[e] = e
  /\ \A s \in Sessions : Owner[s] \in Emails
  /\ \A r \in Request : r # NoReq /\ r.id \in Resps
  /\ \A d \in Doc : d # NoDoc
BY ChatAssumption DEF Emails, Request

\* What the streams took after one more delivery.
LEMMA DeliverTook ==
  ASSUME HubTypeOK, NEW s \in Sessions, NEW via \in {"ack", "hub"},
         NEW r \in Resps, M!Deliver(s, via, r)
  PROVE  \A t \in Sessions, w \in {"ack", "hub"}, x \in Resps :
           Took(t, w, x)' <=> Took(t, w, x) \/ (t = s /\ w = via /\ x = r)
<1> DEFINE e == [via |-> via, resp |-> r]
<1>1. /\ out \in [Sessions -> Seq(Sent)] /\ e \in Sent
      /\ out' = [out EXCEPT ![s] = Append(out[s], e)]
  BY DEF HubTypeOK, M!Deliver, Sent
<1> TAKE t \in Sessions, w \in {"ack", "hub"}, x \in Resps
<1> DEFINE d == [via |-> w, resp |-> x]
<1>2. CASE t # s
  BY <1>1, <1>2 DEF Took
<1>3. CASE t = s
  <2>1. /\ out[s] \in Seq(Sent) /\ out'[s] = Append(out[s], e)
        /\ Len(out[s]) \in Nat
        /\ Len(out'[s]) = Len(out[s]) + 1
        /\ \A i \in 1 .. Len(out[s]) : out'[s][i] = out[s][i]
        /\ out'[s][Len(out[s]) + 1] = e
    BY <1>1
  <2>2. d = e <=> w = via /\ x = r
    OBVIOUS
  <2> HIDE DEF d, e
  <2>3. (\E i \in 1 .. Len(out'[s]) : out'[s][i] = d)
          <=> (\E i \in 1 .. Len(out[s]) : out[s][i] = d) \/ d = e
    BY <2>1
  <2> QED
    BY <1>3, <2>2, <2>3 DEF Took, d
<1> QED
  BY <1>2, <1>3

\* A Send that succeeds is a delivery.
LEMMA TookAfter ==
  ASSUME HubTypeOK, NEW s \in Sessions, NEW via \in {"ack", "hub"},
         NEW r \in Resps, Accept(s, via, r)
  PROVE  \A t \in Sessions, w \in {"ack", "hub"}, x \in Resps :
           Took(t, w, x)' <=> Took(t, w, x) \/ (t = s /\ w = via /\ x = r)
<1>1. M!Deliver(s, via, r)
  BY DEF Accept, M!Deliver
<1> QED
  BY <1>1, DeliverTook

LEMMA GotIsTook ==
  ASSUME NEW t, NEW m
  PROVE  /\ Got(t, m) <=> Took(t, "hub", m)
         /\ Got(t, m)' <=> Took(t, "hub", m)'
BY DEF Got, Took

LEMMA TookKept ==
  ASSUME UNCHANGED out
  PROVE  \A t, w, x : Took(t, w, x)' <=> Took(t, w, x)
BY DEF Took

\* A request and a document of the types that the variables have.
LEMMA ReqTyped ==
  ASSUME ChatTypeOK, NEW s \in Sessions, req[s] # NoReq
  PROVE  req[s] \in Request /\ req[s].id \in Resps /\ req[s].addr \in Addrs
BY DEF ChatTypeOK, Request

LEMMA DocTyped ==
  ASSUME ChatTypeOK, NEW m \in Resps, msgs[m] # NoDoc
  PROVE  /\ msgs[m] \in Doc /\ msgs[m].src \in Sessions /\ msgs[m].addr \in Addrs
         /\ msgs[m].to \in Emails /\ msgs[m].owed \subseteq Sessions
BY DEF ChatTypeOK, Doc

LEMMA RespTyped ==
  ASSUME ChatTypeOK, NEW s \in Sessions, frame[s].pc # "idle"
  PROVE  frame[s] \in Frame /\ frame[s].resp \in Resps /\ frame[s].addr \in Addrs /\ frame[s].map \in Ids
BY FrameTyped DEF ChatTypeOK, Frame

-------------------------------------------------------------------------------
(* Frame lemmas: what the step of one session s leaves alone.                *)

\* The other handlers keep their part of the invariant.
LEMMA OthersKept ==
  ASSUME ChatInv, NEW s \in Sessions, NEW t \in Sessions, t # s,
         step'[t] = step[t], req'[t] = req[t], frame'[t] = frame[t],
         connID'[t] = connID[t], t \in open' <=> t \in open,
         issued' \in Nat, issued <= issued',
         \A u \in Sessions : u # s => req'[u] = req[u],
         \A x \in Resps : Took(t, "ack", x) => Took(t, "ack", x)',
         \A m \in Resps : \/ msgs'[m] = msgs[m]
                          \/ msgs[m] = NoDoc /\ req[s] # NoReq /\ req[s].id = m,
         \/ req'[s] = NoReq
         \/ req[s] # NoReq /\ req'[s].id = req[s].id
         \/ req'[s].id \in Nat /\ req'[s].id > issued
  PROVE  HandlerInv(t)'
<1>1. HandlerInv(t) /\ HandlerInv(s) /\ ChatTypeOK /\ issued \in Nat
  BY ChatFacts DEF ChatInv, ChatTypeOK
<1>2. req[t] # NoReq => /\ req[t].id \in Resps /\ req[t].id \in Nat
                        /\ msgs[req[t].id] # NoDoc => msgs'[req[t].id] = msgs[req[t].id]
                        /\ msgs'[req[t].id] = msgs[req[t].id]
  BY <1>1, ReqTyped, ChatFacts DEF HandlerInv
<1>3. frame[t].pc # "idle" => /\ frame[t].resp \in Resps
                              /\ msgs'[frame[t].resp] = msgs[frame[t].resp]
  BY <1>1, RespTyped DEF HandlerInv
<1>4. req[t] # NoReq =>
         /\ req[t].id <= issued'
         /\ \A u \in Sessions \ {t} : req'[u] # NoReq => req'[u].id # req[t].id
  BY <1>1, <1>2 DEF HandlerInv
<1> QED
  BY <1>1, <1>2, <1>3, <1>4 DEF HandlerInv

\* Documents stay as they are.
LEMMA DocsKept ==
  ASSUME ChatInv, UNCHANGED msgs, issued' \in Nat, issued <= issued',
         \A t \in Sessions : step'[t] = "new" => step[t] = "new"
  PROVE  \A m \in Resps : DocInv(m)'
BY ChatFacts, DocTyped DEF ChatInv, ChatTypeOK, DocInv

\* No stream takes anything: the acknowledgements stay in order.
LEMMA AckedKept ==
  ASSUME ChatInv, NEW s \in Sessions, NEW m \in Resps,
         Took(s, "ack", m)' <=> Took(s, "ack", m),
         msgs[m] # NoDoc => msgs'[m] = msgs[m],
         step'[s] \in {"verify", "save", "ack"} =>
           \/ step[s] \in {"verify", "save", "ack"} /\ req'[s] = req[s]
           \/ req'[s].id \in Nat /\ req'[s].id > issued
  PROVE  AckedInOrder(s, m)'
<1>1. AckedInOrder(s, m) /\ DocInv(m) /\ issued \in Nat /\ m \in Nat
  BY ChatFacts DEF ChatInv, ChatTypeOK
<1> QED
  BY <1>1 DEF AckedInOrder, DocInv

\* No stream takes anything: the pushes stay in order.
LEMMA PushedKept ==
  ASSUME ChatInv, NEW t \in Sessions, NEW m \in Resps,
         Took(t, "hub", m)' <=> Took(t, "hub", m),
         msgs[m] # NoDoc => msgs'[m] = msgs[m],
         \A g \in Sessions : req'[g] # NoReq =>
           \/ req[g] # NoReq /\ req'[g].id = req[g].id
           \/ req'[g].id \in Nat /\ req'[g].id > issued,
         \A g \in Sessions : frame'[g].pc # "idle" =>
           \/ /\ frame[g].pc # "idle" /\ frame'[g].resp = frame[g].resp
              /\ t \in Served(frame[g]) => t \in Served(frame[g])'
           \/ req[g] # NoReq /\ req[g].id = frame'[g].resp
  PROVE  PushedInOrder(t, m)'
<1>1. PushedInOrder(t, m) /\ DocInv(m) /\ issued \in Nat /\ m \in Nat
  BY ChatFacts DEF ChatInv, ChatTypeOK
<1>2. SUFFICES ASSUME Got(t, m)' PROVE PushedInOrder(t, m)'
  BY DEF PushedInOrder
<1>3. Got(t, m) /\ msgs[m] # NoDoc /\ msgs'[m] = msgs[m] /\ m <= issued
  BY <1>1, <1>2, GotIsTook DEF PushedInOrder, DocInv
<1>4. msgs[m].src \in Sessions
  BY <1>3, DocTyped DEF ChatInv
<1> QED
  BY <1>1, <1>3, <1>4 DEF PushedInOrder
\* What is owed stays on its way, if whatever an activation or a handler still
\* had to do for it is done or still to be done.
LEMMA OwedKept ==
  ASSUME ChatInv, NEW t \in Sessions, NEW m \in Resps,
         msgs'[m] = msgs[m],
         Took(t, "hub", m) => Took(t, "hub", m)',
         \A s \in Sessions : Took(s, "ack", m)' <=> Took(s, "ack", m),
         alive' \subseteq alive,
         t \in open' => t \in open \/ step[t] = "new",
         \A s \in Sessions :
           /\ msgs[m] # NoDoc /\ msgs[m].src = s /\ msgs[m].addr \in Emails
           /\ t \in msgs[m].owed \cap open \cap alive \cap open' \cap alive'
           /\ Took(s, "ack", m)
           /\ \/ step[s] = "push" /\ req[s].id = m
              \/ Reaches(frame[s], m, t)
           => \/ Got(t, m)'
              \/ step'[s] = "push" /\ req'[s].id = m
              \/ Reaches(frame[s], m, t)'
  PROVE  OwedPending(m, t)'
<1>1. OwedPending(m, t) /\ DocInv(m)
  BY DEF ChatInv
<1>2. SUFFICES ASSUME msgs'[m] # NoDoc,
                      t \in msgs'[m].owed \cap open' \cap alive', msgs'[m].addr \in Emails
               PROVE  \/ Got(t, m)'
                      \/ ~Took(msgs[m].src, "ack", m)'
                      \/ step'[msgs[m].src] = "push" /\ req'[msgs[m].src].id = m
                      \/ Reaches(frame[msgs[m].src], m, t)'
  BY DEF OwedPending
<1>3. msgs[m] # NoDoc /\ msgs[m].src \in Sessions
  BY <1>2, DocTyped DEF ChatInv
<1>4. t \in msgs[m].owed \cap open \cap alive \cap open' \cap alive'
  BY <1>1, <1>2, <1>3 DEF DocInv
<1>5. \/ Got(t, m)
      \/ ~Took(msgs[m].src, "ack", m)
      \/ step[msgs[m].src] = "push" /\ req[msgs[m].src].id = m
      \/ Reaches(frame[msgs[m].src], m, t)
  BY <1>1, <1>2, <1>3, <1>4 DEF OwedPending
<1> QED
  BY <1>2, <1>3, <1>4, <1>5, GotIsTook

\* An activation keeps its view if the maps lose no connection of t.
LEMMA ReachesKept ==
  ASSUME NEW g \in Sessions, NEW m, NEW t \in Sessions, Reaches(frame[g], m, t),
         frame'[g] = frame[g], connID'[t] = connID[t],
         connID[t] \in conns[frame[g].map] => connID[t] \in conns'[frame[g].map]
  PROVE  Reaches(frame[g], m, t)'
BY DEF Reaches

\* A step that changes neither the handlers nor the maps: streams that break or
\* are read, a user who registers, the end of the process.
LEMMA OutsideStep ==
  ASSUME ChatInv, HubInv', users' \subseteq Emails, alive' \subseteq alive,
         UNCHANGED <<conns, stream, connID, open, out, frame, msgs, step, req, issued>>
  PROVE  ChatInv'
<1>1. ChatTypeOK'
  BY DEF ChatInv, ChatTypeOK, HubInv
<1>2. \A t, w, x : Took(t, w, x)' <=> Took(t, w, x)
  BY TookKept
<1>3. issued \in Nat
  BY ChatFacts DEF ChatInv, ChatTypeOK
<1>4. \A t \in Sessions : HandlerInv(t)'
  BY <1>2 DEF ChatInv, HandlerInv
<1>5. \A m \in Resps : DocInv(m)'
  BY DEF ChatInv, DocInv
<1>6. ASSUME NEW t \in Sessions, NEW m \in Resps
      PROVE  AckedInOrder(t, m)' /\ PushedInOrder(t, m)' /\ OwedPending(m, t)'
  <2>1. AckedInOrder(t, m)'
    BY <1>2, <1>6, AckedKept
  <2>2. \A g : Served(frame[g])' = Served(frame[g])
    BY DEF Served
  <2>3. PushedInOrder(t, m)'
    BY <1>2, <1>6, <2>2, PushedKept
  <2>4. \A g \in Sessions : Reaches(frame[g], m, t) => Reaches(frame[g], m, t)'
    BY <1>6, ReachesKept
  <2>5. OwedPending(m, t)'
    BY <1>2, <1>6, <2>4, OwedKept
  <2> QED
    BY <2>1, <2>3, <2>5
<1> QED
  BY <1>1, <1>4, <1>5, <1>6 DEF ChatInv
\* A step of a handler that touches neither the hub nor the documents and drops
\* no push.
LEMMA MoveStep ==
  ASSUME ChatInv, NEW s \in Sessions, NEW where \in Steps \ {"new"},
         NEW r \in Request \cup {NoReq},
         Goto(s, where), req' = [req EXCEPT ![s] = r],
         UNCHANGED <<hubVars, users, msgs>>,
         issued' \in 0 .. MaxMsgs, issued <= issued',
         r = NoReq \/ (req[s] # NoReq /\ r = req[s]) \/ r.id > issued,
         step[s] # "push",
         where \in {"verify", "save", "ack"} =>
           \/ step[s] \in {"verify", "save", "ack"} /\ r = req[s]
           \/ r # NoReq /\ r.id > issued,
         HandlerInv(s)'
  PROVE  ChatInv'
<1>0. /\ ChatTypeOK /\ issued \in Nat /\ issued' \in Nat
      /\ step' = [step EXCEPT ![s] = where]
      /\ UNCHANGED <<streams, conns, stream, nextID, connID, open, alive, out, read,
                     frame, proc>>
  BY ChatFacts DEF ChatInv, ChatTypeOK, Goto, hubVars
<1>1. HubInv'
  BY <1>0, StreamChangeStep DEF ChatInv, HubInv, HubTypeOK, registry
<1>2. ChatTypeOK'
  BY <1>0, <1>1 DEF ChatTypeOK, HubInv
<1>3. \A t, w, x : Took(t, w, x)' <=> Took(t, w, x)
  BY <1>0, TookKept
<1>4. /\ step'[s] = where /\ req'[s] = r
      /\ \A u \in Sessions : u # s => step'[u] = step[u] /\ req'[u] = req[u]
  BY <1>0 DEF ChatTypeOK
<1>5. r # NoReq => r.id \in Nat
  BY ChatFacts
<1>6. ASSUME NEW t \in Sessions, t # s PROVE HandlerInv(t)'
  BY <1>0, <1>3, <1>4, <1>5, <1>6, OthersKept
<1>7. \A m \in Resps : DocInv(m)'
  BY <1>0, <1>4, DocsKept
<1>8. ASSUME NEW t \in Sessions, NEW m \in Resps
      PROVE  AckedInOrder(t, m)' /\ PushedInOrder(t, m)' /\ OwedPending(m, t)'
  <2>1. step'[t] \in {"verify", "save", "ack"} =>
           \/ step[t] \in {"verify", "save", "ack"} /\ req'[t] = req[t]
           \/ req'[t].id \in Nat /\ req'[t].id > issued
    BY <1>4, <1>5, <1>8
  <2>2. AckedInOrder(t, m)'
    BY <1>3, <1>8, <2>1, AckedKept
  <2>3. \A g : Served(frame[g])' = Served(frame[g])
    BY <1>0 DEF Served
  <2>4. \A g \in Sessions : req'[g] # NoReq =>
           \/ req[g] # NoReq /\ req'[g].id = req[g].id
           \/ req'[g].id \in Nat /\ req'[g].id > issued
    BY <1>4, <1>5
  <2>5. PushedInOrder(t, m)'
    BY <1>0, <1>3, <1>8, <2>3, <2>4, PushedKept
  <2>6. \A g \in Sessions : Reaches(frame[g], m, t) => Reaches(frame[g], m, t)'
    BY <1>0, <1>8, ReachesKept
  <2>7. \A g \in Sessions : step[g] = "push" /\ req[g].id = m
                              => step'[g] = "push" /\ req'[g].id = m
    BY <1>4
  <2>8. OwedPending(m, t)'
    BY <1>0, <1>3, <1>8, <2>6, <2>7, OwedKept
  <2> QED
    BY <2>2, <2>5, <2>8
<1> QED
  BY <1>1, <1>2, <1>6, <1>7, <1>8 DEF ChatInv

LEMMA RecvRequestStep ==
  ASSUME ChatInv, NEW s \in Sessions, NEW a \in Addrs, RecvRequest(s, a)
  PROVE  ChatInv'
<1> DEFINE r == [id |-> issued', addr |-> a]
<1>1. /\ issued \in Nat /\ issued' = issued + 1 /\ issued' \in 0 .. MaxMsgs
      /\ issued' \in Resps
  BY ChatFacts DEF ChatInv, ChatTypeOK, RecvRequest
<1>2. r \in Request /\ r.id = issued' /\ r.id > issued
  BY <1>1 DEF Request
<1>3. /\ step[s] = "recv" /\ frame[s].pc = "idle" /\ Goto(s, "verify")
      /\ req' = [req EXCEPT ![s] = r]
      /\ UNCHANGED <<hubVars, users, msgs>>
  BY DEF RecvRequest, At
<1> HIDE DEF r
<1>4. r # NoReq
  BY <1>2, ChatFacts
<1>5. /\ step'[s] = "verify" /\ req'[s] = r
      /\ \A t \in Sessions \ {s} : req'[t] = req[t]
  BY <1>3 DEF ChatInv, ChatTypeOK, Goto
<1>6. msgs'[r.id] = NoDoc
  BY <1>1, <1>2, <1>3 DEF ChatInv, DocInv
<1>7. \A t \in Sessions \ {s} : req[t] # NoReq => req[t].id # r.id
  <2> TAKE t \in Sessions \ {s}
  <2> HAVE req[t] # NoReq
  <2>1. req[t].id \in Nat
    BY ReqTyped, ChatFacts DEF ChatInv
  <2>2. req[t].id <= issued
    BY DEF ChatInv, HandlerInv
  <2> QED
    BY <1>1, <1>2, <2>1, <2>2
<1>8. HandlerInv(s)'
  BY <1>1, <1>2, <1>3, <1>4, <1>5, <1>6, <1>7 DEF ChatInv, HandlerInv, hubVars
<1>9. issued <= issued' /\ "verify" \in Steps \ {"new"} /\ step[s] # "push"
  BY <1>1, <1>3 DEF Steps
<1> QED
  BY <1>1, <1>2, <1>3, <1>4, <1>8, <1>9, MoveStep

LEMMA RecvEndStep ==
  ASSUME ChatInv, NEW s \in Sessions, RecvEnd(s)
  PROVE  ChatInv'
<1>1. /\ step[s] = "recv" /\ Goto(s, "return") /\ req' = [req EXCEPT ![s] = NoReq]
      /\ frame[s].pc = "idle"
      /\ UNCHANGED <<hubVars, users, msgs, issued>>
  BY DEF RecvEnd, At, Return
<1>2. issued' \in 0 .. MaxMsgs /\ issued <= issued' /\ issued \in Nat
  BY <1>1, ChatFacts DEF ChatInv, ChatTypeOK
<1>3. step'[s] = "return" /\ req'[s] = NoReq
  BY <1>1 DEF ChatInv, ChatTypeOK, Goto
<1>4. HandlerInv(s)'
  BY <1>1, <1>3 DEF ChatInv, HandlerInv, hubVars
<1> QED
  BY <1>1, <1>2, <1>4, MoveStep DEF Steps

LEMMA VerifyRecipientStep ==
  ASSUME ChatInv, NEW s \in Sessions, VerifyRecipient(s)
  PROVE  ChatInv'
<1>1. /\ step[s] = "verify" /\ UNCHANGED <<hubVars, users, msgs, issued>>
      /\ HandlerInv(s) /\ frame[s].pc = "idle" /\ req[s] # NoReq
  BY DEF VerifyRecipient, At, ChatInv, HandlerInv
<1>2. issued' \in 0 .. MaxMsgs /\ issued <= issued' /\ issued \in Nat
  BY <1>1, ChatFacts DEF ChatInv, ChatTypeOK
<1>3. CASE Goto(s, "save") /\ UNCHANGED req
  <2>1. step'[s] = "save" /\ req'[s] = req[s] /\ req' = [req EXCEPT ![s] = req[s]]
    BY <1>3 DEF ChatInv, ChatTypeOK, Goto
  <2>2. \A x : Took(s, "ack", x)' <=> Took(s, "ack", x)
    BY <1>1, TookKept DEF hubVars
  <2>3. HandlerInv(s)'
    BY <1>1, <1>3, <2>1 DEF HandlerInv, hubVars
  <2> QED
    BY <1>1, <1>2, <1>3, <2>1, <2>3, MoveStep DEF Steps, ChatInv, ChatTypeOK
<1>4. CASE Return(s)
  <2>1. step'[s] = "return" /\ req'[s] = NoReq /\ req' = [req EXCEPT ![s] = NoReq]
    BY <1>4 DEF ChatInv, ChatTypeOK, Goto, Return
  <2>2. HandlerInv(s)'
    BY <1>1, <2>1 DEF HandlerInv, hubVars
  <2> QED
    BY <1>1, <1>2, <1>4, <2>1, <2>2, MoveStep DEF Steps, Return
<1> QED
  BY <1>3, <1>4 DEF VerifyRecipient
-------------------------------------------------------------------------------
(* Opening and closing a stream.                                             *)

\* The connections that an activation has seen were given out before.
LEMMA ServedKept ==
  ASSUME HubInv, NEW g \in Sessions, frame[g].pc # "idle", frame'[g] = frame[g],
         \A id \in Ids : id <= nextID => stream'[id] = stream[id]
  PROVE  Served(frame[g])' = Served(frame[g])
<1>1. frame[g].seen \subseteq Ids /\ \A id \in frame[g].seen : id <= nextID
  BY FrameTyped DEF HubInv, FrameAccounted, Frame
<1> QED
  BY <1>1 DEF Served

LEMMA OpenStreamStep ==
  ASSUME ChatInv, NEW s \in Sessions, OpenStream(s)
  PROVE  ChatInv'
<1>1. /\ step[s] = "new" /\ Register(s) /\ step' = [step EXCEPT ![s] = "recv"]
      /\ UNCHANGED <<alive, out, read, frame, users, msgs, req, issued>>
  BY DEF OpenStream, At, Goto, grpc
<1>2. /\ ChatTypeOK /\ HandlerInv(s) /\ connID[s] = 0 /\ frame[s].pc = "idle"
      /\ req[s] = NoReq /\ issued \in Nat
  BY <1>1, ChatFacts DEF ChatInv, ChatTypeOK, HandlerInv
<1>3. HubInv'
  BY <1>1, <1>2, RegisterStep DEF ChatInv
<1>4. ChatTypeOK'
  BY <1>1, <1>2, <1>3 DEF ChatTypeOK, HubInv, Steps
<1>5. /\ open' = open \cup {s}
      /\ \A t \in Sessions \ {s} : connID'[t] = connID[t] /\ step'[t] = step[t]
      /\ step'[s] = "recv" /\ connID'[s] = nextID + 1
      /\ \A id \in Ids : id <= nextID => stream'[id] = stream[id]
      /\ \A n \in Ids : conns[n] \subseteq conns'[n]
  BY <1>1, <1>2, IdFacts DEF ChatTypeOK, HubTypeOK, Register, AddConnection
<1>6. \A t, w, x : Took(t, w, x)' <=> Took(t, w, x)
  BY <1>1, TookKept
<1>7. ASSUME NEW t \in Sessions PROVE HandlerInv(t)'
  <2>1. CASE t = s
    BY <1>1, <1>2, <1>5, <2>1 DEF HandlerInv
  <2>2. CASE t # s
    BY <1>1, <1>2, <1>5, <1>6, <2>2, OthersKept
  <2> QED
    BY <2>1, <2>2
<1>8. \A m \in Resps : DocInv(m)'
  BY <1>1, <1>2, <1>5, DocsKept
<1>9. ASSUME NEW t \in Sessions, NEW m \in Resps
      PROVE  AckedInOrder(t, m)' /\ PushedInOrder(t, m)' /\ OwedPending(m, t)'
  <2>1. AckedInOrder(t, m)'
    BY <1>1, <1>5, <1>6, <1>9, AckedKept
  <2>2. \A g \in Sessions : frame[g].pc # "idle" => Served(frame[g])' = Served(frame[g])
    BY <1>1, <1>5, ServedKept DEF ChatInv
  <2>3. PushedInOrder(t, m)'
    BY <1>1, <1>6, <1>9, <2>2, PushedKept
  <2>4. \A g \in Sessions : t # s /\ Reaches(frame[g], m, t) => Reaches(frame[g], m, t)'
    <3> TAKE g \in Sessions
    <3> HAVE t # s /\ Reaches(frame[g], m, t)
    <3>1. frame[g].map \in Ids
      BY <1>2, RespTyped DEF Reaches
    <3> QED
      BY <1>1, <1>5, <1>9, <3>1, ReachesKept
  <2>5. msgs[m] # NoDoc /\ t \in msgs[m].owed => t # s
    BY <1>1, <1>9 DEF ChatInv, DocInv
  <2>6. OwedPending(m, t)'
    BY <1>1, <1>5, <1>6, <1>9, <2>4, <2>5, OwedKept
  <2> QED
    BY <2>1, <2>3, <2>6
<1> QED
  BY <1>3, <1>4, <1>7, <1>8, <1>9 DEF ChatInv

LEMMA CloseStreamStep ==
  ASSUME ChatInv, NEW s \in Sessions, CloseStream(s)
  PROVE  ChatInv'
<1>1. /\ step[s] = "return" /\ DeferredUnregister(s)
      /\ step' = [step EXCEPT ![s] = "ended"]
      /\ UNCHANGED <<alive, out, read, frame, users, msgs, req, issued>>
  BY DEF CloseStream, At, Goto, grpc
<1>2. /\ ChatTypeOK /\ HubInv /\ HandlerInv(s) /\ frame[s].pc = "idle"
      /\ req[s] = NoReq /\ issued \in Nat
  BY <1>1, ChatFacts DEF ChatInv, ChatTypeOK, HandlerInv
<1>3. s \in open /\ connID[s] \in Ids
  <2>1. s \in open /\ connID[s] \in 0 .. MaxConns
    BY <1>1, <1>2 DEF HandlerInv, ChatTypeOK, HubTypeOK
  <2>2. connID[s] # 0
    BY <1>2, <2>1 DEF HubInv, IdsGivenOnce
  <2> QED
    BY <2>1, <2>2, HubAssumption DEF Ids
<1>4. HubInv'
  BY <1>1, <1>2, <1>3, UnregisterStep
<1>5. ChatTypeOK'
  BY <1>1, <1>2, <1>4 DEF ChatTypeOK, HubInv, Steps
<1>6. /\ open' = open \ {s} /\ UNCHANGED <<stream, nextID, connID>>
      /\ \A t \in Sessions \ {s} : step'[t] = step[t]
      /\ step'[s] = "ended"
      /\ Unregister(Owner[s], connID[s])
  BY <1>1, <1>2 DEF ChatTypeOK, DeferredUnregister
<1>7. \A t, w, x : Took(t, w, x)' <=> Took(t, w, x)
  BY <1>1, TookKept
<1>8. ASSUME NEW t \in Sessions PROVE HandlerInv(t)'
  <2>1. CASE t = s
    BY <1>1, <1>2, <1>6, <2>1 DEF HandlerInv
  <2>2. CASE t # s
    BY <1>1, <1>2, <1>6, <1>7, <2>2, OthersKept
  <2> QED
    BY <2>1, <2>2
<1>9. \A m \in Resps : DocInv(m)'
  BY <1>1, <1>2, <1>6, DocsKept
<1>10. ASSUME NEW n \in Ids, NEW t \in Sessions, t # s, connID[t] \in conns[n],
              t \in open \cap alive
       PROVE  connID[t] \in conns'[n]
  <2>1. connID[t] # connID[s]
    BY <1>2, <1>3, <1>10 DEF HubInv, IdsGivenOnce
  <2>2. conns'[n] = conns[n] \/ conns'[n] = conns[n] \ {connID[s]}
    BY <1>2, <1>6, <1>10, IdFacts
       DEF Unregister, RemoveConnection, ChatTypeOK, HubTypeOK
  <2> QED
    BY <1>10, <2>1, <2>2
<1>11. ASSUME NEW t \in Sessions, NEW m \in Resps
       PROVE  AckedInOrder(t, m)' /\ PushedInOrder(t, m)' /\ OwedPending(m, t)'
  <2>1. AckedInOrder(t, m)'
    BY <1>1, <1>6, <1>7, <1>11, AckedKept
  <2>2. \A g \in Sessions : Served(frame[g])' = Served(frame[g])
    BY <1>1, <1>6 DEF Served
  <2>3. PushedInOrder(t, m)'
    BY <1>1, <1>7, <1>11, <2>2, PushedKept
  <2>4. \A g \in Sessions : t # s /\ t \in open \cap alive /\ Reaches(frame[g], m, t)
                              => Reaches(frame[g], m, t)'
    <3> TAKE g \in Sessions
    <3> HAVE t # s /\ t \in open \cap alive /\ Reaches(frame[g], m, t)
    <3>1. frame[g].map \in Ids
      BY <1>2, RespTyped DEF Reaches
    <3> QED
      BY <1>1, <1>6, <1>10, <1>11, <3>1, ReachesKept
  <2>5. OwedPending(m, t)'
    BY <1>1, <1>6, <1>7, <1>11, <2>4, OwedKept
  <2> QED
    BY <2>1, <2>3, <2>5
<1> QED
  BY <1>4, <1>5, <1>8, <1>9, <1>11 DEF ChatInv
-------------------------------------------------------------------------------
(* Saving and acknowledging.                                                 *)

\* The insert of SaveMessage, after which the handler goes on or returns.
LEMMA InsertStep ==
  ASSUME ChatInv, NEW s \in Sessions, step[s] = "save", InsertMessage(s),
         NEW where, NEW r,
         \/ where = "ack" /\ r = req[s]
         \/ where = "return" /\ r = NoReq,
         step' = [step EXCEPT ![s] = where], req' = [req EXCEPT ![s] = r],
         UNCHANGED <<streams, conns, stream, nextID, connID, open, alive, out, read,
                     frame, proc, users, issued>>
  PROVE  ChatInv'
<1> DEFINE n == req[s].id
           a == req[s].addr
           d == [src |-> s, addr |-> a, from |-> Email[Owner[s]], to |-> Email[a],
                 owed |-> {t \in open : Owner[t] = Email[a]}]
<1>1. /\ ChatTypeOK /\ HandlerInv(s) /\ req[s] # NoReq /\ issued \in Nat
      /\ frame[s].pc = "idle"
  BY ChatFacts DEF ChatInv, ChatTypeOK, HandlerInv
<1>2. n \in Resps /\ a \in Addrs /\ n <= issued /\ msgs[n] = NoDoc
  BY <1>1, ReqTyped DEF HandlerInv
<1>3. /\ Owner[s] \in Addrs /\ Email[Owner[s]] \in Emails /\ Email[a] \in Emails
      /\ {t \in open : Owner[t] = Email[a]} \subseteq Sessions
  BY <1>1, <1>2, ChatFacts DEF ChatTypeOK, HubTypeOK
<1>4. d \in Doc /\ d # NoDoc
  <2>1. d \in Doc
    BY <1>2, <1>3 DEF Doc
  <2> QED
    BY <2>1, ChatFacts
<1>5. msgs' = [msgs EXCEPT ![n] = d]
  BY DEF InsertMessage
<1>6. /\ d.src = s /\ d.addr = a /\ d.to = Email[a]
      /\ d.owed = {t \in open : Owner[t] = Email[a]}
  OBVIOUS
<1> HIDE DEF d
<1>7. /\ msgs'[n] = d /\ \A m \in Resps : m # n => msgs'[m] = msgs[m]
      /\ msgs' \in [Resps -> Doc \cup {NoDoc}]
  BY <1>1, <1>2, <1>4, <1>5 DEF ChatTypeOK
<1> HIDE DEF n, a
<1>8. /\ step'[s] = where /\ req'[s] = r
      /\ \A t \in Sessions \ {s} : step'[t] = step[t] /\ req'[t] = req[t]
  BY <1>1 DEF ChatTypeOK
<1>9. HubInv'
  BY <1>1, StreamChangeStep DEF ChatInv, HubInv, HubTypeOK, registry
<1>10. ChatTypeOK'
  BY <1>1, <1>7, <1>9 DEF ChatTypeOK, HubInv, Steps
<1>11. \A t, w, x : Took(t, w, x)' <=> Took(t, w, x)
  BY TookKept
<1>12. ASSUME NEW t \in Sessions PROVE HandlerInv(t)'
  <2>1. CASE t # s
    <3>1. \A m \in Resps : \/ msgs'[m] = msgs[m]
                           \/ msgs[m] = NoDoc /\ req[s] # NoReq /\ req[s].id = m
      BY <1>1, <1>2, <1>7 DEF n
    <3>2. req'[s] = NoReq \/ (req[s] # NoReq /\ req'[s].id = req[s].id)
      BY <1>1, <1>8
    <3> QED
      BY <1>1, <1>8, <1>11, <2>1, <3>1, <3>2, OthersKept
  <2>2. CASE t = s /\ where = "return"
    BY <1>1, <1>8, <2>2 DEF HandlerInv
  <2>3. CASE t = s /\ where = "ack"
    <3>1. step'[s] = "ack" /\ req'[s] = req[s] /\ req[s].id = n /\ req[s].addr = a
      BY <1>1, <1>8, <2>3 DEF n, a
    <3> QED
      BY <1>1, <1>4, <1>6, <1>7, <1>8, <2>3, <3>1 DEF HandlerInv
  <2> QED
    BY <2>1, <2>2, <2>3
<1>13. ASSUME NEW m \in Resps PROVE DocInv(m)'
  <2>1. CASE m = n
    <3>1. \A t \in d.owed : step'[t] # "new" /\ Owner[t] = d.to
      BY <1>1, <1>6, <1>8 DEF ChatInv, HandlerInv, ChatTypeOK, HubTypeOK
    <3> QED
      BY <1>2, <1>6, <1>7, <2>1, <3>1 DEF DocInv
  <2>2. CASE m # n
    <3>1. DocInv(m) /\ msgs'[m] = msgs[m]
      BY <1>7, <2>2 DEF ChatInv
    <3>2. \A t \in Sessions : step'[t] = "new" => step[t] = "new"
      BY <1>8
    <3> QED
      BY <1>1, <3>1, <3>2, DocTyped DEF DocInv
  <2> QED
    BY <2>1, <2>2
<1>14. ASSUME NEW t \in Sessions, NEW m \in Resps
       PROVE  AckedInOrder(t, m)' /\ PushedInOrder(t, m)' /\ OwedPending(m, t)'
  <2>1. msgs[m] # NoDoc => msgs'[m] = msgs[m]
    BY <1>2, <1>7
  <2>2. AckedInOrder(t, m)'
    BY <1>8, <1>11, <1>14, <2>1, AckedKept
  <2>3. \A g \in Sessions : Served(frame[g])' = Served(frame[g])
    BY DEF Served
  <2>4. PushedInOrder(t, m)'
    BY <1>1, <1>8, <1>11, <1>14, <2>1, <2>3, PushedKept
  <2>5. CASE m # n
    <3>1. \A g \in Sessions : Reaches(frame[g], m, t) => Reaches(frame[g], m, t)'
      BY <1>14, ReachesKept
    <3>2. \A g \in Sessions : step[g] = "push" => step'[g] = "push" /\ req'[g] = req[g]
      BY <1>8
    <3>3. msgs'[m] = msgs[m]
      BY <1>7, <2>5
    <3> QED
      BY <1>11, <1>14, <2>2, <2>4, <3>1, <3>2, <3>3, OwedKept
  <2>6. CASE m = n
    <3>1. ~Took(s, "ack", n)
      BY <1>2 DEF ChatInv, AckedInOrder
    <3>2. OwedPending(m, t)'
      BY <1>6, <1>7, <1>11, <2>6, <3>1 DEF OwedPending
    <3> QED
      BY <2>2, <2>4, <3>2
  <2> QED
    BY <2>2, <2>4, <2>5, <2>6
<1> QED
  BY <1>9, <1>10, <1>12, <1>13, <1>14 DEF ChatInv

\* A handler that gives up its request.
LEMMA ReturnStep ==
  ASSUME ChatInv, NEW s \in Sessions, step[s] \in {"save", "ack"}, Return(s),
         UNCHANGED <<hubVars, users, msgs, issued>>
  PROVE  ChatInv'
<1>1. HandlerInv(s) /\ frame[s].pc = "idle"
  BY DEF ChatInv, HandlerInv
<1>2. issued' \in 0 .. MaxMsgs /\ issued <= issued' /\ issued \in Nat
  BY ChatFacts DEF ChatInv, ChatTypeOK
<1>3. step'[s] = "return" /\ req'[s] = NoReq /\ req' = [req EXCEPT ![s] = NoReq]
  BY DEF ChatInv, ChatTypeOK, Goto, Return
<1>4. HandlerInv(s)'
  BY <1>1, <1>3 DEF HandlerInv, hubVars
<1> QED
  BY <1>1, <1>2, <1>3, <1>4, MoveStep DEF Steps, Return

LEMMA SaveMessageStep ==
  ASSUME ChatInv, NEW s \in Sessions, SaveMessage(s)
  PROVE  ChatInv'
<1>1. /\ step[s] = "save"
      /\ UNCHANGED <<streams, conns, stream, nextID, connID, open, alive, out, read,
                     frame, proc, users, issued>>
  BY DEF SaveMessage, At, hubVars
<1>2. CASE InsertMessage(s) /\ Goto(s, "ack") /\ UNCHANGED req
  <2>1. req' = [req EXCEPT ![s] = req[s]] /\ step' = [step EXCEPT ![s] = "ack"]
    BY <1>2 DEF ChatInv, ChatTypeOK, Goto
  <2> QED
    BY <1>1, <1>2, <2>1, InsertStep
<1>3. CASE InsertMessage(s) /\ Return(s)
  BY <1>1, <1>3, InsertStep DEF Return, Goto
<1>4. CASE UNCHANGED msgs /\ Return(s)
  BY <1>1, <1>4, ReturnStep DEF hubVars
<1> QED
  BY <1>2, <1>3, <1>4 DEF SaveMessage

LEMMA SendAckStep ==
  ASSUME ChatInv, NEW s \in Sessions, SendAck(s)
  PROVE  ChatInv'
<1> DEFINE n == req[s].id
<1>1. /\ step[s] = "ack" /\ req[s] # NoReq /\ n \in Resps
      /\ ChatTypeOK /\ HandlerInv(s) /\ frame[s].pc = "idle" /\ issued \in Nat
      /\ UNCHANGED <<streams, conns, stream, nextID, connID, open, frame, proc, users,
                     msgs, issued>>
  BY ReqTyped, ChatFacts
     DEF SendAck, At, registry, ChatInv, ChatTypeOK, HandlerInv
<1>2. CASE Accept(s, "ack", n) /\ Goto(s, "push") /\ UNCHANGED req
  <2>1. /\ step'[s] = "push" /\ \A t \in Sessions \ {s} : step'[t] = step[t]
        /\ UNCHANGED <<alive, read>>
    BY <1>1, <1>2 DEF ChatTypeOK, Goto, Accept
  <2>2. HubInv'
    BY <1>1, <1>2, AcceptStep DEF ChatInv, registry
  <2>3. ChatTypeOK'
    BY <1>1, <1>2, <2>2 DEF ChatTypeOK, HubInv, Goto, Steps
  <2>4. \A t \in Sessions, w \in {"ack", "hub"}, x \in Resps :
           Took(t, w, x)' <=> Took(t, w, x) \/ (t = s /\ w = "ack" /\ x = n)
    BY <1>1, <1>2, TookAfter DEF ChatTypeOK
  <2> HIDE DEF n
  <2>5. ASSUME NEW t \in Sessions PROVE HandlerInv(t)'
    <3>1. CASE t # s
      BY <1>1, <1>2, <2>1, <2>4, <3>1, OthersKept
    <3>2. CASE t = s
      BY <1>1, <1>2, <2>1, <2>4, <3>2 DEF HandlerInv, n
    <3> QED
      BY <3>1, <3>2
  <2>6. \A m \in Resps : DocInv(m)'
    BY <1>1, <2>1, DocsKept
  <2>7. ASSUME NEW t \in Sessions, NEW m \in Resps
        PROVE  AckedInOrder(t, m)' /\ PushedInOrder(t, m)' /\ OwedPending(m, t)'
    <3>1. AckedInOrder(t, m)'
      <4>1. CASE t = s /\ m = n
        BY <1>1, <2>1, <4>1 DEF AckedInOrder, HandlerInv, n
      <4>2. CASE ~(t = s /\ m = n)
        BY <1>1, <1>2, <2>1, <2>4, <2>7, <4>2, AckedKept
      <4> QED
        BY <4>1, <4>2
    <3>3. \A g \in Sessions : Served(frame[g])' = Served(frame[g])
      BY <1>1 DEF Served
    <3>4. PushedInOrder(t, m)'
      BY <1>1, <1>2, <2>4, <2>7, <3>3, PushedKept
    <3>5. CASE m = n
      <4>1. msgs[m].src = s /\ req'[s].id = m
        BY <1>1, <1>2, <3>5 DEF HandlerInv, n
      <4>2. OwedPending(m, t)'
        BY <1>1, <2>1, <4>1 DEF OwedPending
      <4> QED
        BY <3>1, <3>4, <4>2
    <3>6. CASE m # n
      <4>1. \A g \in Sessions : Reaches(frame[g], m, t) => Reaches(frame[g], m, t)'
        BY <1>1, <2>7, ReachesKept
      <4>2. \A g \in Sessions : step[g] = "push" => step'[g] = "push" /\ req'[g] = req[g]
        BY <1>2, <2>1
      <4>3. OwedPending(m, t)'
        BY <1>1, <2>1, <2>4, <2>7, <3>6, <4>1, <4>2, OwedKept
      <4> QED
        BY <3>1, <3>4, <4>3
    <3> QED
      BY <3>5, <3>6
  <2> QED
    BY <2>2, <2>3, <2>5, <2>6, <2>7 DEF ChatInv
<1>3. CASE Refuse(s) /\ Return(s)
  BY <1>1, <1>3, ReturnStep DEF Refuse, grpc, hubVars
<1> QED
  BY <1>2, <1>3 DEF SendAck
-------------------------------------------------------------------------------
(* SendToUser on behalf of a handler.                                        *)

\* The hub finds the map of an address that is in normalized form, if a stream
\* of the recipient is open and intact, and that stream's connection is in it.
LEMMA PushMessageStep ==
  ASSUME ChatInv, NEW s \in Sessions, PushMessage(s)
  PROVE  ChatInv'
<1> DEFINE n == req[s].id
           a == req[s].addr
           f == IF streams[a] = NoMap THEN Idle ELSE NewFrame(a, n, streams[a])
<1>1. /\ step[s] = "push" /\ req[s] # NoReq /\ n \in Resps /\ a \in Addrs
      /\ ChatTypeOK /\ HubInv /\ HandlerInv(s) /\ frame[s].pc = "idle" /\ issued \in Nat
      /\ SendToUserLookup(s, a, n)
      /\ step' = [step EXCEPT ![s] = "recv"] /\ req' = [req EXCEPT ![s] = NoReq]
      /\ UNCHANGED <<users, msgs, issued>>
  BY ReqTyped, ChatFacts
     DEF PushMessage, At, Goto, ChatInv, ChatTypeOK, HandlerInv
<1>2. /\ frame' = [frame EXCEPT ![s] = f]
      /\ UNCHANGED <<streams, conns, stream, nextID, connID, open, alive, out, read, proc>>
  BY <1>1 DEF SendToUserLookup, SetFrame, registry, grpc
<1>3. HubInv'
  BY <1>1, LookupStep
<1>4. /\ step'[s] = "recv" /\ req'[s] = NoReq /\ frame'[s] = f
      /\ \A t \in Sessions \ {s} :
           step'[t] = step[t] /\ req'[t] = req[t] /\ frame'[t] = frame[t]
  BY <1>1, <1>2 DEF ChatTypeOK, HubTypeOK
<1>5. f.pc # "idle" => f = NewFrame(a, n, streams[a]) /\ f.resp = n /\ f.addr = a
  BY DEF NewFrame, Idle
<1>6. streams[a] # NoMap => f.pc = "len" /\ f.resp = n /\ f.map = streams[a]
  BY DEF NewFrame
<1> HIDE DEF f, n, a
<1>7. ChatTypeOK'
  BY <1>1, <1>3 DEF ChatTypeOK, HubInv, Steps
<1>8. \A t, w, x : Took(t, w, x)' <=> Took(t, w, x)
  BY <1>2, TookKept
<1>9. ASSUME NEW t \in Sessions PROVE HandlerInv(t)'
  <2>1. CASE t # s
    BY <1>1, <1>2, <1>4, <1>8, <2>1, OthersKept
  <2>2. CASE t = s
    BY <1>1, <1>2, <1>4, <1>5, <1>8, <2>2 DEF HandlerInv, n, a
  <2> QED
    BY <2>1, <2>2
<1>10. \A m \in Resps : DocInv(m)'
  BY <1>1, <1>4, DocsKept
<1>11. ASSUME NEW t \in Sessions, NEW m \in Resps
       PROVE  AckedInOrder(t, m)' /\ PushedInOrder(t, m)' /\ OwedPending(m, t)'
  <2>1. AckedInOrder(t, m)'
    BY <1>1, <1>4, <1>8, <1>11, AckedKept
  <2>2. \A g \in Sessions : Served(frame[g])' = {stream[id] : id \in
           IF frame'[g].pc = "send" THEN frame'[g].seen \ {frame'[g].cur}
                                    ELSE frame'[g].seen}
    BY <1>2 DEF Served
  <2>3. \A g \in Sessions \ {s} : Served(frame[g])' = Served(frame[g])
    BY <1>4, <2>2 DEF Served
  <2>4. \A g \in Sessions : frame'[g].pc # "idle" =>
           \/ /\ frame[g].pc # "idle" /\ frame'[g].resp = frame[g].resp
              /\ t \in Served(frame[g]) => t \in Served(frame[g])'
           \/ req[g] # NoReq /\ req[g].id = frame'[g].resp
    BY <1>1, <1>4, <1>5, <2>3 DEF n
  <2>5. PushedInOrder(t, m)'
    BY <1>1, <1>4, <1>8, <1>11, <2>4, PushedKept
  <2>6. ASSUME t \in msgs[m].owed \cap open \cap alive, msgs[m] # NoDoc,
               msgs[m].addr \in Emails, msgs[m].src = s, m = n
        PROVE  Reaches(frame[s], m, t)'
    <3>1. msgs[m].addr = a /\ Owner[t] = a
      BY <1>1, <1>11, <2>6, ChatFacts DEF HandlerInv, n, a, ChatInv, DocInv
    <3>2. streams[a] # NoMap /\ connID[t] \in conns[streams[a]]
      BY <1>1, <2>6, <3>1 DEF HubInv, HealthyRegistered
    <3> QED
      BY <1>2, <1>4, <1>6, <2>6, <3>2 DEF Reaches
  <2>7. \A g \in Sessions \ {s} : Reaches(frame[g], m, t) => Reaches(frame[g], m, t)'
    BY <1>2, <1>4, <1>11, ReachesKept
  <2>8. OwedPending(m, t)'
    <3>1. \A g \in Sessions :
            /\ msgs[m] # NoDoc /\ msgs[m].src = g /\ msgs[m].addr \in Emails
            /\ t \in msgs[m].owed \cap open \cap alive
            /\ \/ step[g] = "push" /\ req[g].id = m
               \/ Reaches(frame[g], m, t)
            => \/ step'[g] = "push" /\ req'[g].id = m
               \/ Reaches(frame[g], m, t)'
      <4> TAKE g \in Sessions
      <4>1. CASE g # s
        BY <1>4, <2>7, <4>1
      <4>2. CASE g = s
        BY <1>1, <2>6, <4>2 DEF Reaches, n
      <4> QED
        BY <4>1, <4>2
    <3> QED
      BY <1>1, <1>2, <1>8, <1>11, <3>1, OwedKept
  <2> QED
    BY <2>1, <2>5, <2>8
<1> QED
  BY <1>3, <1>7, <1>9, <1>10, <1>11 DEF ChatInv

\* A step of an activation: it keeps its message, may give it to a stream, and
\* reaches on or is done with every intact stream of its recipient.
LEMMA ActivationStep ==
  ASSUME ChatInv, HubInv', NEW g \in Sessions, NEW f \in {Idle} \cup Frame,
         frame[g].pc # "idle",
         frame' = [frame EXCEPT ![g] = f],
         f.pc # "idle" => /\ f.resp = frame[g].resp /\ f.addr = frame[g].addr
                          /\ Served(frame[g]) \subseteq Served(f),
         UNCHANGED <<stream, nextID, connID, open, alive, users, msgs, step, req, issued>>,
         \A t \in Sessions, x \in Resps : Took(t, "ack", x)' <=> Took(t, "ack", x),
         \A t \in Sessions, x \in Resps : Took(t, "hub", x)' =>
           \/ Took(t, "hub", x)
           \/ x = frame[g].resp /\ f.pc # "idle" /\ t \in Served(f),
         \A t \in Sessions, x \in Resps : Took(t, "hub", x) => Took(t, "hub", x)',
         \A n \in Ids, t \in open \cap alive :
           connID[t] \in conns[n] => connID[t] \in conns'[n],
         \A t \in open \cap alive, x \in Resps : Reaches(frame[g], x, t) =>
           \/ Took(t, "hub", x)'
           \/ /\ f.pc # "idle" /\ f.map = frame[g].map
              /\ f.pc # "len" => connID[t] \in f.must
  PROVE  ChatInv'
<1>1. /\ ChatTypeOK /\ HandlerInv(g) /\ step[g] = "recv" /\ issued \in Nat
      /\ req[g] = NoReq
  BY ChatFacts DEF ChatInv, ChatTypeOK, HandlerInv
<1>2. /\ frame'[g] = f
      /\ \A t \in Sessions \ {g} : frame'[t] = frame[t]
  BY <1>1 DEF ChatTypeOK, HubTypeOK
<1>3. ChatTypeOK'
  BY <1>1 DEF ChatTypeOK, HubInv
<1>4. ASSUME NEW t \in Sessions PROVE HandlerInv(t)'
  <2>1. CASE t # g
    BY <1>1, <1>2, <2>1, OthersKept
  <2>2. CASE t = g
    <3>1. frame[g].resp \in Resps
      BY <1>1, RespTyped
    <3> QED
      BY <1>1, <1>2, <2>2, <3>1 DEF HandlerInv
  <2> QED
    BY <2>1, <2>2
<1>5. \A m \in Resps : DocInv(m)'
  BY <1>1, DocsKept
<1>6. \A h \in Sessions \ {g} : Served(frame[h])' = Served(frame[h])
  BY <1>2 DEF Served
<1>7. Served(frame[g])' = Served(f)
  BY <1>2 DEF Served
<1>8. ASSUME NEW t \in Sessions, NEW m \in Resps
      PROVE  AckedInOrder(t, m)' /\ PushedInOrder(t, m)' /\ OwedPending(m, t)'
  <2>1. AckedInOrder(t, m)'
    BY <1>1, <1>8, AckedKept
  <2>2. PushedInOrder(t, m)'
    <3>1. CASE Took(t, "hub", m)' <=> Took(t, "hub", m)
      BY <1>1, <1>2, <1>6, <1>7, <1>8, <3>1, PushedKept
    <3>2. CASE m = frame[g].resp /\ f.pc # "idle" /\ t \in Served(f)
      <4>1. msgs'[m] # NoDoc /\ msgs'[m].src = g /\ req'[g] = NoReq
        BY <1>1, <3>2 DEF HandlerInv
      <4> QED
        BY <1>2, <1>7, <3>2, <4>1 DEF PushedInOrder
    <3> QED
      BY <1>8, <3>1, <3>2
  <2>3. \A h \in Sessions, x \in Resps :
          t \in open \cap alive /\ Reaches(frame[h], x, t)
            => Got(t, x)' \/ Reaches(frame[h], x, t)'
    <3> TAKE h \in Sessions, x \in Resps
    <3> HAVE t \in open \cap alive /\ Reaches(frame[h], x, t)
    <3>1. frame[h].map \in Ids
      BY <1>1, RespTyped DEF Reaches
    <3>2. CASE h # g
      BY <1>2, <1>8, <3>1, <3>2, ReachesKept
    <3>3. CASE h = g
      <4>1. x = frame[g].resp /\ connID[t] \in conns[frame[g].map]
        BY <3>3 DEF Reaches
      <4>2. connID[t] \in conns'[frame[g].map]
        BY <3>1, <3>3, <4>1
      <4>3. CASE Took(t, "hub", x)'
        BY <4>3, GotIsTook
      <4>4. CASE f.pc # "idle" /\ f.map = frame[g].map
                 /\ (f.pc # "len" => connID[t] \in f.must)
        BY <1>2, <3>3, <4>1, <4>2, <4>4 DEF Reaches
      <4>5. \/ Took(t, "hub", x)'
            \/ /\ f.pc # "idle" /\ f.map = frame[g].map
               /\ f.pc # "len" => connID[t] \in f.must
        BY <1>8, <3>3
      <4> QED
        BY <4>3, <4>4, <4>5
    <3> QED
      BY <3>2, <3>3
  <2>4. OwedPending(m, t)'
    BY <1>8, <2>3, OwedKept
  <2> QED
    BY <2>1, <2>2, <2>4
<1> QED
  BY <1>3, <1>4, <1>5, <1>8 DEF ChatInv
\* What is not changed by a step of an activation that no stream takes anything in.
LEMMA QuietActivation ==
  ASSUME ChatInv, HubInv', NEW g \in Sessions, NEW f \in {Idle} \cup Frame,
         frame[g].pc # "idle",
         frame' = [frame EXCEPT ![g] = f],
         f.pc # "idle" => /\ f.resp = frame[g].resp /\ f.addr = frame[g].addr
                          /\ Served(frame[g]) \subseteq Served(f),
         UNCHANGED <<stream, nextID, connID, open, alive, out, users, msgs, step,
                     req, issued>>,
         \A n \in Ids, t \in open \cap alive :
           connID[t] \in conns[n] => connID[t] \in conns'[n],
         \A t \in open \cap alive, x \in Resps : Reaches(frame[g], x, t) =>
           \/ Took(t, "hub", x)
           \/ /\ f.pc # "idle" /\ f.map = frame[g].map
              /\ f.pc # "len" => connID[t] \in f.must
  PROVE  ChatInv'
<1>1. \A t, w, x : Took(t, w, x)' <=> Took(t, w, x)
  BY TookKept
<1>2. open \subseteq Sessions
  BY DEF ChatInv, HubInv, HubTypeOK
<1> QED
  BY <1>1, <1>2, ActivationStep

\* When nothing is left that the range has to reach, every intact stream of the
\* map that it had to reach has the message.
LEMMA AllReached ==
  ASSUME ChatInv, NEW g \in Sessions, frame[g].pc \in {"range", "purge"},
         frame[g].must \cap conns[frame[g].map] \subseteq frame[g].seen,
         NEW t \in open \cap alive, NEW x \in Resps, Reaches(frame[g], x, t)
  PROVE  Took(t, "hub", x)
<1> DEFINE id == connID[t]
<1>1. /\ HubInv /\ t \in Sessions /\ x = frame[g].resp
      /\ id \in frame[g].must /\ id \in conns[frame[g].map]
  BY DEF ChatInv, HubInv, HubTypeOK, Reaches
<1>2. id # 0 /\ stream[id] = t
  BY <1>1 DEF HubInv, IdsGivenOnce
<1>3. id \in frame[g].seen \cap conns[frame[g].map]
  BY <1>1
<1>4. FrameAccounted(frame[g])
  BY <1>1 DEF HubInv
<1>5. id \notin frame[g].failed
  BY <1>2, <1>4 DEF FrameAccounted
<1>6. Got(stream[id], frame[g].resp)
  BY <1>3, <1>4, <1>5 DEF FrameAccounted
<1> QED
  BY <1>1, <1>2, <1>6, GotIsTook

LEMMA SendToUserLenStep ==
  ASSUME ChatInv, NEW g \in Sessions, SendToUserLen(g),
         UNCHANGED <<users, msgs, step, req, issued>>
  PROVE  ChatInv'
<1> DEFINE old == frame[g]
           f == IF conns[old.map] = {} THEN Idle
                ELSE [old EXCEPT !.pc = "range", !.must = conns[old.map]]
<1>1. /\ ChatTypeOK /\ HubInv /\ old.pc = "len" /\ frame' = [frame EXCEPT ![g] = f]
      /\ UNCHANGED <<stream, nextID, connID, open, alive, out, conns>>
  BY DEF ChatInv, SendToUserLen, In, SetFrame, registry, grpc
<1>2. HubInv'
  BY <1>1, LenStep
<1>3. old \in Frame
  BY <1>1, RespTyped
<1>4. conns[old.map] \subseteq Ids
  BY <1>1, <1>3 DEF ChatTypeOK, HubTypeOK, Frame
<1>5. f \in {Idle} \cup Frame
  BY <1>3, <1>4 DEF Frame
<1>6. f.pc # "idle" => /\ f = [old EXCEPT !.pc = "range", !.must = conns[old.map]]
                       /\ f.pc = "range" /\ f.resp = old.resp /\ f.addr = old.addr
                       /\ f.map = old.map /\ f.seen = old.seen
                       /\ f.must = conns[old.map]
  BY <1>3 DEF Frame, Idle
<1>7. \A t, x : Reaches(old, x, t) => f.pc # "idle" /\ connID[t] \in conns[old.map]
  BY <1>3 DEF Reaches, Frame
<1> HIDE DEF f
<1>8. f.pc # "idle" => Served(old) \subseteq Served(f)
  BY <1>1, <1>6 DEF Served
<1> QED
  BY <1>1, <1>2, <1>5, <1>6, <1>7, <1>8, QuietActivation

LEMMA RangeNextStep ==
  ASSUME ChatInv, NEW g \in Sessions, RangeNext(g),
         UNCHANGED <<users, msgs, step, req, issued>>
  PROVE  ChatInv'
<1> DEFINE old == frame[g]
<1>1. /\ ChatTypeOK /\ HubInv /\ old.pc = "range"
      /\ UNCHANGED <<stream, nextID, connID, open, alive, out, conns>>
  BY DEF ChatInv, RangeNext, Yield, In, SetFrame, registry, grpc
<1>2. PICK id \in conns[old.map] \ old.seen :
        frame' = [frame EXCEPT ![g] =
          [old EXCEPT !.pc = "send", !.cur = id, !.seen = old.seen \cup {id}]]
  BY DEF RangeNext, Yield, SetFrame
<1> DEFINE f == [old EXCEPT !.pc = "send", !.cur = id, !.seen = old.seen \cup {id}]
<1>3. HubInv'
  BY <1>1, NextStep
<1>4. old \in Frame
  BY <1>1, RespTyped
<1>5. id \in Ids
  BY <1>1, <1>2, <1>4 DEF ChatTypeOK, HubTypeOK, Frame
<1>6. f \in Frame
  BY <1>4, <1>5 DEF Frame
<1>7. /\ f.pc = "send" /\ f.resp = old.resp /\ f.addr = old.addr
      /\ f.map = old.map /\ f.seen = old.seen \cup {id} /\ f.must = old.must
      /\ f.cur = id
  BY <1>4 DEF Frame
<1>8. frame' = [frame EXCEPT ![g] = f]
  BY <1>2
<1> HIDE DEF f
<1>9. Served(old) \subseteq Served(f)
  <2>1. old.seen \subseteq f.seen \ {f.cur}
    BY <1>2, <1>7
  <2> QED
    BY <1>1, <1>7, <2>1 DEF Served
<1>10. \A t, x : Reaches(old, x, t) => connID[t] \in f.must
  BY <1>1, <1>7 DEF Reaches
<1> QED
  BY <1>1, <1>3, <1>6, <1>7, <1>8, <1>9, <1>10, QuietActivation

LEMMA RangeSendStep ==
  ASSUME ChatInv, NEW g \in Sessions, RangeSend(g),
         UNCHANGED <<users, msgs, step, req, issued>>
  PROVE  ChatInv'
<1> DEFINE old == frame[g]
<1>1. /\ ChatTypeOK /\ HubInv /\ old.pc = "send" /\ FrameAccounted(old)
      /\ UNCHANGED <<stream, nextID, connID, open, alive, conns>>
  BY DEF ChatInv, HubInv, RangeSend, Sending, SendingFails, Accept, Refuse, In,
         SetFrame, registry, grpc
<1>2. HubInv'
  BY <1>1, SendStep
<1>3. old \in Frame /\ old.resp \in Resps
  BY <1>1, RespTyped
<1>4. old.cur \in old.seen /\ old.cur \in Ids /\ stream[old.cur] \in Sessions
  BY <1>1, <1>3 DEF FrameAccounted, Frame, HubInv, IdsGivenOnce
<1>5. CASE Sending(g)
  <2> DEFINE f == [old EXCEPT !.pc = "range", !.cur = 0]
  <2>1. f \in Frame
    BY <1>3 DEF Frame
  <2>2. /\ f.pc = "range" /\ f.resp = old.resp /\ f.addr = old.addr
        /\ f.map = old.map /\ f.seen = old.seen /\ f.must = old.must
    BY <1>3 DEF Frame
  <2>3. /\ frame' = [frame EXCEPT ![g] = f]
        /\ Accept(stream[old.cur], "hub", old.resp)
    BY <1>5 DEF Sending, SetFrame
  <2> HIDE DEF f
  <2>4. Served(old) \subseteq Served(f) /\ stream[old.cur] \in Served(f)
    BY <1>1, <1>4, <2>2 DEF Served
  <2>5. \A t \in Sessions, w \in {"ack", "hub"}, x \in Resps :
          Took(t, w, x)' <=> Took(t, w, x) \/ (t = stream[old.cur] /\ w = "hub" /\ x = old.resp)
    BY <1>1, <1>3, <1>4, <2>3, TookAfter DEF ChatTypeOK
  <2>6. \A t, x : Reaches(old, x, t) => connID[t] \in f.must
    BY <1>1, <2>2 DEF Reaches
  <2> QED
    BY <1>1, <1>2, <2>1, <2>2, <2>3, <2>4, <2>5, <2>6, ActivationStep
<1>6. CASE SendingFails(g)
  <2> DEFINE f == [old EXCEPT !.pc = "range", !.cur = 0,
                              !.failed = old.failed \cup {old.cur}]
  <2>1. f \in Frame
    BY <1>3, <1>4 DEF Frame
  <2>2. /\ f.pc = "range" /\ f.resp = old.resp /\ f.addr = old.addr
        /\ f.map = old.map /\ f.seen = old.seen /\ f.must = old.must
    BY <1>3 DEF Frame
  <2>3. frame' = [frame EXCEPT ![g] = f] /\ UNCHANGED out
    BY <1>6 DEF SendingFails, SetFrame, Refuse, grpc
  <2> HIDE DEF f
  <2>4. Served(old) \subseteq Served(f)
    BY <1>1, <2>2 DEF Served
  <2>5. \A t, x : Reaches(old, x, t) => connID[t] \in f.must
    BY <1>1, <2>2 DEF Reaches
  <2> QED
    BY <1>1, <1>2, <2>1, <2>2, <2>3, <2>4, <2>5, QuietActivation
<1> QED
  BY <1>5, <1>6 DEF RangeSend

LEMMA RangeEndStep ==
  ASSUME ChatInv, NEW g \in Sessions, RangeEnd(g),
         UNCHANGED <<users, msgs, step, req, issued>>
  PROVE  ChatInv'
<1> DEFINE old == frame[g]
           f == IF old.failed = {} THEN Idle ELSE [old EXCEPT !.pc = "purge"]
<1>1. /\ ChatTypeOK /\ HubInv /\ old.pc = "range" /\ frame' = [frame EXCEPT ![g] = f]
      /\ old.must \cap conns[old.map] \subseteq old.seen
      /\ UNCHANGED <<stream, nextID, connID, open, alive, out, conns>>
  BY DEF ChatInv, RangeEnd, In, SetFrame, registry, grpc
<1>2. HubInv'
  BY <1>1, EndStep
<1>3. old \in Frame
  BY <1>1, RespTyped
<1>4. f \in {Idle} \cup Frame
  BY <1>3 DEF Frame
<1>5. f.pc # "idle" => /\ f.pc = "purge" /\ f.resp = old.resp /\ f.addr = old.addr
                       /\ f.map = old.map /\ f.seen = old.seen /\ f.must = old.must
  BY <1>3 DEF Frame, Idle
<1> HIDE DEF f
<1>6. f.pc # "idle" => Served(old) \subseteq Served(f)
  BY <1>1, <1>5 DEF Served
<1>7. \A t \in open \cap alive, x \in Resps : Reaches(old, x, t) => Took(t, "hub", x)
  BY <1>1, AllReached
<1> QED
  BY <1>1, <1>2, <1>4, <1>5, <1>6, <1>7, QuietActivation

LEMMA UnregisterFailedKeeps ==
  ASSUME ChatInv, NEW g \in Sessions, UnregisterFailed(g),
         UNCHANGED <<users, msgs, step, req, issued>>
  PROVE  ChatInv'
<1> DEFINE old == frame[g]
<1>1. /\ ChatTypeOK /\ HubInv /\ old.pc = "purge" /\ FrameAccounted(old)
      /\ UNCHANGED <<stream, nextID, connID, open, alive, out>>
  BY DEF ChatInv, HubInv, UnregisterFailed, In, grpc
<1>2. PICK id \in old.failed :
        /\ Unregister(old.addr, id)
        /\ frame' = [frame EXCEPT ![g] =
             IF old.failed = {id} THEN Idle
             ELSE [old EXCEPT !.failed = old.failed \ {id}]]
  BY DEF UnregisterFailed
<1> DEFINE f == IF old.failed = {id} THEN Idle
                ELSE [old EXCEPT !.failed = old.failed \ {id}]
<1>3. HubInv'
  BY <1>1, UnregisterFailedStep
<1>4. old \in Frame /\ old.addr \in Addrs
  BY <1>1, RespTyped
<1>5. f \in {Idle} \cup Frame
  BY <1>4 DEF Frame
<1>6. f.pc # "idle" => /\ f.pc = "purge" /\ f.resp = old.resp /\ f.addr = old.addr
                       /\ f.map = old.map /\ f.seen = old.seen /\ f.must = old.must
  BY <1>1, <1>4 DEF Frame, Idle
<1>7. frame' = [frame EXCEPT ![g] = f]
  BY <1>2
<1> HIDE DEF f
<1>8. f.pc # "idle" => Served(old) \subseteq Served(f)
  BY <1>1, <1>6 DEF Served
<1>9. old.must \cap conns[old.map] \subseteq old.seen
  BY <1>1 DEF FrameAccounted
<1>10. \A t \in open \cap alive, x \in Resps : Reaches(old, x, t) => Took(t, "hub", x)
  BY <1>1, <1>9, AllReached
<1>11. ASSUME NEW n \in Ids, NEW t \in open \cap alive, connID[t] \in conns[n]
       PROVE  connID[t] \in conns'[n]
  <2>1. stream[id] \notin alive
    BY <1>1, <1>2 DEF FrameAccounted
  <2>2. t \in Sessions /\ connID[t] # 0 /\ stream[connID[t]] = t
    BY <1>1 DEF HubInv, HubTypeOK, IdsGivenOnce
  <2>3. connID[t] # id
    BY <2>1, <2>2
  <2>4. \/ UNCHANGED conns
        \/ conns' = [conns EXCEPT ![streams[old.addr]] = @ \ {id}]
    BY <1>2 DEF Unregister, RemoveConnection
  <2>5. conns \in [Ids -> SUBSET Ids]
    BY <1>1 DEF ChatTypeOK, HubTypeOK
  <2> QED
    BY <1>11, <2>3, <2>4, <2>5
<1> QED
  BY <1>1, <1>3, <1>5, <1>6, <1>7, <1>8, <1>10, <1>11, QuietActivation

LEMMA SendToUserKeeps ==
  ASSUME ChatInv, NEW g \in Sessions, SendToUserStep(g),
         UNCHANGED <<users, msgs, step, req, issued>>
  PROVE  ChatInv'
BY SendToUserLenStep, RangeNextStep, RangeSendStep, RangeEndStep,
   UnregisterFailedKeeps DEF SendToUserStep
-------------------------------------------------------------------------------
(* The environment.                                                          *)

LEMMA CreateUserStep ==
  ASSUME ChatInv, NEW e \in Emails, CreateUser(e)
  PROVE  ChatInv'
<1>1. /\ UNCHANGED <<streams, conns, stream, nextID, connID, open, alive, out, read,
                     frame, proc, msgs, step, req, issued>>
      /\ users' \subseteq Emails
  BY DEF CreateUser, hubVars, registry, grpc, ChatInv, ChatTypeOK
<1>2. HubInv'
  BY <1>1, StreamChangeStep DEF ChatInv, HubInv, HubTypeOK, registry
<1> QED
  BY <1>1, <1>2, OutsideStep

LEMMA StreamKeeps ==
  ASSUME ChatInv, NEW s \in Sessions, StreamStep(s)
  PROVE  ChatInv'
<1>1. /\ UNCHANGED <<streams, conns, stream, nextID, connID, open, out, frame, proc,
                     users, msgs, step, req, issued>>
      /\ alive' \subseteq alive
  BY DEF StreamStep, ClientRead, Break, EndRPC, registry
<1>2. read' \in [Sessions -> Nat]
  <2>1. out[s] \in Seq(Sent) /\ read \in [Sessions -> Nat]
    BY DEF ChatInv, HubInv, HubTypeOK
  <2>2. Len(out[s]) \in Nat
    BY <2>1
  <2> QED
    BY <2>1, <2>2 DEF StreamStep, ClientRead, Break, EndRPC
<1>3. HubInv'
  BY <1>1, <1>2, StreamChangeStep DEF ChatInv, registry
<1>4. users' \subseteq Emails
  BY <1>1 DEF ChatInv, ChatTypeOK
<1> QED
  BY <1>1, <1>3, <1>4, OutsideStep

LEMMA KillStep ==
  ASSUME ChatInv, Kill
  PROVE  ChatInv'
<1>1. /\ UNCHANGED <<streams, conns, stream, nextID, connID, open, alive, out, read,
                     frame, users, msgs, step, req, issued>>
      /\ proc' = "killed"
  BY DEF Kill, registry, grpc
<1>2. HubTypeOK'
  BY <1>1 DEF ChatInv, HubInv, HubTypeOK
<1>3. IdsGivenOnce' /\ MapsOfOneUser' /\ HealthyRegistered'
  BY <1>1 DEF ChatInv, HubInv, IdsGivenOnce, MapsOfOneUser, HealthyRegistered
<1>4. \A g \in Sessions : FrameAccounted(frame[g])'
  BY <1>1 DEF ChatInv, HubInv, FrameAccounted, Got
<1>5. HubInv' /\ users' \subseteq Emails /\ alive' \subseteq alive
  BY <1>1, <1>2, <1>3, <1>4 DEF HubInv, ChatInv, ChatTypeOK
<1> QED
  BY <1>1, <1>5, OutsideStep

\* The hub of a new process is empty; what the streams of the old one took stays
\* in the order of the documents.
LEMMA RestartStep ==
  ASSUME ChatInv, Restart
  PROVE  ChatInv'
<1> DEFINE over == {s \in Sessions : step[s] # "new"}
<1>1. /\ proc' = "running"
      /\ streams' = [a \in Addrs |-> NoMap]
      /\ conns' = [m \in Ids |-> {}]
      /\ stream' = [id \in Ids |-> NoSession]
      /\ nextID' = 0
      /\ connID' = [s \in Sessions |-> 0]
      /\ open' = {}
      /\ alive' = alive \ over
      /\ frame' = [g \in Sessions |-> Idle]
      /\ step' = [s \in Sessions |-> IF s \in over THEN "ended" ELSE "new"]
      /\ req' = [s \in Sessions |-> NoReq]
      /\ UNCHANGED <<out, read, users, msgs, issued>>
  BY DEF Restart
<1> HIDE DEF over
<1>2. HubInv'
  <2>1. HubTypeOK'
    BY <1>1, IdFacts, HubAssumption DEF HubTypeOK, ChatInv, HubInv
  <2>2. IdsGivenOnce'
    BY <1>1, IdFacts DEF IdsGivenOnce
  <2>3. MapsOfOneUser' /\ HealthyRegistered'
    BY <1>1 DEF MapsOfOneUser, HealthyRegistered
  <2>4. \A g \in Sessions : FrameAccounted(frame[g])'
    BY <1>1 DEF FrameAccounted, Idle
  <2> QED
    BY <2>1, <2>2, <2>3, <2>4 DEF HubInv
<1>3. ChatTypeOK'
  BY <1>1, <1>2 DEF ChatTypeOK, ChatInv, HubInv, Steps
<1>4. ASSUME NEW s \in Sessions
      PROVE  HandlerInv(s)'
  BY <1>1 DEF HandlerInv, Idle
<1>5. \A t, w, x : Took(t, w, x)' <=> Took(t, w, x)
  BY <1>1, TookKept
<1>6. ASSUME NEW m \in Resps PROVE DocInv(m)'
  <2>1. DocInv(m) /\ ChatTypeOK
    BY DEF ChatInv
  <2>2. \A t \in Sessions : step[t] # "new" => step'[t] # "new"
    BY <1>1 DEF over
  <2>3. msgs[m] # NoDoc => msgs[m].owed \subseteq Sessions
    BY <2>1, DocTyped
  <2> QED
    BY <1>1, <2>1, <2>2, <2>3 DEF DocInv
<1>7. ASSUME NEW s \in Sessions, NEW m \in Resps
      PROVE  AckedInOrder(s, m)' /\ PushedInOrder(s, m)' /\ OwedPending(m, s)'
  <2>1. AckedInOrder(s, m) /\ PushedInOrder(s, m) /\ ChatTypeOK
    BY DEF ChatInv
  <2>2. AckedInOrder(s, m)'
    BY <1>1, <1>5, <2>1 DEF AckedInOrder
  <2>3. PushedInOrder(s, m)'
    <3>1. Got(s, m)' => Got(s, m)
      BY <1>1 DEF Got
    <3>2. msgs[m] # NoDoc => msgs[m].src \in Sessions
      BY <2>1, DocTyped
    <3> QED
      BY <1>1, <2>1, <3>1, <3>2 DEF PushedInOrder, Idle
  <2>4. OwedPending(m, s)'
    BY <1>1 DEF OwedPending
  <2> QED
    BY <2>2, <2>3, <2>4
<1> QED
  BY <1>2, <1>3, <1>4, <1>6, <1>7 DEF ChatInv

LEMMA ChatInvInit == ChatInit => ChatInv
<1> SUFFICES ASSUME ChatInit PROVE ChatInv
  OBVIOUS
<1>1. HubInv
  BY HubInvInit DEF ChatInit
<1>2. ChatTypeOK
  BY <1>1, ChatFacts DEF ChatInit, ChatTypeOK, HubInv, Steps
<1>3. \A s \in Sessions : HandlerInv(s)
  BY DEF ChatInit, HubInit, HandlerInv, Idle
<1>4. \A s \in Sessions, m \in Resps, w \in {"ack", "hub"} : ~Took(s, w, m)
  BY DEF ChatInit, HubInit, Took
<1>5. \A s \in Sessions, m \in Resps : ~Got(s, m)
  BY <1>4, GotIsTook
<1>6. \A m \in Resps : DocInv(m)
  BY DEF ChatInit, DocInv
<1>7. \A s \in Sessions, m \in Resps :
        AckedInOrder(s, m) /\ PushedInOrder(s, m) /\ OwedPending(m, s)
  BY <1>4, <1>5 DEF AckedInOrder, PushedInOrder, OwedPending, ChatInit
<1> QED
  BY <1>1, <1>2, <1>3, <1>6, <1>7 DEF ChatInv

\* Every step of a handler keeps the invariant.
LEMMA HandlerKeeps ==
  ASSUME ChatInv, NEW s \in Sessions, HandlerStep(s)
  PROVE  ChatInv'
BY VerifyRecipientStep, SaveMessageStep, SendAckStep, PushMessageStep,
   CloseStreamStep, SendToUserKeeps DEF HandlerStep

LEMMA StutterKeeps ==
  ASSUME ChatInv, UNCHANGED chatVars
  PROVE  ChatInv'
<1>1. UNCHANGED <<streams, conns, stream, nextID, connID, open, alive, out, read,
                  frame, proc, users, msgs, step, req, issued>>
  BY DEF chatVars, hubVars
<1>2. HubInv' /\ users' \subseteq Emails
  BY <1>1, StreamChangeStep DEF ChatInv, ChatTypeOK, HubInv, HubTypeOK, registry
<1> QED
  BY <1>1, <1>2, OutsideStep

LEMMA ChatInvNext ==
  ChatInv /\ [ChatNext \/ Kill \/ Restart]_chatVars => ChatInv'
<1> SUFFICES ASSUME ChatInv, [ChatNext \/ Kill \/ Restart]_chatVars PROVE ChatInv'
  OBVIOUS
<1>1. ASSUME ChatNext PROVE ChatInv'
  <2>1. ASSUME NEW s \in Sessions,
               \/ OpenStream(s)
               \/ \E a \in Addrs : RecvRequest(s, a)
               \/ RecvEnd(s)
               \/ HandlerStep(s)
               \/ StreamStep(s)
        PROVE  ChatInv'
    BY <2>1, OpenStreamStep, RecvRequestStep, RecvEndStep, HandlerKeeps, StreamKeeps
  <2> QED
    BY <1>1, <2>1, CreateUserStep DEF ChatNext
<1> QED
  BY <1>1, KillStep, RestartStep, StutterKeeps

-------------------------------------------------------------------------------
(* The theorems.                                                             *)

\* The inductive invariant of the streams, the hub and the two collections,
\* whatever handlers do at the same time, and across kills and restarts.
THEOREM ChatInvariant == ChatCrashSpec => []ChatInv
BY ChatInvInit, ChatInvNext, PTL DEF ChatCrashSpec

\* Type correctness: stored documents have normalized addresses.
THEOREM ChatTypeCorrect == ChatCrashSpec => []ChatTypeOK
<1>1. ChatInv => ChatTypeOK
  BY DEF ChatInv
<1> QED
  BY <1>1, ChatInvariant, PTL

\* What an acknowledged message owes is on its way or there.
LEMMA OwedIsKept == ChatInv => NoMissedPush
<1> SUFFICES ASSUME ChatInv, NEW m \in Resps, Acked(m), msgs[m].addr \in Emails,
                    NEW t \in Missed(m)
             PROVE  PushPending(m)
  BY DEF NoMissedPush
<1>1. ChatTypeOK /\ msgs[m] # NoDoc /\ Took(msgs[m].src, "ack", m)
  BY DEF ChatInv, Acked
<1>2. t \in msgs[m].owed \cap open \cap alive /\ ~Got(t, m)
  BY DEF Missed
<1>3. t \in Sessions /\ OwedPending(m, t)
  BY <1>1, <1>2, DocTyped DEF ChatInv
<1> QED
  BY <1>1, <1>2, <1>3 DEF OwedPending, PushPending, Reaches

\* No stream that was open and stays intact misses an acknowledged message,
\* however its push meets registrations, failures, clean-up and crashes.
THEOREM NothingIsMissed == ChatCrashSpec => []NoMissedPush
BY OwedIsKept, ChatInvariant, PTL
-------------------------------------------------------------------------------
(* The handlers, the hub and the collections implement Mailbox.              *)

LEMMA SameTook ==
  ASSUME NEW t, NEW w, NEW x
  PROVE  M!Took(t, w, x) <=> Took(t, w, x)
BY DEF Took, M!Took, M!Position

\* The insert of SaveMessage writes a document that was not there.
LEMMA InsertSaves ==
  ASSUME ChatInv, NEW s \in Sessions, SaveMessage(s)
  PROVE  [M!MailNext]_(M!mailVars)
<1> DEFINE n == req[s].id
           a == req[s].addr
           d == [src |-> s, addr |-> a, from |-> Email[Owner[s]], to |-> Email[a],
                 owed |-> {t \in open : Owner[t] = Email[a]}]
<1>1. /\ ChatTypeOK /\ step[s] = "save" /\ HandlerInv(s) /\ UNCHANGED out
  BY DEF ChatInv, SaveMessage, At, hubVars, grpc
<1>2. req[s] # NoReq /\ n \in Resps /\ a \in Addrs /\ msgs[n] = NoDoc
  BY <1>1, ReqTyped DEF HandlerInv
<1>3. CASE UNCHANGED msgs
  BY <1>1, <1>3 DEF M!mailVars
<1>4. CASE InsertMessage(s)
  <2>1. msgs' = [msgs EXCEPT ![n] = d] /\ msgs \in [Resps -> Doc \cup {NoDoc}]
    BY <1>1, <1>4 DEF InsertMessage, ChatTypeOK
  <2>2. d \in Doc
    BY <1>1, <1>2, ChatFacts DEF Doc, ChatTypeOK, HubTypeOK
  <2> HIDE DEF d
  <2>3. d # NoDoc
    BY <2>2, ChatFacts
  <2>4. M!Save(n)
    BY <1>1, <1>2, <2>1, <2>3 DEF M!Save
  <2> QED
    BY <1>2, <2>4 DEF M!MailNext
<1> QED
  BY <1>3, <1>4 DEF SaveMessage

\* The acknowledgement of a stored message follows those of earlier ones.
LEMMA AckIsInOrder ==
  ASSUME ChatInv, NEW s \in Sessions, SendAck(s)
  PROVE  [M!MailNext]_(M!mailVars)
<1> DEFINE n == req[s].id
<1>1. /\ ChatTypeOK /\ step[s] = "ack" /\ HandlerInv(s) /\ UNCHANGED msgs
  BY DEF ChatInv, SendAck, At
<1>2. /\ req[s] # NoReq /\ n \in Resps /\ msgs[n] # NoDoc /\ msgs[n].src = s
  BY <1>1, ReqTyped DEF HandlerInv
<1>3. CASE Refuse(s)
  BY <1>1, <1>3 DEF M!mailVars, Refuse, grpc
<1>4. CASE Accept(s, "ack", n)
  <2>1. \A x \in Resps : M!Took(s, "ack", x) => x < n
    BY <1>1, SameTook DEF ChatInv, AckedInOrder
  <2>2. M!Deliver(s, "ack", n)
    BY <1>4 DEF Accept, M!Deliver
  <2>3. M!Ack(s, n)
    BY <1>1, <1>2, <2>1, <2>2 DEF M!Ack
  <2> QED
    BY <1>2, <2>3 DEF M!MailNext
<1> QED
  BY <1>3, <1>4 DEF SendAck

\* A Send of the hub gives an acknowledged message to a stream of its recipient
\* that has neither it nor a later one of the same sender.
LEMMA PushIsInOrder ==
  ASSUME ChatInv, NEW g \in Sessions, RangeSend(g), UNCHANGED msgs
  PROVE  [M!MailNext]_(M!mailVars)
<1> DEFINE old == frame[g]
           r == frame[g].resp
           t == stream[frame[g].cur]
<1>1. /\ ChatTypeOK /\ HubInv /\ old.pc = "send" /\ FrameAccounted(old)
      /\ HandlerInv(g)
  BY DEF ChatInv, HubInv, RangeSend, In
<1>2. old \in Frame /\ r \in Resps
  BY <1>1, RespTyped
<1>3. /\ old.cur \in old.seen /\ old.cur \in Ids /\ t \in Sessions
      /\ old.seen \subseteq Ids /\ \A id \in old.seen : id <= nextID
      /\ Owner[t] = old.addr
  BY <1>1, <1>2 DEF FrameAccounted, Frame, HubInv, IdsGivenOnce
<1>4. CASE SendingFails(g)
  BY <1>4 DEF SendingFails, Refuse, M!mailVars, grpc
<1>5. CASE Sending(g)
  <2>1. /\ msgs[r] # NoDoc /\ msgs[r].src = g /\ msgs[r].addr = old.addr
        /\ Took(g, "ack", r)
    BY <1>1 DEF HandlerInv
  <2>2. msgs[r].to = Owner[t]
    <3>1. DocInv(r)
      BY <1>2 DEF ChatInv
    <3>2. Owner[t] \in Emails
      BY <1>3, ChatFacts
    <3> QED
      BY <1>3, <2>1, <3>1, <3>2, ChatFacts DEF DocInv
  <2>3. t \notin Served(old)
    <3> SUFFICES ASSUME NEW id \in old.seen, id # old.cur, stream[id] = t
                 PROVE  FALSE
      BY <1>1 DEF Served
    <3>1. connID[stream[id]] = id /\ connID[stream[old.cur]] = old.cur
      BY <1>1, <1>3 DEF HubInv, IdsGivenOnce
    <3> QED
      BY <3>1
  <2>4. ASSUME NEW x \in Resps, M!Took(t, "hub", x), msgs[x].src = msgs[r].src
        PROVE  x < r
    <3>1. PushedInOrder(t, x) /\ Got(t, x)
      BY <1>3, <2>4, SameTook, GotIsTook DEF ChatInv
    <3> QED
      BY <1>1, <2>1, <2>3, <2>4, <3>1 DEF PushedInOrder
  <2>5. M!Deliver(t, "hub", r)
    BY <1>5 DEF Sending, Accept, M!Deliver
  <2>6. M!Push(t, r)
    BY <2>1, <2>2, <2>4, <2>5, SameTook DEF M!Push
  <2> QED
    BY <1>2, <1>3, <2>6 DEF M!MailNext
<1> QED
  BY <1>4, <1>5 DEF RangeSend

LEMMA MailStep ==
  ChatInv /\ [ChatNext \/ Kill \/ Restart]_chatVars => [M!MailNext]_(M!mailVars)
<1> SUFFICES ASSUME ChatInv, [ChatNext \/ Kill \/ Restart]_chatVars
             PROVE  [M!MailNext]_(M!mailVars)
  OBVIOUS
<1>1. CASE UNCHANGED <<msgs, out>>
  BY <1>1 DEF M!mailVars
<1>2. CASE \E s \in Sessions :
             \/ SaveMessage(s)
             \/ SendAck(s)
             \/ RangeSend(s) /\ UNCHANGED msgs
  BY <1>2, InsertSaves, AckIsInOrder, PushIsInOrder
<1>3. \/ UNCHANGED <<msgs, out>>
      \/ \E s \in Sessions :
           \/ SaveMessage(s)
           \/ SendAck(s)
           \/ RangeSend(s) /\ UNCHANGED msgs
  <2>1. CASE UNCHANGED chatVars
    BY <2>1 DEF chatVars, hubVars, grpc
  <2>2. CASE Kill \/ Restart
    BY <2>2 DEF Kill, Restart, grpc
  <2>3. ASSUME NEW e \in Emails, CreateUser(e) PROVE UNCHANGED <<msgs, out>>
    BY <2>3 DEF CreateUser, hubVars, grpc
  <2>4. ASSUME NEW s \in Sessions,
               \/ OpenStream(s)
               \/ \E a \in Addrs : RecvRequest(s, a)
               \/ RecvEnd(s)
               \/ StreamStep(s)
        PROVE  UNCHANGED <<msgs, out>>
    BY <2>4 DEF OpenStream, RecvRequest, RecvEnd, StreamStep, ClientRead, Break,
                EndRPC, hubVars, grpc
  <2>5. ASSUME NEW s \in Sessions, HandlerStep(s)
        PROVE  \/ UNCHANGED <<msgs, out>>
               \/ SaveMessage(s)
               \/ SendAck(s)
               \/ RangeSend(s) /\ UNCHANGED msgs
    BY <2>5 DEF HandlerStep, VerifyRecipient, PushMessage, SendToUserLookup,
                CloseStream, SendToUserStep, SendToUserLen, RangeNext, RangeEnd,
                UnregisterFailed, hubVars, grpc
  <2> QED
    BY <2>1, <2>2, <2>3, <2>4, <2>5 DEF ChatNext
<1> QED
  BY <1>1, <1>2, <1>3

\* Every session sees its messages as the contract says: stored, acknowledged,
\* pushed, in its sender's order, once, to the recipient only, across crashes.
THEOREM StreamsAreMailboxes == ChatCrashSpec => MailboxSpec
<1>1. ChatInit => M!MailInit
  BY DEF ChatInit, HubInit, M!MailInit
<1> QED
  BY <1>1, MailStep, ChatInvariant, PTL
     DEF ChatCrashSpec, MailboxSpec, M!MailSpec

-------------------------------------------------------------------------------
(* What the contract gives a client: order on its own stream.                *)

\* What a stream has taken is of the right type, and of stored messages.
LEMMA TakenIsStored ==
  ASSUME ChatInv, NEW s \in Sessions, NEW i \in 1 .. Len(out[s])
  PROVE  /\ out[s][i].resp \in Resps
         /\ out[s][i].via \in {"ack", "hub"}
         /\ out[s][i] = [via |-> out[s][i].via, resp |-> out[s][i].resp]
         /\ msgs[out[s][i].resp] # NoDoc
<1>1. out[s] \in Seq(Sent)
  BY DEF ChatInv, HubInv, HubTypeOK
<1>2. PICK e \in Sent : e = out[s][i]
  BY <1>1
<1>3. /\ e.resp \in Resps /\ e.via \in {"ack", "hub"}
      /\ e = [via |-> e.via, resp |-> e.resp]
  BY DEF Sent
<1>4. Took(s, e.via, e.resp)
  BY <1>2, <1>3 DEF Took
<1>5. AckedInOrder(s, e.resp) /\ PushedInOrder(s, e.resp)
  BY <1>3 DEF ChatInv
<1>6. msgs[e.resp] # NoDoc
  BY <1>3, <1>4, <1>5, GotIsTook DEF AckedInOrder, PushedInOrder
<1> QED
  BY <1>2, <1>3, <1>6

\* The sender of a message that was pushed has its acknowledgement.
PushedWereAcked ==
  \A s \in Sessions, m \in Resps : Got(s, m) => Took(msgs[m].src, "ack", m)

\* A new document is of a message that no stream has taken.
LEMMA SaveKeepsOrder ==
  ASSUME ChatInv, InOrder, PushedWereAcked, NEW m \in Resps, M!Save(m)
  PROVE  InOrder' /\ PushedWereAcked'
<1>1. /\ out' = out /\ msgs[m] = NoDoc
      /\ \A n \in Resps \ {m} : msgs'[n] = msgs[n]
  BY DEF M!Save
<1>2. \A s \in Sessions : \A i \in 1 .. Len(out[s]) :
        msgs'[out[s][i].resp] = msgs[out[s][i].resp]
  BY <1>1, TakenIsStored
<1>3. InOrder'
  BY <1>1, <1>2 DEF InOrder
<1>4. ASSUME NEW s \in Sessions, NEW n \in Resps, Got(s, n)'
      PROVE  Took(msgs[n].src, "ack", n)'
  <2>1. Got(s, n)
    BY <1>1, <1>4 DEF Got
  <2>2. PushedInOrder(s, n)
    BY DEF ChatInv
  <2>3. msgs'[n] = msgs[n] /\ Took(msgs[n].src, "ack", n)
    BY <1>1, <2>1, <2>2 DEF PushedInOrder, PushedWereAcked
  <2> QED
    BY <1>1, <2>3 DEF Took
<1> QED
  BY <1>3, <1>4 DEF PushedWereAcked

\* What a stream takes follows what it has taken of the same kind.
LEMMA DeliverKeepsOrder ==
  ASSUME ChatInv, InOrder, NEW s \in Sessions, NEW via \in {"ack", "hub"},
         NEW m \in Resps, M!Deliver(s, via, m), UNCHANGED msgs,
         via = "ack" => ~Got(s, m),
         \A n \in Resps :
           M!Took(s, via, n) /\ (via = "hub" => msgs[n].src = msgs[m].src) => n < m
  PROVE  InOrder'
<1> DEFINE e == [via |-> via, resp |-> m]
<1>1. /\ out \in [Sessions -> Seq(Sent)] /\ e \in Sent
      /\ out' = [out EXCEPT ![s] = Append(out[s], e)]
  BY DEF ChatInv, HubInv, HubTypeOK, M!Deliver, Sent
<1>2. /\ Len(out[s]) \in Nat /\ Len(out'[s]) = Len(out[s]) + 1
      /\ \A i \in 1 .. Len(out[s]) : out'[s][i] = out[s][i]
      /\ out'[s][Len(out[s]) + 1] = e
  BY <1>1
<1> SUFFICES ASSUME NEW t \in Sessions,
                    NEW i \in 1 .. Len(out'[t]), NEW j \in 1 .. Len(out'[t])
             PROVE  LET x == out'[t][i]
                        y == out'[t][j]
                    IN  /\ i < j /\ x.via = y.via
                           /\ (x.via = "hub" => msgs'[x.resp].src = msgs'[y.resp].src)
                             => x.resp < y.resp
                        /\ x = [via |-> "hub", resp |-> y.resp] /\ y.via = "ack" => j < i
  BY DEF InOrder
<1>3. CASE t # s
  BY <1>1, <1>3 DEF InOrder
<1>4. CASE t = s
  <2>1. CASE i \in 1 .. Len(out[s]) /\ j \in 1 .. Len(out[s])
    <3>1. out'[t][i] = out[s][i] /\ out'[t][j] = out[s][j]
      BY <1>2, <1>4, <2>1
    <3> HIDE DEF e
    <3> QED
      BY <2>1, <3>1 DEF InOrder
  <2>2. CASE i = Len(out[s]) + 1
    <3>1. j \in 1 .. i /\ ~(i < j)
      BY <1>2, <1>4, <2>2
    <3>2. out'[t][i] = e
      BY <1>2, <1>4, <2>2
    <3>3. ASSUME out'[t][i] = [via |-> "hub", resp |-> out'[t][j].resp],
                 out'[t][j].via = "ack"
          PROVE  j < i
      <4>1. out'[t][i].via = "hub"
        BY <3>3
      <4>2. j # i
        BY <3>3, <4>1
      <4> QED
        BY <1>2, <1>4, <2>2, <3>1, <4>2
    <3> QED
      BY <3>1, <3>3
  <2>3. CASE i \in 1 .. Len(out[s]) /\ j = Len(out[s]) + 1
    <3>1. out'[t][i] = out[s][i] /\ out'[t][j] = e
      BY <1>2, <1>4, <2>3
    <3>2. PICK x : x = out[s][i]
      OBVIOUS
    <3>0. x = [via |-> x.via, resp |-> x.resp] /\ x.resp \in Resps
      BY <2>3, <3>2, TakenIsStored
    <3>3. M!Took(s, x.via, x.resp)
      BY <2>3, <3>0, <3>2 DEF M!Took, M!Position
    <3>4. x.via = via /\ (via = "hub" => msgs[x.resp].src = msgs[m].src) => x.resp < m
      BY <3>0, <3>3
    <3>5. ~(x = [via |-> "hub", resp |-> m] /\ via = "ack")
      BY <2>3, <3>2 DEF Got
    <3>6. e.via = via /\ e.resp = m
      OBVIOUS
    <3> HIDE DEF e
    <3> QED
      BY <3>1, <3>2, <3>4, <3>5, <3>6
  <2> QED
    BY <1>2, <1>4, <2>1, <2>2, <2>3
<1> QED
  BY <1>3, <1>4

\* So every step of the contract keeps streams in order.
LEMMA MailKeepsOrder ==
  ASSUME ChatInv, InOrder, PushedWereAcked, [M!MailNext]_(M!mailVars)
  PROVE  InOrder' /\ PushedWereAcked'
<1>0. \A n \in Resps : n \in Nat
  BY ChatFacts
<1>1. ASSUME NEW s \in Sessions, NEW m \in Resps, NEW via \in {"ack", "hub"},
             M!Deliver(s, via, m), UNCHANGED msgs, msgs[m] # NoDoc,
             via = "hub" => Took(msgs[m].src, "ack", m)
      PROVE  PushedWereAcked'
  <2>1. \A t \in Sessions, w \in {"ack", "hub"}, x \in Resps :
          Took(t, w, x)' <=> Took(t, w, x) \/ (t = s /\ w = via /\ x = m)
    BY <1>1, DeliverTook DEF ChatInv, HubInv
  <2> SUFFICES ASSUME NEW t \in Sessions, NEW n \in Resps, Got(t, n)'
               PROVE  Took(msgs[n].src, "ack", n)'
    BY DEF PushedWereAcked
  <2>2. Took(msgs[n].src, "ack", n)
    <3>1. Got(t, n) \/ (via = "hub" /\ n = m)
      BY <2>1, GotIsTook
    <3> QED
      BY <1>1, <3>1 DEF PushedWereAcked
  <2>3. PushedInOrder(t, n) /\ (Got(t, n) \/ n = m)
    BY <2>1, GotIsTook DEF ChatInv
  <2>4. msgs[n].src \in Sessions
    BY <1>1, <2>3, DocTyped DEF ChatInv, PushedInOrder
  <2>5. \A x \in Sessions : Took(x, "ack", n) => Took(x, "ack", n)'
    BY <2>1
  <2>6. Took(msgs[n].src, "ack", n)' <=> \E x \in {msgs[n].src} : Took(x, "ack", n)'
    BY <1>1 DEF Took
  <2> QED
    BY <2>2, <2>4, <2>5, <2>6
<1>2. ASSUME NEW s \in Sessions, NEW m \in Resps, M!Ack(s, m)
      PROVE  InOrder' /\ PushedWereAcked'
  <2>1. /\ M!Deliver(s, "ack", m) /\ UNCHANGED msgs
        /\ msgs[m] # NoDoc /\ msgs[m].src = s
        /\ \A n \in Resps : M!Took(s, "ack", n) => n < m
    BY <1>2 DEF M!Ack
  <2>2. ~Got(s, m)
    BY <1>0, <2>1, SameTook DEF PushedWereAcked
  <2>3. InOrder'
    BY <2>1, <2>2, DeliverKeepsOrder
  <2> QED
    BY <1>1, <2>1, <2>3
<1>3. ASSUME NEW s \in Sessions, NEW m \in Resps, M!Push(s, m)
      PROVE  InOrder' /\ PushedWereAcked'
  <2>1. /\ M!Deliver(s, "hub", m) /\ UNCHANGED msgs
        /\ msgs[m] # NoDoc /\ Took(msgs[m].src, "ack", m)
        /\ \A n \in Resps :
             M!Took(s, "hub", n) /\ msgs[n].src = msgs[m].src => n < m
    BY <1>3, SameTook DEF M!Push
  <2>2. InOrder'
    BY <2>1, DeliverKeepsOrder
  <2> QED
    BY <1>1, <2>1, <2>2
<1>4. CASE UNCHANGED <<msgs, out>>
  <2>1. InOrder'
    BY <1>4 DEF InOrder
  <2>2. PushedWereAcked'
    BY <1>4 DEF PushedWereAcked, Got, Took
  <2> QED
    BY <2>1, <2>2
<1> QED
  BY <1>2, <1>3, <1>4, SaveKeepsOrder DEF M!MailNext, M!mailVars

\* Acknowledgements, and the pushes of any one sender, come on a stream in the
\* order they were sent and none twice, across crashes and reconnects.
THEOREM StreamsInOrder == ChatCrashSpec => []InOrder
<1>1. ChatInit => InOrder /\ PushedWereAcked
  <2> SUFFICES ASSUME ChatInit PROVE InOrder /\ PushedWereAcked
    OBVIOUS
  <2>1. \A s \in Sessions : out[s] = <<>> /\ Len(out[s]) = 0
    BY DEF ChatInit, HubInit
  <2> QED
    BY <2>1 DEF InOrder, PushedWereAcked, Got
<1>2. ChatInv /\ InOrder /\ PushedWereAcked /\ [ChatNext \/ Kill \/ Restart]_chatVars
        => InOrder' /\ PushedWereAcked'
  <2> SUFFICES ASSUME ChatInv, InOrder, PushedWereAcked,
                      [ChatNext \/ Kill \/ Restart]_chatVars
               PROVE  InOrder' /\ PushedWereAcked'
    OBVIOUS
  <2>1. [M!MailNext]_(M!mailVars)
    BY MailStep
  <2> QED
    BY <2>1, MailKeepsOrder
<1> QED
  BY <1>1, <1>2, ChatInvariant, PTL DEF ChatCrashSpec

-------------------------------------------------------------------------------
(* What HubProofs shows of the hub, with the handlers as its clients.         *)

\* The hub under the handlers, through failures of everything else, holds only
\* connections of handlers that have not returned.
THEOREM HandlersLeaveNoEndpoint == ChatCrashSpec => []OnlyOpenRegistered
<1>1. ChatInv => OnlyOpenRegistered
  BY RegisteredAreOpen DEF ChatInv
<1> QED
  BY <1>1, ChatInvariant, PTL

\* A handler with an intact stream is registered from its OpenStream to its
\* CloseStream, whatever the pushes of the other handlers unregister.
THEOREM HandlersStayRegistered == ChatCrashSpec => []HealthyRegistered
<1>1. ChatInv => HealthyRegistered
  BY DEF ChatInv, HubInv
<1> QED
  BY <1>1, ChatInvariant, PTL

\* Handlers push to streams of the addressee only.
THEOREM HandlersPushToAddressee == ChatCrashSpec => []SendsToAddressee
<1>1. ChatInv => SendsToAddressee
  BY DEF ChatInv, HubInv, FrameAccounted, SendsToAddressee
<1> QED
  BY <1>1, ChatInvariant, PTL

\* What a step of the system does to activations of SendToUser.
LEMMA ChatStepOnHub ==
  ASSUME ChatInv, [ChatNext \/ Kill \/ Restart]_chatVars
  PROVE  \/ \E s \in Sessions : SendToUserStep(s)
         \/ \E s \in Sessions : Register(s) /\ UNCHANGED frame
         \/ \E s \in open : DeferredUnregister(s) /\ UNCHANGED frame
         \/ /\ conns' = conns
            /\ \A h \in Sessions : frame'[h] = frame[h] \/ frame[h].pc = "idle"
         \/ Restart
<1>1. CASE UNCHANGED <<conns, frame>>
  BY <1>1
<1>2. ASSUME NEW s \in Sessions, PushMessage(s)
      PROVE  /\ conns' = conns
             /\ \A h \in Sessions : frame'[h] = frame[h] \/ frame[h].pc = "idle"
  BY <1>2 DEF PushMessage, SendToUserLookup, SetFrame, In, registry, ChatInv,
              ChatTypeOK, HubTypeOK
<1>3. ASSUME NEW s \in Sessions, CloseStream(s)
      PROVE  s \in open /\ DeferredUnregister(s) /\ UNCHANGED frame
  BY <1>3 DEF CloseStream, At, ChatInv, HandlerInv
<1>4. ASSUME NEW s \in Sessions, OpenStream(s)
      PROVE  Register(s) /\ UNCHANGED frame
  BY <1>4 DEF OpenStream
<1>5. ASSUME NEW s \in Sessions,
             \/ \E a \in Addrs : RecvRequest(s, a)
             \/ RecvEnd(s)
             \/ VerifyRecipient(s)
             \/ SaveMessage(s)
             \/ SendAck(s)
             \/ StreamStep(s)
      PROVE  UNCHANGED <<conns, frame>>
  BY <1>5 DEF RecvRequest, RecvEnd, VerifyRecipient, SaveMessage, SendAck, StreamStep,
              ClientRead, Break, EndRPC, hubVars, registry
<1>6. CASE Kill \/ UNCHANGED chatVars \/ \E e \in Emails : CreateUser(e)
  BY <1>6 DEF Kill, chatVars, CreateUser, hubVars, registry
<1> QED
  BY <1>1, <1>2, <1>3, <1>4, <1>5, <1>6 DEF ChatNext, HandlerStep

\* Every push reaches the devices that it was to reach, however other handlers
\* open and close streams during its range; a restart ends the pushes it cuts off.
THEOREM HandlersServeEndpoints == ChatCrashSpec => EveryEndpointServed
<1>1. ChatInv /\ [ChatNext \/ Kill \/ Restart]_chatVars
        => \A g \in Sessions : EndpointsServed(g)
  <2> SUFFICES ASSUME ChatInv, [ChatNext \/ Kill \/ Restart]_chatVars
               PROVE  \A g \in Sessions : EndpointsServed(g)
    OBVIOUS
  <2>1. CASE \E s \in Sessions : SendToUserStep(s)
    BY <2>1, ActivationServes DEF ChatInv
  <2>2. CASE \A h \in Sessions : frame'[h] = frame[h] \/ frame[h].pc = "idle"
    BY <2>2, QuietServes
  <2>3. CASE Restart
    <3>1. \A g \in Sessions :
            frame[g].pc # "idle" => conns'[frame[g].map] = {}
      BY <2>3, RespTyped DEF Restart, ChatInv
    <3> QED
      BY <3>1 DEF EndpointsServed
  <2> QED
    BY <2>1, <2>2, <2>3, ChatStepOnHub
<1> QED
  BY <1>1, ChatInvariant, PTL
     DEF ChatCrashSpec, EveryEndpointServed, chatVars

\* A push is over after a bounded number of its own steps unless devices of the
\* recipient keep connecting; the handler is not held up by what others do.
THEOREM PushIsBounded == ChatCrashSpec => SendToUserBounded
<1>1. ChatInv /\ [ChatNext \/ Kill \/ Restart]_chatVars
        => \A g \in Sessions : Advances(g)
  <2> SUFFICES ASSUME ChatInv, [ChatNext \/ Kill \/ Restart]_chatVars
               PROVE  \A g \in Sessions : Advances(g)
    OBVIOUS
  <2>0. HubInv /\ HubTypeOK
    BY DEF ChatInv, HubInv
  <2>1. CASE \E s \in Sessions : SendToUserStep(s)
    BY <2>0, <2>1, ActivationAdvances
  <2>2. CASE \E s \in Sessions : Register(s) /\ UNCHANGED frame
    BY <2>0, <2>2, RegisterAdvances
  <2>3. CASE \E s \in open : DeferredUnregister(s) /\ UNCHANGED frame
    BY <2>0, <2>3, UnregisterAdvances
  <2>4. CASE /\ conns' = conns
             /\ \A h \in Sessions : frame'[h] = frame[h] \/ frame[h].pc = "idle"
    BY <2>0, <2>4, QuietAdvances
  <2>5. CASE Restart
    <3> SUFFICES ASSUME NEW g \in Sessions, frame[g].pc # "idle"
                 PROVE  Left(g)' < Left(g)
      BY DEF Advances
    <3> PICK f \in Frame : f = frame[g]
      BY <2>0, FrameTyped
    <3> PICK C \in SUBSET Ids : C = conns[f.map]
      BY <2>0 DEF HubTypeOK, Frame
    <3>1. frame'[g] = Idle
      BY <2>5 DEF Restart
    <3>2. Left(g)' = 0
      BY <3>1 DEF Left, StepsLeft, Idle
    <3>3. Left(g) = StepsLeft(f, C)
      BY DEF Left
    <3> QED
      BY <3>2, <3>3, LeftShrinks
  <2> QED
    BY <2>1, <2>2, <2>3, <2>4, <2>5, ChatStepOnHub
<1> QED
  BY <1>1, ChatInvariant, PTL DEF ChatCrashSpec, SendToUserBounded, chatVars

===============================================================================
