-------------------------- MODULE ChatPresenceProofs --------------------------
(*****************************************************************************)
(* The handlers of Chat, with crashes and restarts, use the hub as Presence  *)
(* says.  The steps of the hub are those of PresenceProofs; here it is shown *)
(* that the handlers take no others, and what acknowledgements and restarts  *)
(* are.                                                                      *)
(*****************************************************************************)
EXTENDS ChatProofs, PresenceProofs

\* A session without an id has not come yet, or its process has ended and broken
\* its stream.
OldStreamsBroken ==
  \A s \in Sessions : connID[s] = 0 => (step[s] = "new" <=> s \in alive)

\* The acknowledgement that a stream takes from its own handler.
Acking(s) ==
  /\ step[s] = "ack"
  /\ Accept(s, "ack", req[s].id)
  /\ UNCHANGED <<registry, connID, frame>>

LEMMA HandlersDriveHub ==
  ASSUME ChatInv, OldStreamsBroken, [ChatNext \/ Kill]_chatVars
  PROVE  HubStep \/ \E s \in Sessions : Acking(s)
<1>1. ASSUME NEW s \in Sessions, OpenStream(s) PROVE Joining(s)
  BY <1>1 DEF OpenStream, At, Joining, OldStreamsBroken, ChatInv, HandlerInv, grpc
<1>2. ASSUME NEW s \in Sessions, PushMessage(s)
      PROVE  \E a \in Addrs, r \in Resps : Calling(s, a, r)
  <2>1. step[s] = "push" /\ SendToUserLookup(s, req[s].addr, req[s].id)
    BY <1>2 DEF PushMessage, At
  <2>2. req[s] # NoReq /\ s \in open
    BY <2>1 DEF ChatInv, HandlerInv
  <2>3. req[s].addr \in Addrs /\ req[s].id \in Resps
    BY <2>2, ReqTyped DEF ChatInv
  <2> QED
    BY <2>1, <2>2, <2>3 DEF Calling
<1>3. ASSUME NEW s \in Sessions, CloseStream(s) PROVE Parting(s)
  BY <1>3 DEF CloseStream, At, Parting, ChatInv, HandlerInv, grpc
<1>4. ASSUME NEW s \in Sessions, SendAck(s) PROVE Acking(s) \/ Unseen
  BY <1>4 DEF SendAck, At, Acking, Refuse, Unseen, grpc
<1>5. ASSUME NEW s \in Sessions, StreamStep(s) PROVE Breaking(s) \/ Unseen
  BY <1>5 DEF StreamStep, ClientRead, Break, EndRPC, Breaking, Unseen, ChatInv, HubInv,
              IdsGivenOnce
<1>6. UNCHANGED hubVars => Unseen
  BY DEF hubVars, registry, Unseen
<1>7. ASSUME NEW s \in Sessions,
             \/ \E a \in Addrs : RecvRequest(s, a)
             \/ RecvEnd(s)
             \/ VerifyRecipient(s)
             \/ SaveMessage(s)
      PROVE  Unseen
  BY <1>6, <1>7 DEF RecvRequest, RecvEnd, VerifyRecipient, SaveMessage
<1>8. CASE Kill \/ UNCHANGED chatVars \/ \E e \in Emails : CreateUser(e)
  <2>1. Unseen
    BY <1>6, <1>8 DEF Kill, chatVars, CreateUser, hubVars, registry, grpc, Unseen
  <2> QED
    BY <2>1 DEF HubStep
<1>9. ASSUME NEW s \in Sessions, HandlerStep(s)
      PROVE  HubStep \/ \E t \in Sessions : Acking(t)
  <2>1. CASE PushMessage(s)
    BY <1>2, <2>1 DEF HubStep
  <2> QED
    BY <1>3, <1>4, <1>7, <1>9, <2>1 DEF HandlerStep, HubStep
<1>10. ASSUME NEW s \in Sessions,
              \/ OpenStream(s)
              \/ \E a \in Addrs : RecvRequest(s, a)
              \/ RecvEnd(s)
              \/ StreamStep(s)
       PROVE  HubStep
  BY <1>1, <1>5, <1>7, <1>10 DEF HubStep
<1> QED
  BY <1>8, <1>9, <1>10 DEF ChatNext

\* A handler starts with its Register, and never again.
LEMMA HandlersStartOnce ==
  ASSUME ChatInv, [ChatNext \/ Kill]_chatVars
  PROVE  \A t \in Sessions :
           connID'[t] = 0 => (step'[t] = "new" <=> step[t] = "new")
<1>1. ASSUME NEW s \in Sessions, OpenStream(s)
      PROVE  \A t \in Sessions :
               connID'[t] = 0 => (step'[t] = "new" <=> step[t] = "new")
  <2>1. /\ connID' = [connID EXCEPT ![s] = nextID + 1]
        /\ step' = [step EXCEPT ![s] = "recv"]
    BY <1>1 DEF OpenStream, Register, AddConnection, Goto
  <2>2. nextID + 1 # 0
    BY DEF ChatInv, HubInv, HubTypeOK
  <2> QED
    BY <2>1, <2>2 DEF ChatInv, HubInv, HubTypeOK, ChatTypeOK
<1>2. ASSUME NEW s \in Sessions,
             \/ \E a \in Addrs : RecvRequest(s, a)
             \/ RecvEnd(s)
             \/ HandlerStep(s)
             \/ StreamStep(s)
      PROVE  \A t \in Sessions : step'[t] = "new" <=> step[t] = "new"
  <2>1. \/ step' = step
        \/ /\ step[s] # "new"
           /\ \E where : where # "new" /\ step' = [step EXCEPT ![s] = where]
    BY <1>2 DEF RecvRequest, RecvEnd, HandlerStep, VerifyRecipient, SaveMessage, SendAck,
                PushMessage, CloseStream, StreamStep, Goto, Return, At
  <2> QED
    BY <2>1 DEF ChatInv, ChatTypeOK
<1>3. CASE Kill \/ UNCHANGED chatVars \/ \E e \in Emails : CreateUser(e)
  BY <1>3 DEF Kill, chatVars, CreateUser
<1> QED
  BY <1>1, <1>2, <1>3 DEF ChatNext

\* The invariant that the refinement needs besides ChatInv.
LEMMA OldStreamsNext ==
  ASSUME ChatInv, OldStreamsBroken, AtHome, [ChatNext \/ Kill \/ Restart]_chatVars
  PROVE  OldStreamsBroken' /\ AtHome'
<1>1. CASE Restart
  <2>1. /\ \A s \in Sessions : connID'[s] = 0 /\ frame'[s] = Idle
        /\ \A s \in Sessions : step'[s] = IF step[s] # "new" THEN "ended" ELSE "new"
        /\ alive' = alive \ {s \in Sessions : step[s] # "new"}
    BY <1>1 DEF Restart
  <2>2. \A s \in Sessions : step[s] = "new" => s \in alive
    BY DEF ChatInv, HandlerInv, OldStreamsBroken
  <2>3. OldStreamsBroken'
    BY <2>1, <2>2 DEF OldStreamsBroken
  <2> QED
    BY <2>1, <2>3 DEF AtHome, Idle
<1>2. ASSUME NEW s \in Sessions, Acking(s), [ChatNext \/ Kill]_chatVars
      PROVE  OldStreamsBroken' /\ AtHome'
  <2>1. UNCHANGED <<stream, conns, connID, alive, frame>>
    BY <1>2 DEF Acking, Accept, registry
  <2>2. OldStreamsBroken'
    BY <1>2, <2>1, HandlersStartOnce DEF OldStreamsBroken
  <2> QED
    BY <2>1, <2>2 DEF AtHome, AtHomeIn, Given
<1>3. CASE HubStep /\ [ChatNext \/ Kill]_chatVars
  <2>1. HubInv
    BY DEF ChatInv
  <2>2. OldStreamsBroken'
    BY <1>3, <2>1, FreshKept, HandlersStartOnce DEF OldStreamsBroken
  <2> QED
    BY <1>3, <2>1, <2>2, AtHomeNext
<1> QED
  BY <1>1, <1>2, <1>3, HandlersDriveHub

LEMMA AckTakes ==
  ASSUME ChatInv, NEW s \in Sessions, Acking(s)
  PROVE  \E r \in Resps : P!Take(s, r)
<1>1. UNCHANGED <<stream, conns, connID, alive, frame>>
  BY DEF Acking, Accept, registry
<1>2. Joined' = Joined /\ Present' = Present /\ Calls' = Calls
  BY <1>1 DEF Joined, Present, StreamsOf, Calls, CallOf
<1>3. req[s] # NoReq /\ s \in open /\ frame[s].pc = "idle"
  BY DEF Acking, ChatInv, HandlerInv
<1>4. req[s].id \in Resps
  BY <1>3, ReqTyped DEF ChatInv
<1>5. s \in Joined /\ s \in alive
  BY <1>3 DEF Acking, Accept, ChatInv, HubInv, IdsGivenOnce, Joined
<1>6. Calls[s] = P!NoCall
  <2>1. frame[s] = Idle
    BY <1>3 DEF ChatInv, HubInv, HubTypeOK, Frame
  <2> QED
    BY <2>1, CallsAreViews, IdleIsNoCall
<1>7. out' = [out EXCEPT ![s] = Append(out[s], [via |-> "ack", resp |-> req[s].id])]
  BY DEF Acking, Accept
<1> QED
  BY <1>1, <1>2, <1>4, <1>5, <1>6, <1>7 DEF P!Take

LEMMA RestartRenews ==
  ASSUME ChatInv, OldStreamsBroken, Restart
  PROVE  P!Renew
<1>1. /\ conns' = [m \in Ids |-> {}]
      /\ connID' = [s \in Sessions |-> 0]
      /\ frame' = [g \in Sessions |-> Idle]
      /\ alive' = alive \ {s \in Sessions : step[s] # "new"}
      /\ out' = out
  BY DEF Restart
<1>2. Joined' = {} /\ Present' = {}
  BY <1>1 DEF Joined, Present, StreamsOf
<1>3. alive' = alive \ Joined
  <2>1. \A s \in Sessions \cap alive : step[s] = "new" <=> connID[s] = 0
    BY DEF ChatInv, HandlerInv, OldStreamsBroken
  <2> QED
    BY <1>1, <2>1 DEF Joined
<1>4. Calls' = [g \in Sessions |-> P!NoCall]
  <2>1. \A g \in Sessions : View(frame'[g], stream', conns') = P!NoCall
    BY <1>1 DEF View, Idle, P!NoCall
  <2> QED
    BY <2>1, CallsAreViews
<1> QED
  BY <1>1, <1>2, <1>3, <1>4 DEF P!Renew

LEMMA OldStreamsAlways == ChatCrashSpec => [](OldStreamsBroken /\ AtHome)
<1>1. ChatInit => OldStreamsBroken /\ AtHome
  BY DEF ChatInit, HubInit, OldStreamsBroken, AtHome, Idle
<1>2. /\ ChatInv
      /\ OldStreamsBroken /\ AtHome
      /\ [ChatNext \/ Kill \/ Restart]_chatVars
      => (OldStreamsBroken /\ AtHome)'
  BY OldStreamsNext
<1> QED
  BY <1>1, <1>2, ChatInvariant, PTL DEF ChatCrashSpec

\* Handlers, with crashes and restarts, use the hub as Presence says: every process
\* has one set of streams per user and pushes that pass over it, a handler neither
\* acknowledges nor leaves while it is in a push, and a stream that had joined is
\* in no later process.
THEOREM HandlersKeepPresence == ChatCrashSpec => PresenceCrashSpec
<1>1. /\ ChatInv
      /\ OldStreamsBroken /\ AtHome
      /\ [ChatNext \/ Kill \/ Restart]_chatVars
      => [P!PresenceCrashNext]_(P!presenceVars)
  <2> SUFFICES ASSUME ChatInv, OldStreamsBroken, AtHome,
                      [ChatNext \/ Kill \/ Restart]_chatVars
               PROVE  [P!PresenceCrashNext]_(P!presenceVars)
    OBVIOUS
  <2>1. CASE Restart
    BY <2>1, RestartRenews DEF P!PresenceCrashNext
  <2>2. ASSUME NEW s \in Sessions, Acking(s) PROVE P!PresenceCrashNext
    BY <2>2, AckTakes DEF P!PresenceCrashNext
  <2>3. CASE HubStep
    <3>1. [P!PresenceNext]_(P!presenceVars)
      BY <2>3, PresenceSteps DEF ChatInv
    <3> QED
      BY <3>1 DEF P!PresenceCrashNext
  <2> QED
    BY <2>1, <2>2, <2>3, HandlersDriveHub
<1>2. ChatCrashSpec => P!PresenceInit
  BY PresenceInitially DEF ChatCrashSpec, ChatInit
<1>3. ChatCrashSpec => [][P!PresenceCrashNext]_(P!presenceVars)
  BY <1>1, ChatInvariant, OldStreamsAlways, PTL DEF ChatCrashSpec
<1> QED
  BY <1>2, <1>3 DEF PresenceCrashSpec, P!PresenceCrashSpec
===============================================================================
