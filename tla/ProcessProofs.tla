----------------------------- MODULE ProcessProofs -----------------------------
(*****************************************************************************)
(* Proofs about Process: ProcessInv is an invariant of ProcessSpec, and the  *)
(* safety properties of start-up, dispatch and shutdown follow from it, for  *)
(* every set of calls, of environments and every number of starts.           *)
(*****************************************************************************)
EXTENDS Process, TLAPS

\* What a process has at each statement, as one predicate.
ProcInv == MainInv /\ ServerInv

USE DEF Starting, Running, Ended, HasUsers, HasStores, HasCreds, Listening,
        InServer, InHandler, Tokens, Unary, ServerStreaming, Bidirectional, Methods

\* The process of a start and of an end is a process.
LEMMA FreshTyped ==
  ASSUME NEW e \in Env, NEW at \in {"connect"} \cup Ended
  PROVE  Fresh(e, at) \in Process
BY DEF Fresh, Process

\* A step of main, Serve or the signal channel that keeps what a process has,
\* and the server running while calls are in it.
LEMMA ProcStep ==
  ASSUME ProcessInv, NEW p \in Process, Become(p), ProcInv',
         (\E c \in Calls : Active(c)) => HasServed(p)
  PROVE  ProcessInv'
<1>1. ProcessTypeOK'
  BY DEF ProcessInv, ProcessTypeOK, Become
<1>2. accounts' <= IF "users" \in indexes' THEN 1 ELSE 0
  BY DEF ProcessInv, Become
<1>3. \A c \in Calls : CallInv(c)'
  BY DEF ProcessInv, CallInv, Active, Become
<1> QED
  BY <1>1, <1>2, <1>3 DEF ProcessInv, ProcInv

\* A process that ends leaves no call behind.  Indexes may have been made.
LEMMA GoneStep ==
  ASSUME ProcessInv, NEW how \in Ended, Gone(how), UNCHANGED <<starts, accounts>>,
         indexes' \subseteq Collections, indexes \subseteq indexes'
  PROVE  ProcessInv'
<1>1. proc.env \in Env
  BY DEF ProcessInv, ProcessTypeOK, Process
<1>2. proc' \in Process
  BY <1>1, FreshTyped DEF Gone
<1>3. call' \in [Calls -> Call \cup {NoCall}] /\ \A c \in Calls : call'[c] = NoCall
  BY DEF Gone
<1>4. ProcessTypeOK'
  BY <1>2, <1>3 DEF ProcessInv, ProcessTypeOK
<1>5. /\ proc'.main = how /\ proc'.server = "none" /\ ~proc'.db /\ ~proc'.limiter
      /\ proc'.serve = "none"
  BY DEF Gone, Fresh
<1>6. MainInv' /\ ServerInv'
  BY <1>5 DEF MainInv, ServerInv, Up
<1>7. accounts' <= IF "users" \in indexes' THEN 1 ELSE 0
  BY DEF ProcessInv, ProcessTypeOK
<1>8. \A c \in Calls : CallInv(c)'
  BY <1>3 DEF CallInv, Passed, Active, NoCall
<1> QED
  BY <1>4, <1>6, <1>7, <1>8 DEF ProcessInv

LEMMA EndStep ==
  ASSUME ProcessInv, NEW how \in Ended, End(how)
  PROVE  ProcessInv'
BY GoneStep DEF End, ProcessInv, ProcessTypeOK

LEMMA FatalStep ==
  ASSUME ProcessInv, Fatal
  PROVE  ProcessInv'
BY EndStep DEF Fatal

\* A call can be in the server only while main is past the start of Serve and
\* has not left GracefulStop.
LEMMA ActiveMain ==
  ASSUME ProcessInv, NEW c \in Calls, Active(c)
  PROVE  proc.main \in {"notify", "wait", "stopping"}
BY DEF ProcessInv, CallInv, HasServed, ServerInv

-------------------------------------------------------------------------------
(* Start-up.                                                                 *)

LEMMA StartStep ==
  ASSUME ProcessInv, NEW e \in Envs, Start(e)
  PROVE  ProcessInv'
<1> DEFINE at == IF e.uri /\ (e.secret \/ e.keys # "unset")
                 THEN "connect" ELSE "fatal"
<1>1. e \in Env /\ MaxStarts \in Nat
  BY ProcessAssumption
<1>2. proc' = Fresh(e, at) /\ at \in {"connect", "fatal"} /\ (at = "connect" => e.uri)
  BY DEF Start
<1>3. proc' \in Process
  BY <1>1, <1>2, FreshTyped
<1>4. ProcessTypeOK'
  BY <1>1, <1>3 DEF ProcessInv, ProcessTypeOK, Start
<1> HIDE DEF at
<1>5. /\ proc'.env = e /\ proc'.main = at /\ proc'.server = "none"
      /\ ~proc'.db /\ ~proc'.limiter /\ proc'.serve = "none"
  BY <1>2 DEF Fresh
<1>6. MainInv' /\ ServerInv'
  BY <1>2, <1>5 DEF MainInv, ServerInv, Up
<1>7. accounts' <= IF "users" \in indexes' THEN 1 ELSE 0
  BY DEF ProcessInv, Start
<1>8. \A c \in Calls : ~Active(c)
  BY ActiveMain DEF Start, Up
<1>9. \A c \in Calls : CallInv(c)'
  BY <1>8 DEF ProcessInv, CallInv, Active, Start
<1> QED
  BY <1>4, <1>6, <1>7, <1>9 DEF ProcessInv

LEMMA ConnectStep ==
  ASSUME ProcessInv, Connect
  PROVE  ProcessInv'
<1> DEFINE p == [proc EXCEPT !.main = "indexUsers", !.db = TRUE]
<1>1. CASE Become(p)
  <2>1. p \in Process /\ proc' = p
    BY <1>1 DEF ProcessInv, ProcessTypeOK, Process, Become
  <2>2. ProcInv'
    BY <1>1, <2>1 DEF ProcessInv, ProcessTypeOK, Process, ProcInv, MainInv, ServerInv,
                      Connect, At, Up, Become
  <2>3. \A c \in Calls : ~Active(c)
    BY ActiveMain DEF Connect, At
  <2> QED
    BY <1>1, <2>1, <2>2, <2>3, ProcStep
<1>2. CASE Fatal
  BY <1>2, FatalStep
<1> QED
  BY <1>1, <1>2 DEF Connect

LEMMA CreateIndexStep ==
  ASSUME ProcessInv,
         NEW on, NEW from, NEW to,
         <<on, from, to>> \in {<<"users", "indexUsers", "indexMessages">>,
                               <<"messages", "indexMessages", "build">>},
         CreateIndex(on, from, to)
  PROVE  ProcessInv'
<1>0. \/ on = "users" /\ from = "indexUsers" /\ to = "indexMessages"
      \/ on = "messages" /\ from = "indexMessages" /\ to = "build"
  OBVIOUS
<1>1. CASE MakeIndex(on) /\ proc' = [proc EXCEPT !.main = to] /\ UNCHANGED call
  <2>1. proc' \in Process /\ indexes' = indexes \cup {on}
    BY <1>0, <1>1 DEF ProcessInv, ProcessTypeOK, Process, MakeIndex
  <2>2. ProcessTypeOK'
    BY <1>0, <1>1, <2>1 DEF ProcessInv, ProcessTypeOK, MakeIndex, Collections
  <2>3. MainInv' /\ ServerInv'
    BY <1>0, <1>1, <2>1 DEF ProcessInv, ProcessTypeOK, Process, MainInv, ServerInv,
                            CreateIndex, At, Up
  <2>4. accounts' <= IF "users" \in indexes' THEN 1 ELSE 0
    BY <1>0, <1>1, <2>1 DEF ProcessInv, ProcessTypeOK, MakeIndex
  <2>5. \A c \in Calls : CallInv(c)'
    BY <1>0, <1>1, ActiveMain DEF ProcessInv, CallInv, Active, CreateIndex, At
  <2> QED
    BY <2>2, <2>3, <2>4, <2>5 DEF ProcessInv
<1>2. CASE MakeIndex(on) /\ Gone("fatal")
  BY <1>0, <1>2, GoneStep DEF MakeIndex, ProcessInv, ProcessTypeOK, Collections
<1>3. CASE Fatal
  BY <1>3, FatalStep
<1> QED
  BY <1>1, <1>2, <1>3 DEF CreateIndex

LEMMA BuildStoresStep ==
  ASSUME ProcessInv, BuildStores
  PROVE  ProcessInv'
<1> DEFINE p == [proc EXCEPT !.main = "creds", !.limiter = TRUE]
<1>1. CASE Become(p) /\ proc.env.keys # "malformed"
  <2>1. p \in Process /\ proc' = p
    BY <1>1 DEF ProcessInv, ProcessTypeOK, Process, Become
  <2>2. ProcInv'
    BY <1>1, <2>1 DEF ProcessInv, ProcessTypeOK, Process, ProcInv, MainInv, ServerInv,
                      BuildStores, At, Up, Become
  <2>3. \A c \in Calls : ~Active(c)
    BY ActiveMain DEF BuildStores, At
  <2> QED
    BY <1>1, <2>1, <2>2, <2>3, ProcStep
<1>2. CASE Fatal
  BY <1>2, FatalStep
<1> QED
  BY <1>1, <1>2 DEF BuildStores

LEMMA LoadCredsStep ==
  ASSUME ProcessInv, LoadCreds
  PROVE  ProcessInv'
<1>1. CASE Become(LoadCerts) /\ (proc.env.requireTLS => proc.env.certs)
  <2>1. LoadCerts \in Process /\ proc' = LoadCerts
    BY <1>1 DEF ProcessInv, ProcessTypeOK, Process, Env, Become, LoadCerts
  <2>2. ProcInv'
    BY <1>1, <2>1 DEF ProcessInv, ProcessTypeOK, Process, ProcInv, MainInv, ServerInv,
                      LoadCreds, LoadCerts, At, Up, Become
  <2>3. \A c \in Calls : ~Active(c)
    BY ActiveMain DEF LoadCreds, At
  <2> QED
    BY <1>1, <2>1, <2>2, <2>3, ProcStep
<1>2. CASE Fatal
  BY <1>2, FatalStep
<1> QED
  BY <1>1, <1>2 DEF LoadCreds

LEMMA ListenStep ==
  ASSUME ProcessInv, Listen
  PROVE  ProcessInv'
<1> DEFINE p == [proc EXCEPT !.main = "spawn", !.server = "listening"]
<1>1. CASE Become(p)
  <2>1. p \in Process /\ proc' = p
    BY <1>1 DEF ProcessInv, ProcessTypeOK, Process, Become
  <2>2. ProcInv'
    BY <1>1, <2>1 DEF ProcessInv, ProcessTypeOK, Process, ProcInv, MainInv, ServerInv,
                      Listen, At, Up, Become
  <2>3. \A c \in Calls : ~Active(c)
    BY ActiveMain DEF Listen, At
  <2> QED
    BY <1>1, <2>1, <2>2, <2>3, ProcStep
<1>2. CASE Fatal
  BY <1>2, FatalStep
<1> QED
  BY <1>1, <1>2 DEF Listen

LEMMA SpawnServeStep ==
  ASSUME ProcessInv, SpawnServe
  PROVE  ProcessInv'
<1> DEFINE p == [proc EXCEPT !.main = "notify", !.serve = "spawned"]
<1>1. p \in Process /\ Become(p) /\ proc' = p
  BY DEF ProcessInv, ProcessTypeOK, Process, Become, SpawnServe
<1>2. ProcInv'
  BY <1>1 DEF ProcessInv, ProcessTypeOK, Process, ProcInv, MainInv, ServerInv,
              SpawnServe, At, Up, Become
<1>3. \A c \in Calls : ~Active(c)
  BY ActiveMain DEF SpawnServe, At
<1> QED
  BY <1>1, <1>2, <1>3, ProcStep

LEMMA NotifyStep ==
  ASSUME ProcessInv, Notify
  PROVE  ProcessInv'
<1> DEFINE p == [proc EXCEPT !.main = "wait"]
<1>1. p \in Process /\ Become(p) /\ proc' = p
  BY DEF ProcessInv, ProcessTypeOK, Process, Become, Notify
<1>2. ProcInv'
  BY <1>1 DEF ProcessInv, ProcessTypeOK, Process, ProcInv, MainInv, ServerInv,
              Notify, At, Up, Become
<1>3. (\E c \in Calls : Active(c)) => HasServed(p)
  BY DEF ProcessInv, ProcessTypeOK, Process, CallInv, HasServed, Notify, At
<1> QED
  BY <1>1, <1>2, <1>3, ProcStep

-------------------------------------------------------------------------------
(* Serve, signals and shutdown.                                              *)

LEMMA ServeStep ==
  ASSUME ProcessInv, Serve
  PROVE  ProcessInv'
<1> DEFINE p == [proc EXCEPT !.serve = "running", !.server = "serving"]
<1>1. CASE Become(p) /\ proc.server = "listening"
  <2>1. p \in Process /\ proc' = p
    BY <1>1 DEF ProcessInv, ProcessTypeOK, Process, Become
  <2>2. ProcInv'
    BY <1>1, <2>1 DEF ProcessInv, ProcessTypeOK, Process, ProcInv, MainInv, ServerInv,
                      Serve, Up, Become
  <2>3. HasServed(p)
    BY <2>1 DEF Process, HasServed
  <2> QED
    BY <1>1, <2>1, <2>2, <2>3, ProcStep
<1>2. CASE Become([proc EXCEPT !.serve = "refused"])
  <2> DEFINE q == [proc EXCEPT !.serve = "refused"]
  <2>1. q \in Process /\ proc' = q
    BY <1>2 DEF ProcessInv, ProcessTypeOK, Process, Become
  <2>2. ProcInv'
    BY <1>2, <2>1 DEF ProcessInv, ProcessTypeOK, Process, ProcInv, MainInv, ServerInv,
                      Serve, Up, Become
  <2>3. \A c \in Calls : ~Active(c)
    BY DEF ProcessInv, CallInv, HasServed, Serve
  <2> QED
    BY <1>2, <2>1, <2>2, <2>3, ProcStep
<1> QED
  BY <1>1, <1>2 DEF Serve

LEMMA ServeFailsStep ==
  ASSUME ProcessInv, ServeFails
  PROVE  ProcessInv'
<1> DEFINE p == [proc EXCEPT !.serve = "failed"]
<1>1. p \in Process /\ Become(p) /\ proc' = p
  BY DEF ProcessInv, ProcessTypeOK, Process, Become, ServeFails
<1>2. ProcInv'
  BY <1>1 DEF ProcessInv, ProcessTypeOK, Process, ProcInv, MainInv, ServerInv,
              ServeFails, Up, Become
<1>3. HasServed(p)
  BY <1>1 DEF ServeFails, Process, HasServed
<1> QED
  BY <1>1, <1>2, <1>3, ProcStep

LEMMA SignalStep ==
  ASSUME ProcessInv, Signal
  PROVE  ProcessInv'
<1> DEFINE p == [proc EXCEPT !.signal = TRUE]
<1>1. CASE Become(p)
  <2>1. p \in Process /\ proc' = p
    BY <1>1 DEF ProcessInv, ProcessTypeOK, Process, Become
  <2>2. ProcInv'
    BY <1>1, <2>1 DEF ProcessInv, ProcessTypeOK, Process, ProcInv, MainInv, ServerInv,
                      Up, Become
  <2>3. (\E c \in Calls : Active(c)) => HasServed(p)
    BY DEF ProcessInv, ProcessTypeOK, Process, CallInv, HasServed
  <2> QED
    BY <1>1, <2>1, <2>2, <2>3, ProcStep
<1>2. CASE End("killed")
  BY <1>2, EndStep
<1> QED
  BY <1>1, <1>2 DEF Signal

LEMMA GracefulStopStep ==
  ASSUME ProcessInv, GracefulStop
  PROVE  ProcessInv'
<1> DEFINE p == [proc EXCEPT !.main = "stopping", !.signal = FALSE,
                             !.server = "draining"]
<1>1. p \in Process /\ Become(p) /\ proc' = p
  BY DEF ProcessInv, ProcessTypeOK, Process, Become, GracefulStop
<1>2. ProcInv'
  BY <1>1 DEF ProcessInv, ProcessTypeOK, Process, ProcInv, MainInv, ServerInv,
              GracefulStop, At, Up, Become
<1>3. (\E c \in Calls : Active(c)) => HasServed(p)
  BY <1>1 DEF ProcessInv, ProcessTypeOK, Process, CallInv, HasServed
<1> QED
  BY <1>1, <1>2, <1>3, ProcStep

LEMMA FinalGoAwayStep ==
  ASSUME ProcessInv, FinalGoAway
  PROVE  ProcessInv'
<1> DEFINE p == [proc EXCEPT !.server = "goaway"]
<1>1. p \in Process /\ Become(p) /\ proc' = p
  BY DEF ProcessInv, ProcessTypeOK, Process, Become, FinalGoAway
<1>2. ProcInv'
  BY <1>1 DEF ProcessInv, ProcessTypeOK, Process, ProcInv, MainInv, ServerInv,
              FinalGoAway, Up, Become
<1>3. (\E c \in Calls : Active(c)) => HasServed(p)
  BY <1>1 DEF ProcessInv, ProcessTypeOK, Process, CallInv, HasServed
<1> QED
  BY <1>1, <1>2, <1>3, ProcStep

LEMMA GracefulStopReturnsStep ==
  ASSUME ProcessInv, GracefulStopReturns
  PROVE  ProcessInv'
<1>1. Stopped \in Process /\ Become(Stopped) /\ proc' = Stopped
  BY DEF ProcessInv, ProcessTypeOK, Process, Become, GracefulStopReturns, Stopped
<1>2. ProcInv'
  BY <1>1 DEF ProcessInv, ProcessTypeOK, Process, ProcInv, MainInv, ServerInv,
              GracefulStopReturns, Stopped, At, Up, Become
<1> QED
  BY <1>1, <1>2, ProcStep DEF GracefulStopReturns

LEMMA StopLimiterStep ==
  ASSUME ProcessInv, StopLimiter
  PROVE  ProcessInv'
<1> DEFINE p == [proc EXCEPT !.main = "closeDB", !.limiter = FALSE]
<1>1. p \in Process /\ Become(p) /\ proc' = p
  BY DEF ProcessInv, ProcessTypeOK, Process, Become, StopLimiter
<1>2. ProcInv'
  BY <1>1 DEF ProcessInv, ProcessTypeOK, Process, ProcInv, MainInv, ServerInv,
              StopLimiter, At, Up, Become
<1>3. \A c \in Calls : ~Active(c)
  BY ActiveMain DEF StopLimiter, At
<1> QED
  BY <1>1, <1>2, <1>3, ProcStep

\* The steps of main and of Serve.
LEMMA MainStepStep ==
  ASSUME ProcessInv, MainStep
  PROVE  ProcessInv'
<1>1. CASE CloseDB
  BY <1>1, EndStep DEF CloseDB
<1> QED
  BY <1>1, ConnectStep, CreateIndexStep, BuildStoresStep, LoadCredsStep, ListenStep,
     SpawnServeStep, NotifyStep, GracefulStopStep, FinalGoAwayStep,
     GracefulStopReturnsStep, StopLimiterStep
     DEF MainStep

-------------------------------------------------------------------------------
(* Calls.                                                                    *)

\* A step of one call to a stage that it may be at.
LEMMA CallStep ==
  ASSUME ProcessInv, NEW c \in Calls, NEW r \in Call \cup {NoCall}, Update(c, r),
         Passed(r),
         r.at \in InServer => HasServed(proc)
  PROVE  ProcessInv'
<1>1. ProcessTypeOK'
  BY DEF ProcessInv, ProcessTypeOK, Update
<1>2. MainInv' /\ ServerInv' /\ accounts' <= IF "users" \in indexes' THEN 1 ELSE 0
  BY DEF ProcessInv, MainInv, ServerInv, Up, Update
<1>3. \A d \in Calls : CallInv(d)'
  <2> TAKE d \in Calls
  <2>1. call'[d] = IF d = c THEN r ELSE call[d]
    BY DEF ProcessInv, ProcessTypeOK, Update
  <2> QED
    BY <2>1 DEF ProcessInv, CallInv, Active, Update
<1> QED
  BY <1>1, <1>2, <1>3 DEF ProcessInv

LEMMA AnswerStep ==
  ASSUME ProcessInv, NEW c \in Calls, Answer(c)
  PROVE  ProcessInv'
BY CallStep DEF Answer, Passed, NoCall

\* The record of a call that is under way.
LEMMA CallTyped ==
  ASSUME ProcessInv, NEW c \in Calls, call[c].at # "idle"
  PROVE  /\ call[c] \in Call
         /\ Passed(call[c])
         /\ call[c].at \in InServer => HasServed(proc)
BY DEF ProcessInv, ProcessTypeOK, NoCall, CallInv, Active

LEMMA InvokeStep ==
  ASSUME ProcessInv, NEW c \in Calls, NEW m \in Methods, NEW t \in Tokens,
         Invoke(c, m, t)
  PROVE  ProcessInv'
<1> DEFINE r == [method |-> m, token |-> t, at |-> "sent", client |-> "here",
                 msg |-> m \in Unary, granted |-> FALSE, claims |-> FALSE]
<1>1. r \in Call /\ Update(c, r)
  BY DEF Invoke, Call
<1>2. Passed(r) /\ r.at \notin InServer
  BY DEF Passed
<1> QED
  BY <1>1, <1>2, CallStep

LEMMA SendRequestStep ==
  ASSUME ProcessInv, NEW c \in Calls, SendRequest(c)
  PROVE  ProcessInv'
<1> DEFINE r == [call[c] EXCEPT !.msg = TRUE]
<1>1. call[c].at # "idle" /\ Update(c, r)
  BY DEF SendRequest, Pending
<1>2. r \in Call /\ Passed(r) /\ r.at = call[c].at
  BY <1>1, CallTyped DEF Call, Passed
<1> QED
  BY <1>1, <1>2, CallTyped, CallStep

LEMMA LeaveStep ==
  ASSUME ProcessInv, NEW c \in Calls, NEW how \in {"closed", "gone"}, Leave(c, how)
  PROVE  ProcessInv'
<1> DEFINE r == [call[c] EXCEPT !.client = how]
<1>1. call[c].at # "idle" /\ Update(c, r)
  BY DEF Leave, Pending
<1>2. r \in Call /\ Passed(r) /\ r.at = call[c].at
  BY <1>1, CallTyped DEF Call, Passed
<1> QED
  BY <1>1, <1>2, CallTyped, CallStep

\* A call that goes to the stage "at".
LEMMA GotoStep ==
  ASSUME ProcessInv, NEW c \in Calls, NEW at \in InServer, Goto(c, at),
         call[c].at # "idle",
         HasServed(proc),
         Passed([call[c] EXCEPT !.at = at])
  PROVE  ProcessInv'
<1> DEFINE r == [call[c] EXCEPT !.at = at]
<1>1. r \in Call /\ Update(c, r)
  BY CallTyped DEF Goto, Call
<1> QED
  BY <1>1, CallStep

LEMMA AcceptStep ==
  ASSUME ProcessInv, NEW c \in Calls, Accept(c)
  PROVE  ProcessInv'
<1>1. call[c] \in Call /\ call[c].at = "sent" /\ HasServed(proc)
  BY CallTyped DEF Accept, HasServed
<1>2. CASE call[c].method \in Unary
  <2>1. Goto(c, "decode") /\ Passed([call[c] EXCEPT !.at = "decode"])
    BY <1>1, <1>2 DEF Accept, Passed, Call
  <2> QED
    BY <1>1, <2>1, GotoStep
<1>3. CASE call[c].method \notin Unary
  <2>1. Goto(c, "auth") /\ Passed([call[c] EXCEPT !.at = "auth"])
    BY <1>1, <1>3 DEF Accept, Passed, Call
  <2> QED
    BY <1>1, <2>1, GotoStep
<1> QED
  BY <1>2, <1>3

LEMMA DecodeStep ==
  ASSUME ProcessInv, NEW c \in Calls, Decode(c)
  PROVE  ProcessInv'
<1>1. /\ call[c] \in Call /\ call[c].at = "decode" /\ Passed(call[c])
      /\ HasServed(proc)
  BY CallTyped DEF Decode
<1>2. CASE Goto(c, "limit") /\ call[c].method \in Unary
  <2>1. Passed([call[c] EXCEPT !.at = "limit"])
    BY <1>1, <1>2 DEF Passed, Call
  <2> QED
    BY <1>1, <1>2, <2>1, GotoStep
<1>3. CASE Goto(c, "handler") /\ call[c].method \notin Unary
  <2>1. Passed([call[c] EXCEPT !.at = "handler"])
    BY <1>1, <1>3 DEF Passed, Call
  <2> QED
    BY <1>1, <1>3, <2>1, GotoStep
<1>4. CASE Answer(c)
  BY <1>4, AnswerStep
<1> QED
  BY <1>2, <1>3, <1>4 DEF Decode

\* Every unary method is subject to the rate limiter.
LEMMA LimitStep ==
  ASSUME ProcessInv, NEW c \in Calls, Limit(c)
  PROVE  ProcessInv'
<1>1. /\ call[c] \in Call /\ call[c].at = "limit" /\ Passed(call[c])
      /\ HasServed(proc)
  BY CallTyped DEF Limit
<1>2. call[c].method \in Limited
  BY <1>1 DEF Passed, Limited
<1> DEFINE r == [call[c] EXCEPT !.at = "auth", !.granted = TRUE]
<1>3. CASE Update(c, r)
  <2>1. r \in Call /\ Passed(r)
    BY <1>1 DEF Call, Passed
  <2> QED
    BY <1>1, <1>3, <2>1, CallStep
<1>4. CASE Answer(c)
  BY <1>4, AnswerStep
<1> QED
  BY <1>2, <1>3, <1>4 DEF Limit

\* The methods that need no token are the unary ones, so a call that passes
\* without claims was granted by the rate limiter.
LEMMA AuthenticateStep ==
  ASSUME ProcessInv, NEW c \in Calls, Authenticate(c)
  PROVE  ProcessInv'
<1>1. /\ call[c] \in Call /\ call[c].at = "auth" /\ Passed(call[c])
      /\ HasServed(proc)
  BY CallTyped DEF Authenticate
<1>2. AfterAuth(c) \in {"decode", "handler"}
  BY DEF AfterAuth
<1> DEFINE r == [call[c] EXCEPT !.at = AfterAuth(c), !.claims = TRUE]
<1>3. CASE call[c].method \in Allowed /\ Goto(c, AfterAuth(c))
  <2>1. call[c].granted /\ AfterAuth(c) = "handler"
    BY <1>1, <1>3 DEF Passed, Allowed, AfterAuth
  <2>2. Passed([call[c] EXCEPT !.at = "handler"])
    BY <1>1, <1>3, <2>1 DEF Passed, Call
  <2> QED
    BY <1>1, <1>3, <2>1, <2>2, GotoStep
<1>4. CASE call[c].token = "good" /\ Update(c, r)
  <2>1. r \in Call /\ Passed(r)
    BY <1>1, <1>2, <1>4 DEF Call, Passed
  <2> QED
    BY <1>1, <1>4, <2>1, CallStep
<1>5. CASE Answer(c)
  BY <1>5, AnswerStep
<1> QED
  BY <1>3, <1>4, <1>5 DEF Authenticate

LEMMA HandleRegisterStep ==
  ASSUME ProcessInv, NEW c \in Calls, HandleRegister(c)
  PROVE  ProcessInv'
<1>1. "users" \in indexes
  BY ActiveMain DEF HandleRegister, Handling, Active, ProcessInv, MainInv
<1>2. accounts' \in Nat /\ accounts' <= 1
  BY <1>1 DEF HandleRegister, ProcessInv, ProcessTypeOK
<1>3. ProcessTypeOK'
  BY <1>2 DEF ProcessInv, ProcessTypeOK, HandleRegister
<1>4. MainInv' /\ ServerInv'
  BY DEF ProcessInv, MainInv, ServerInv, Up, HandleRegister
<1>5. \A d \in Calls : CallInv(d)'
  <2> TAKE d \in Calls
  <2>1. call'[d] = IF d = c THEN NoCall ELSE call[d]
    BY DEF ProcessInv, ProcessTypeOK, HandleRegister
  <2> QED
    BY <2>1 DEF ProcessInv, CallInv, Active, Passed, NoCall, HandleRegister
<1> QED
  BY <1>1, <1>2, <1>3, <1>4, <1>5 DEF ProcessInv, HandleRegister

LEMMA SendStep ==
  ASSUME ProcessInv, NEW c \in Calls, SendWaits(c) \/ SendGoesOn(c)
  PROVE  ProcessInv'
<1>1. PICK at \in InHandler : Goto(c, at)
  BY DEF SendWaits, SendGoesOn
<1>2. /\ call[c] \in Call /\ call[c].at \in InHandler /\ Passed(call[c])
      /\ HasServed(proc)
  BY CallTyped DEF SendWaits, SendGoesOn, Handling
<1>3. Passed([call[c] EXCEPT !.at = at])
  BY <1>2 DEF Passed, Call
<1> QED
  BY <1>1, <1>2, <1>3, GotoStep

LEMMA ServerStepStep ==
  ASSUME ProcessInv, NEW c \in Calls, ServerStep(c) \/ HandlerStep(c)
  PROVE  ProcessInv'
<1>1. CASE Unavailable(c) \/ HandleLogin(c) \/ HandleRead(c) \/ HandleStream(c)
  BY <1>1, AnswerStep DEF Unavailable, HandleLogin, HandleRead, HandleStream
<1>2. CASE SendWaits(c) \/ SendGoesOn(c)
  BY <1>2, SendStep
<1> QED
  BY <1>1, <1>2, AcceptStep, DecodeStep, LimitStep, AuthenticateStep,
     HandleRegisterStep
     DEF ServerStep, HandlerStep

LEMMA ClientStepStep ==
  ASSUME ProcessInv, NEW c \in Calls, ClientStep(c)
  PROVE  ProcessInv'
BY InvokeStep, SendRequestStep, LeaveStep DEF ClientStep

-------------------------------------------------------------------------------
(* The theorems.                                                             *)

LEMMA InitInv == ProcessInit => ProcessInv
<1> SUFFICES ASSUME ProcessInit PROVE ProcessInv
  OBVIOUS
<1>1. PICK e \in Envs : proc = Fresh(e, "exited")
  BY DEF ProcessInit
<1>2. proc \in Process
  BY <1>1, FreshTyped, ProcessAssumption
<1>3. ProcessTypeOK
  BY <1>2, ProcessAssumption DEF ProcessInit, ProcessTypeOK
<1>4. /\ proc.main = "exited" /\ proc.server = "none" /\ proc.serve = "none"
      /\ ~proc.db /\ ~proc.limiter
  BY <1>1 DEF Fresh
<1>5. MainInv /\ ServerInv
  BY <1>4 DEF MainInv, ServerInv, Up
<1>6. \A c \in Calls : CallInv(c)
  BY DEF ProcessInit, CallInv, Passed, Active, NoCall
<1> QED
  BY <1>3, <1>5, <1>6 DEF ProcessInit, ProcessInv

LEMMA NextInv == ProcessInv /\ [ProcessNext]_vars => ProcessInv'
<1> SUFFICES ASSUME ProcessInv, [ProcessNext]_vars PROVE ProcessInv'
  OBVIOUS
<1>1. CASE UNCHANGED vars
  <2>1. ProcessTypeOK' /\ MainInv' /\ ServerInv'
    BY <1>1 DEF ProcessInv, ProcessTypeOK, MainInv, ServerInv, Up, vars
  <2>2. \A c \in Calls : CallInv(c)'
    BY <1>1 DEF ProcessInv, CallInv, Active, vars
  <2> QED
    BY <1>1, <2>1, <2>2 DEF ProcessInv, vars
<1>2. CASE \E e \in Envs : Start(e)
  BY <1>2, StartStep
<1>3. CASE MainStep
  BY <1>3, MainStepStep
<1>4. CASE Serve
  BY <1>4, ServeStep
<1>5. CASE ServeFails
  BY <1>5, ServeFailsStep
<1>6. CASE Signal
  BY <1>6, SignalStep
<1>7. CASE Kill
  BY <1>7, EndStep DEF Kill
<1>9. CASE ServeFatal
  BY <1>9, FatalStep DEF ServeFatal
<1>8. CASE \E c \in Calls : ServerStep(c) \/ HandlerStep(c) \/ ClientStep(c)
  BY <1>8, ServerStepStep, ClientStepStep
<1> QED
  BY <1>1, <1>2, <1>3, <1>4, <1>5, <1>6, <1>7, <1>8, <1>9 DEF ProcessNext

\* ProcessInv is an invariant.
THEOREM ProcessInvariant == ProcessSpec => []ProcessInv
BY InitInv, NextInv, PTL DEF ProcessSpec

\* Whoever serves has both indexes, well-formed keys and the TLS that was asked
\* for (main.go:25-150, db.go:82-124).
THEOREM ServingIsConfigured == ProcessSpec => []ServesAsConfigured
<1>1. ASSUME ProcessInv, proc.server # "none"
      PROVE  /\ indexes = Collections
             /\ proc.env.uri /\ proc.env.keys # "malformed"
             /\ proc.env.requireTLS => proc.tls
  <2>1. proc.main \in Listening
    BY <1>1 DEF ProcessInv, ServerInv
  <2>2. Up /\ proc.main \in HasCreds /\ proc.main \in HasStores
    BY <2>1 DEF Up
  <2>3. indexes = Collections
    BY <1>1, <2>2 DEF ProcessInv, ProcessTypeOK, MainInv, Collections
  <2> QED
    BY <1>1, <2>2, <2>3 DEF ProcessInv, MainInv
<1>2. ProcessInv => ServesAsConfigured
  BY <1>1 DEF ServesAsConfigured
<1> QED
  BY <1>2, ProcessInvariant, PTL

\* An e-mail has at most one account, through every failed start-up.
THEOREM AccountIsUnique == ProcessSpec => []OneAccount
<1>1. ProcessInv => OneAccount
  BY DEF ProcessInv, ProcessTypeOK, OneAccount
<1> QED
  BY <1>1, ProcessInvariant, PTL

\* A call that was accepted has the database and the limiter store.
THEOREM StoresOutliveCalls == ProcessSpec => []CallsHaveStores
<1>1. ProcessInv => CallsHaveStores
  BY ActiveMain DEF ProcessInv, MainInv, CallsHaveStores, Up
<1> QED
  BY <1>1, ProcessInvariant, PTL

\* No handler runs for a call that neither an interceptor nor the rate limiter
\* has checked.
THEOREM HandlersAreChecked == ProcessSpec => []NoUncheckedHandler
<1>1. ProcessInv => NoUncheckedHandler
  BY DEF ProcessInv, CallInv, Passed, Handling, NoUncheckedHandler
<1> QED
  BY <1>1, ProcessInvariant, PTL

\* A step of a call leaves the others alone.
LEMMA OthersStay ==
  ASSUME ProcessInv, NEW c \in Calls,
         ServerStep(c) \/ HandlerStep(c) \/ ClientStep(c),
         NEW d \in Calls, d # c
  PROVE  call'[d] = call[d]
BY DEF ProcessInv, ProcessTypeOK, ServerStep, ClientStep, Accept, Unavailable, Decode,
       Limit, Authenticate, HandleRegister, HandleLogin, HandlerStep, HandleRead,
       HandleStream, SendWaits, SendGoesOn, Invoke, SendRequest, Leave, Goto, Answer,
       Update

\* A step that makes the record of a call r, or ends the call.
LEMMA UpdateMakes ==
  ASSUME ProcessInv, NEW c \in Calls, NEW r, Update(c, r)
  PROVE  call'[c] = r
BY DEF ProcessInv, ProcessTypeOK, Update

Shrinks(r, s) ==
  s.at \in InServer =>
    /\ r.at \in InServer
    /\ s.method = r.method
    /\ StagesLeft(s) <= StagesLeft(r)

\* A server that does not accept moves a call on its way, or answers it.
LEMMA ServerStepShrinks ==
  ASSUME ProcessInv, proc.server = "goaway", NEW c \in Calls,
         ServerStep(c) \/ HandlerStep(c)
  PROVE  Shrinks(call[c], call'[c])
<1>1. CASE Answer(c)
  BY <1>1, UpdateMakes DEF Answer, NoCall, Shrinks
<1>2. CASE Decode(c) /\ ~Answer(c)
  <2>1. call[c] \in Call /\ call[c].at = "decode" /\ Passed(call[c])
    BY <1>2, CallTyped DEF Decode
  <2> DEFINE at == IF call[c].method \in Unary THEN "limit" ELSE "handler"
  <2>2. call'[c] = [call[c] EXCEPT !.at = at]
    BY <1>2, UpdateMakes DEF Decode, Goto
  <2> QED
    BY <2>1, <2>2 DEF Call, Shrinks, StagesLeft
<1>3. CASE Limit(c) /\ ~Answer(c)
  <2>1. call[c] \in Call /\ call[c].at = "limit" /\ Passed(call[c])
    BY <1>3, CallTyped DEF Limit
  <2>2. call[c].method \in Unary
    BY <2>1 DEF Passed
  <2>3. /\ call'[c].at = "auth"
        /\ call'[c].method = call[c].method
    BY <1>3, <2>1, UpdateMakes DEF Limit, Goto, Call
  <2> QED
    BY <2>1, <2>2, <2>3 DEF Shrinks, StagesLeft
<1>4. CASE Authenticate(c) /\ ~Answer(c)
  <2>1. call[c] \in Call /\ call[c].at = "auth"
    BY <1>4, CallTyped DEF Authenticate
  <2>2. /\ call'[c].at = AfterAuth(c)
        /\ call'[c].method = call[c].method
    BY <1>4, <2>1, UpdateMakes DEF Authenticate, Goto, Call
  <2> QED
    BY <2>1, <2>2 DEF AfterAuth, Shrinks, StagesLeft
<1>5. CASE HandleRegister(c)
  <2>1. call'[c] = NoCall
    BY <1>5 DEF HandleRegister, ProcessInv, ProcessTypeOK
  <2> QED
    BY <2>1 DEF NoCall, Shrinks
<1>6. CASE SendWaits(c) \/ SendGoesOn(c)
  <2>1. call[c] \in Call /\ call[c].at \in InHandler
    BY <1>6, CallTyped DEF SendWaits, SendGoesOn, Handling
  <2>2. call'[c].at \in InHandler /\ call'[c].method = call[c].method
    BY <1>6, <2>1, UpdateMakes DEF SendWaits, SendGoesOn, Goto, Call
  <2> QED
    BY <2>1, <2>2 DEF Shrinks, StagesLeft
<1> QED
  BY <1>1, <1>2, <1>3, <1>4, <1>5, <1>6
     DEF ServerStep, HandlerStep, Accept, Unavailable, HandleLogin, HandleRead,
         HandleStream

\* What a client does leaves the stage of its call, or makes it wait for the
\* server to accept it.
LEMMA ClientStepShrinks ==
  ASSUME ProcessInv, NEW c \in Calls, ClientStep(c)
  PROVE  Shrinks(call[c], call'[c])
<1>1. CASE \E m \in Methods, t \in Tokens : Invoke(c, m, t)
  <2>1. call'[c].at = "sent"
    BY <1>1, UpdateMakes DEF Invoke
  <2> QED
    BY <2>1 DEF Shrinks
<1>2. CASE SendRequest(c) \/ \E how \in {"closed", "gone"} : Leave(c, how)
  <2>1. call[c] \in Call
    BY <1>2, CallTyped DEF SendRequest, Leave, Pending
  <2>2. call'[c].at = call[c].at /\ call'[c].method = call[c].method
    BY <1>2, <2>1, UpdateMakes DEF SendRequest, Leave, Call
  <2>3. StagesLeft(call'[c]) = StagesLeft(call[c]) /\ StagesLeft(call[c]) \in 0 .. 4
    BY <2>2 DEF StagesLeft
  <2> QED
    BY <2>2, <2>3 DEF Shrinks
<1> QED
  BY <1>1, <1>2 DEF ClientStep

\* From the final GOAWAY on, the calls GracefulStop waits for become fewer and
\* come closer to their answers (main.go:153, chat_grpc.pb.go:163-233).
THEOREM DrainShrinks == ProcessSpec => DrainOnlyShrinks
<1> DEFINE Step == \A c \in Calls : Shrinks(call[c], call'[c])
<1>1. ASSUME ProcessInv, [ProcessNext]_vars, proc.server = "goaway"
      PROVE  Step
  <2>0. At("stopping") /\ \A c \in Calls : StagesLeft(call[c]) \in 0 .. 4
    BY <1>1 DEF ProcessInv, ServerInv, At, StagesLeft
  <2>1. CASE UNCHANGED call
    BY <2>0, <2>1 DEF Shrinks
  <2>2. CASE \E how \in Ended : Gone(how)
    <3>1. \A c \in Calls : call'[c].at = "idle"
      BY <2>2 DEF Gone, NoCall
    <3> QED
      BY <3>1 DEF Shrinks
  <2>3. CASE \E c \in Calls : ServerStep(c) \/ HandlerStep(c) \/ ClientStep(c)
    <3>1. PICK c \in Calls : ServerStep(c) \/ HandlerStep(c) \/ ClientStep(c)
      BY <2>3
    <3>2. Shrinks(call[c], call'[c])
      BY <1>1, <2>0, <3>1, ServerStepShrinks, ClientStepShrinks
    <3>3. ASSUME NEW d \in Calls, d # c PROVE Shrinks(call[d], call'[d])
      BY <1>1, <2>0, <3>1, <3>3, OthersStay DEF Shrinks
    <3> QED
      BY <3>2, <3>3
  <2>4. MainStep => UNCHANGED call
    BY <2>0 DEF MainStep, Connect, CreateIndex, BuildStores, LoadCreds, Listen,
                SpawnServe, Notify, GracefulStop, FinalGoAway, GracefulStopReturns,
                StopLimiter, CloseDB, Become, At
  <2>5. /\ (Serve \/ ServeFails \/ ServeFatal) => UNCHANGED call \/ Gone("fatal")
        /\ (Signal \/ Kill) => UNCHANGED call \/ Gone("killed")
        /\ (\E e \in Envs : Start(e)) => UNCHANGED call
    BY DEF Serve, ServeFails, ServeFatal, Signal, Kill, Start, Fatal, End, Become
  <2> QED
    BY <1>1, <2>1, <2>2, <2>3, <2>4, <2>5 DEF ProcessNext, vars
<1>2. Step => \A c \in Calls : Active(c)' =>
                /\ Active(c)
                /\ call'[c].method = call[c].method
                /\ StagesLeft(call'[c]) <= StagesLeft(call[c])
  BY DEF Active, Shrinks
<1>3. ProcessInv /\ [ProcessNext]_vars
        => [proc.server = "goaway" =>
              \A c \in Calls : Active(c)' =>
                /\ Active(c)
                /\ call'[c].method = call[c].method
                /\ StagesLeft(call'[c]) <= StagesLeft(call[c])]_vars
  BY <1>1, <1>2
<1> QED
  BY <1>3, ProcessInvariant, PTL DEF ProcessSpec, DrainOnlyShrinks
===============================================================================
