------------------------------- MODULE Presence -------------------------------
(*****************************************************************************)
(* What the connection hub promises, without its maps, ids and locks: every  *)
(* user has one set of streams, which changes atomically, and SendToUser is  *)
(* a pass over that set.  The pass may meet streams that join while it runs, *)
(* serves none twice, and ends when every stream that was in the set at its  *)
(* start was served, found broken, or has left.  It finds nobody only if the *)
(* set was empty at some moment of the call.                                 *)
(*****************************************************************************)
EXTENDS Sequences

CONSTANTS
  Addrs,     \* the users
  Sessions,  \* the streams; each joins once
  Owner,     \* the user of each stream
  Resps,     \* what is sent
  NoSession  \* no stream

VARIABLES
  joined,    \* the streams that have joined
  present,   \* the streams that belong to their user's set
  alive,     \* the streams that are intact
  out,       \* what each stream has taken, in order
  call       \* call[g]: the SendToUser that the handler of g runs

presenceVars == <<joined, present, alive, out, call>>

Of(a) == {s \in present : Owner[s] = a}

NoCall == [pc |-> "idle"]

\* A call that has found the user, before it looks at the set.
Called(a, r) ==
  [pc |-> "len", addr |-> a, resp |-> r, must |-> {}, seen |-> {},
   cur |-> NoSession, failed |-> {}]

PresenceInit ==
  /\ joined = {}
  /\ present = {}
  /\ alive = Sessions
  /\ out = [s \in Sessions |-> <<>>]
  /\ call = [g \in Sessions |-> NoCall]

Join(s) ==
  /\ s \in alive \ joined
  /\ joined' = joined \cup {s}
  /\ present' = present \cup {s}
  /\ UNCHANGED <<alive, out, call>>

Break(s) ==
  /\ s \in joined \cap alive
  /\ alive' = alive \ {s}
  /\ UNCHANGED <<joined, present, out, call>>

\* A call whose user is left by s: it finds nobody if s was the last stream.
LeftBy(s, c) ==
  IF c.pc = "len" /\ Of(c.addr) = {s} THEN [c EXCEPT !.pc = "nobody"] ELSE c

\* The stream s leaves its user's set, and c[g] becomes the call of g.
Leave(s, c) ==
  /\ present' = present \ {s}
  /\ call' = [g \in Sessions |-> LeftBy(s, c[g])]
  /\ UNCHANGED <<joined, alive, out>>

\* The handler of s returns: not while it is in a call.
Part(s) ==
  /\ s \in present
  /\ call[s] = NoCall
  /\ Leave(s, call)

SetCall(g, c) ==
  /\ call' = [call EXCEPT ![g] = c]
  /\ UNCHANGED <<joined, present, alive>>

\* A call for a user who has no stream returns at once, and changes nothing.
Call(g, a, r) ==
  /\ g \in joined
  /\ call[g] = NoCall
  /\ Of(a) # {}
  /\ SetCall(g, Called(a, r))
  /\ UNCHANGED out

\* The pass starts: the streams of this moment have to be reached.
Begin(g) ==
  /\ call[g].pc = "len"
  /\ SetCall(g, [call[g] EXCEPT !.pc = "range", !.must = Of(call[g].addr)])
  /\ UNCHANGED out

NotConnected(g) ==
  /\ call[g].pc = "nobody"
  /\ SetCall(g, NoCall)
  /\ UNCHANGED out

Reach(g, s) ==
  /\ call[g].pc = "range"
  /\ s \in Of(call[g].addr) \ call[g].seen
  /\ SetCall(g, [call[g] EXCEPT !.pc = "send", !.cur = s,
                                !.seen = call[g].seen \cup {s}])
  /\ UNCHANGED out

\* A stream that was reached is served even if it has left since.
Serve(g) ==
  LET s == call[g].cur IN
  /\ call[g].pc = "send"
  /\ s \in alive
  /\ SetCall(g, [call[g] EXCEPT !.pc = "range", !.cur = NoSession])
  /\ out' = [out EXCEPT ![s] = Append(out[s], [via |-> "hub", resp |-> call[g].resp])]

Blame(g) ==
  LET s == call[g].cur IN
  /\ call[g].pc = "send"
  /\ s \notin alive
  /\ SetCall(g, [call[g] EXCEPT !.pc = "range", !.cur = NoSession,
                                !.failed = call[g].failed \cup {s}])
  /\ UNCHANGED out

\* What the call becomes when it has no stream left to reach, and f to remove.
Purging(c, f) == IF f = {} THEN NoCall ELSE [c EXCEPT !.pc = "purge", !.failed = f]

End(g) ==
  /\ call[g].pc = "range"
  /\ call[g].must \cap present \subseteq call[g].seen
  /\ SetCall(g, Purging(call[g], call[g].failed))
  /\ UNCHANGED out

\* A broken stream leaves the set, if it has not left it already.
Purge(g, s) ==
  /\ call[g].pc = "purge"
  /\ s \in call[g].failed
  /\ Leave(s, [call EXCEPT ![g] = Purging(call[g], call[g].failed \ {s})])

PresenceNext ==
  \E s \in Sessions :
    \/ Join(s) \/ Part(s) \/ Break(s)
    \/ \E a \in Addrs, r \in Resps : Call(s, a, r)
    \/ Begin(s) \/ NotConnected(s)
    \/ \E t \in Sessions : Reach(s, t) \/ Purge(s, t)
    \/ Serve(s) \/ Blame(s) \/ End(s)

PresenceSpec == PresenceInit /\ [][PresenceNext]_presenceVars

-------------------------------------------------------------------------------
(* The handlers and processes around the hub.                                *)

\* A handler sends on its own stream, never while it is in a call.
Take(s, r) ==
  /\ s \in joined \cap alive
  /\ call[s] = NoCall
  /\ out' = [out EXCEPT ![s] = Append(out[s], [via |-> "ack", resp |-> r])]
  /\ UNCHANGED <<joined, present, alive, call>>

\* Another process takes the place of one that ended: the streams that had joined
\* are broken for ever, the others may still join.
Renew ==
  /\ joined' = {}
  /\ present' = {}
  /\ alive' = alive \ joined
  /\ call' = [g \in Sessions |-> NoCall]
  /\ UNCHANGED out

PresenceCrashNext ==
  \/ PresenceNext
  \/ \E s \in Sessions, r \in Resps : Take(s, r)
  \/ Renew

PresenceCrashSpec == PresenceInit /\ [][PresenceCrashNext]_presenceVars
===============================================================================
