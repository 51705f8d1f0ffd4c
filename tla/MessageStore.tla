------------------------------ MODULE MessageStore ------------------------------
(*****************************************************************************)
(* The messages collection and its readers: SaveMessage, GetMessageHistory   *)
(* and GetRecentChats (internal/data/messages.go) with the handlers that     *)
(* call them, GetHistory and ListChats (cmd/api/handlers.go).                *)
(*                                                                           *)
(* The handler of a message reads the clock (sent_at) and then inserts the   *)
(* document; other handlers may insert in between, so the collection is not  *)
(* in the order of sent_at.  MongoDB keeps dates in milliseconds: two        *)
(* messages may well have the same sent_at.                                  *)
(*                                                                           *)
(* A query sees the collection as it is when it runs.  Where MongoDB does    *)
(* not say in which order documents come, those with equal sort keys or      *)
(* those that no stage sorts, the operator gives the set of all answers.     *)
(* Operators marked "Fault" are as in Hub.                                   *)
(*****************************************************************************)
EXTENDS Integers, SequencesExt

CONSTANTS
  Addrs,         \* strings used as e-mail addresses
  Email,         \* normalize.Email, on Addrs
  Messages,      \* the messages that are sent, by their _id
  Talks,         \* the pairs of a sender and a to_email that send them
  Readers,       \* the GetHistory and ListChats RPCs
  MaxClock,      \* bound on the clock, in milliseconds
  HistoryLimit,  \* the limit GetHistory passes: 100 in the code
  DefaultLimit,  \* the limit of ListChats when the request has none: 50
  Limits         \* the values of limit in ListChatsRequest

ASSUME StoreAssumption ==
  /\ Email \in [Addrs -> Addrs]
  /\ \A a \in Addrs : Email[Email[a]] = Email[a]
  /\ Talks \subseteq Addrs \X Addrs
  /\ MaxClock \in Nat \ {0}
  /\ HistoryLimit \in Nat \ {0}
  /\ DefaultLimit \in Nat \ {0}
  /\ Limits \subseteq Int

VARIABLES
  clock,   \* time.Now() on the server
  sentAt,  \* sentAt[m]: the time the handler read for m, 0 before it did
  from,    \* from[m], to[m]: the addresses of m as they are stored
  to,
  docs,    \* the collection: messages in the order they were inserted
  writing, \* messages whose handler is between time.Now() and the insert's return
  reader   \* the reading RPCs

storeVars == <<clock, sentAt, from, to, docs, writing, reader>>

Emails == {Email[a] : a \in Addrs}

Partner == [email : Emails, last : Messages]

Idle == [pc |-> "new"]
Reading ==
  [pc : {"send", "done"}, method : {"GetHistory", "ListChats"},
   user : Emails, with : Addrs, limit : Int,
   result : Seq(Messages) \cup Seq(Partner),
   sent : Nat, outcome : {"none", "OK", "Internal", "Unavailable"}, seen : Nat]

StoreTypeOK ==
  /\ clock \in 1 .. MaxClock
  /\ sentAt \in [Messages -> 0 .. MaxClock]
  /\ from \in [Messages -> Emails]
  /\ to \in [Messages -> Emails]
  /\ docs \in Seq(Messages)
  /\ writing \subseteq Messages
  /\ reader \in [Readers -> {Idle} \cup Reading]

\* Fault: addresses are stored as they came.
StoredRaw(a) == a

\* The address SaveMessage puts into the document.
Stored(a) == Email[a]

StoreInit ==
  /\ clock = 1
  /\ sentAt = [m \in Messages |-> 0]
  /\ \E t \in [Messages -> Talks] :
       /\ from = [m \in Messages |-> Stored(t[m][1])]
       /\ to = [m \in Messages |-> Stored(t[m][2])]
  /\ docs = <<>>
  /\ writing = {}
  /\ reader = [r \in Readers |-> Idle]

-------------------------------------------------------------------------------
(* SaveMessage                                                                *)

\* The handler calls time.Now().
Stamp(m) ==
  /\ sentAt[m] = 0
  /\ sentAt' = [sentAt EXCEPT ![m] = clock]
  /\ writing' = writing \cup {m}
  /\ UNCHANGED <<clock, from, to, docs, reader>>

\* InsertOne; it may fail with and without inserting.
Insert(m) ==
  /\ m \in writing
  /\ docs' = Append(docs, m) \/ UNCHANGED docs
  /\ writing' = writing \ {m}
  /\ UNCHANGED <<clock, sentAt, from, to, reader>>

-------------------------------------------------------------------------------
(* Queries                                                                    *)

\* The filter of GetMessageHistory: from one of the two to the other.
Between(m, u, v) ==
  \/ from[m] = Email[u] /\ to[m] = Email[v]
  \/ from[m] = Email[v] /\ to[m] = Email[u]

\* The addresses of the filter are normalized, those of the documents are.
Matching(u, v) == {m \in ToSet(docs) : Between(m, u, v)}

\* S in the order SetSort(bson.M{"sent_at": -1}) asks for.
NewestFirst(S) ==
  {q \in SetToSeqs(S) : \A i, j \in DOMAIN q : i < j => sentAt[q[i]] >= sentAt[q[j]]}

\* Fault: bson.M{"sent_at": 1} and no reversal; the limit cuts off the newest.
OldestUpTo(u, v, limit) ==
  {SubSeq(Reverse(q), 1, limit) : q \in {p \in NewestFirst(Matching(u, v)) : Len(p) > limit}}
  \cup {Reverse(q) : q \in {p \in NewestFirst(Matching(u, v)) : Len(p) <= limit}}

Limited(q, limit) == IF Len(q) > limit THEN SubSeq(q, 1, limit) ELSE q

\* Find with sort and limit, cursor.All, and the reversal in place.
GetMessageHistory(u, v, limit) ==
  {Reverse(Limited(q, limit)) : q \in NewestFirst(Matching(u, v))}

\* Fault: the partner is the sender.
PartnerIsSender(m, u) == from[m]

\* $cond: who the conversation is with.
PartnerOf(m, u) == IF from[m] = u THEN to[m] ELSE from[m]

\* Stages 1 and 2, $match and $group: the messages of u with one partner.
GroupOf(u, p) ==
  {m \in ToSet(docs) : u \in {from[m], to[m]} /\ PartnerOf(m, u) = p}

Partners(u) == {p \in Emails : GroupOf(u, p) # {}}

\* The results of $group: one document per partner, with the message that $last
\* picks.  No stage sorts before it, so that this may be any one of the group.
Groups(u) ==
  {{[email |-> p, last |-> pick[p]] : p \in Partners(u)} :
     pick \in {f \in [Partners(u) -> ToSet(docs)] :
                \A p \in Partners(u) : f[p] \in GroupOf(u, p)}}

\* $sort on last_message_at, descending.
LatestFirst(S) ==
  {q \in SetToSeqs(S) :
     \A i, j \in DOMAIN q : i < j => sentAt[q[i].last] >= sentAt[q[j].last]}

\* The pipeline, with $limit.
GetRecentChats(u, limit) ==
  {Limited(q, limit) : q \in UNION {LatestFirst(S) : S \in Groups(u)}}

-------------------------------------------------------------------------------
(* Handlers                                                                   *)

\* The RPC r of user u gets the answer q of its query and starts to stream it.
Answer(r, method, u, v, limit, q) ==
  reader' = [reader EXCEPT ![r] =
    [pc |-> "send", method |-> method, user |-> u, with |-> v, limit |-> limit,
     result |-> q, sent |-> 0, outcome |-> "none", seen |-> Len(docs)]]

\* The query fails: codes.Internal, and nothing is sent.
QueryFails(r, method, u, v, limit) ==
  reader' = [reader EXCEPT ![r] =
    [pc |-> "done", method |-> method, user |-> u, with |-> v, limit |-> limit,
     result |-> <<>>, sent |-> 0, outcome |-> "Internal", seen |-> Len(docs)]]

\* GetHistory: the user of the claims and the partner of the request.
GetHistory(r, u, v) ==
  /\ reader[r].pc = "new"
  /\ \/ \E q \in GetMessageHistory(u, v, HistoryLimit) :
          Answer(r, "GetHistory", u, v, HistoryLimit, q)
     \/ QueryFails(r, "GetHistory", u, v, HistoryLimit)
  /\ UNCHANGED <<clock, sentAt, from, to, docs, writing>>

\* ListChats: a limit of 0 is the default; $limit refuses a negative one.
ListChats(r, u, n) ==
  LET limit == IF n = 0 THEN DefaultLimit ELSE n IN
  /\ reader[r].pc = "new"
  /\ \/ /\ limit > 0
        /\ \E q \in GetRecentChats(u, limit) :
             Answer(r, "ListChats", u, u, limit, q)
     \/ QueryFails(r, "ListChats", u, u, limit)
  /\ UNCHANGED <<clock, sentAt, from, to, docs, writing>>

\* stream.Send of the next element succeeds.
SendNext(r) ==
  /\ reader[r].pc = "send"
  /\ reader[r].sent < Len(reader[r].result)
  /\ reader' = [reader EXCEPT ![r] = [reader[r] EXCEPT !.sent = reader[r].sent + 1]]
  /\ UNCHANGED <<clock, sentAt, from, to, docs, writing>>

\* Fault: the loop ends at a failed Send, and the handler returns nil.
SendFailsSilently(r) ==
  /\ reader[r].pc = "send"
  /\ reader[r].sent < Len(reader[r].result)
  /\ reader' = [reader EXCEPT ![r] =
       [reader[r] EXCEPT !.pc = "done", !.outcome = "OK"]]
  /\ UNCHANGED <<clock, sentAt, from, to, docs, writing>>

\* stream.Send fails: codes.Internal.
SendFails(r) ==
  /\ reader[r].pc = "send"
  /\ reader[r].sent < Len(reader[r].result)
  /\ reader' = [reader EXCEPT ![r] =
       [reader[r] EXCEPT !.pc = "done", !.outcome = "Internal"]]
  /\ UNCHANGED <<clock, sentAt, from, to, docs, writing>>

\* The loop is over: return nil.
SentAll(r) ==
  /\ reader[r].pc = "send"
  /\ reader[r].sent = Len(reader[r].result)
  /\ reader' = [reader EXCEPT ![r] =
       [reader[r] EXCEPT !.pc = "done", !.outcome = "OK"]]
  /\ UNCHANGED <<clock, sentAt, from, to, docs, writing>>

\* The process ends: its handlers with it, the saves that have not reached the
\* collection and the answers that were under way.
ProcessEnds ==
  /\ writing' = {}
  /\ reader' = [r \in Readers |->
       IF reader[r].pc = "send"
       THEN [reader[r] EXCEPT !.pc = "done", !.outcome = "Unavailable"]
       ELSE reader[r]]
  /\ UNCHANGED <<clock, sentAt, from, to, docs>>

\* GetRecentChats takes the results apart with unchecked type assertions.  What
\* the driver decodes a document or a date to is not in this repository: where
\* it is another type than the code names, the assertion on the first result
\* panics, and no handler or interceptor recovers.
AssertionPanics(r, u, n) ==
  /\ reader[r].pc = "new"
  /\ n >= 0
  /\ Partners(u) # {}
  /\ ProcessEnds

\* The process is killed; it is started again over the same collection.
Kill == ProcessEnds

Tick ==
  /\ clock < MaxClock
  /\ clock' = clock + 1
  /\ UNCHANGED <<sentAt, from, to, docs, writing, reader>>

StoreNext ==
  \/ \E m \in Messages : Stamp(m) \/ Insert(m)
  \/ \E r \in Readers :
       \/ \E u \in Emails, v \in Addrs : GetHistory(r, u, v)
       \/ \E u \in Emails, n \in Limits : ListChats(r, u, n) \/ AssertionPanics(r, u, n)
       \/ SendNext(r) \/ SendFails(r) \/ SentAll(r)
  \/ Kill
  \/ Tick

StoreSpec == StoreInit /\ [][StoreNext]_storeVars

-------------------------------------------------------------------------------
(* Properties.  What a query promises is said of the documents that were in   *)
(* the collection when it ran, without sorting or cutting anything.           *)

\* The documents r's query could see.
Seen(r) == {docs[i] : i \in 1 .. reader[r].seen}

\* What the client has received.
Received(r) == SubSeq(reader[r].result, 1, reader[r].sent)

Served(r, method) ==
  /\ reader[r].pc = "done"
  /\ reader[r].method = method
  /\ reader[r].outcome = "OK"

\* The messages of a conversation, as a set of two addresses.
Conversation(r) ==
  {m \in Seen(r) : {from[m], to[m]} = {reader[r].user, Email[reader[r].with]}}

\* The newest messages of the conversation, as many as there are up to the limit,
\* oldest first and each once.
NewestOf(r, got) ==
  /\ \A i, j \in DOMAIN got : i < j => /\ got[i] # got[j]
                                       /\ sentAt[got[i]] <= sentAt[got[j]]
  /\ ToSet(got) \subseteq Conversation(r)
  /\ \A m \in Conversation(r) \ ToSet(got) :
       /\ Len(got) = reader[r].limit
       /\ \A i \in DOMAIN got : sentAt[m] <= sentAt[got[i]]

(* GetHistory (messages.go:52-58): a client that is answered OK has received *)
(* the newest messages of the conversation, as many as there are up to the   *)
(* limit, oldest first, also while messages are saved and the stream runs,   *)
(* and over panics and kills of the process.                                 *)
HistoryIsNewest ==
  \A r \in Readers : Served(r, "GetHistory") => NewestOf(r, Received(r))

\* The messages that r's user sent or received, and those with one partner.
Mine(r) == {m \in Seen(r) : reader[r].user \in {from[m], to[m]}}
With(r, p) == {m \in Mine(r) : {from[m], to[m]} = {reader[r].user, p}}

\* Each partner once, with a message of that conversation, and all of them
\* unless there are more than the limit.
PartnersOf(r, got) ==
  /\ \A i, j \in DOMAIN got : got[i].email = got[j].email => i = j
  /\ \A i \in DOMAIN got : got[i].last \in With(r, got[i].email)
  /\ Len(got) <= reader[r].limit
  /\ \A p \in Emails :
       With(r, p) # {} /\ Len(got) < reader[r].limit =>
         \E i \in DOMAIN got : got[i].email = p

(* ListChats (messages.go:109-112): a client that is answered OK has received*)
(* each partner once, with a message of that conversation, and all partners  *)
(* unless there are more than the limit.                                     *)
PartnersOnce ==
  \A r \in Readers : Served(r, "ListChats") => PartnersOf(r, Received(r))

\* The inductive invariant behind these: the documents and the messages being
\* saved have their time, and the answer that a reader is streaming or has
\* streamed was right when its query ran, and still is.
AnswerInv(r) ==
  reader[r].pc # "new" =>
    /\ reader[r].seen <= Len(docs)
    /\ reader[r].sent <= Len(reader[r].result)
    /\ reader[r].pc = "send" => reader[r].outcome = "none"
    /\ reader[r].outcome = "OK" => reader[r].sent = Len(reader[r].result)
    /\ reader[r].outcome # "Internal" /\ reader[r].method = "GetHistory" =>
         NewestOf(r, reader[r].result)
    /\ reader[r].outcome # "Internal" /\ reader[r].method = "ListChats" =>
         PartnersOf(r, reader[r].result)

StoreInv ==
  /\ StoreTypeOK
  /\ \A m \in ToSet(docs) \cup writing : sentAt[m] # 0
  /\ \A r \in Readers : AnswerInv(r)

\* The message shown for a partner is the newest of the conversation.
ShowsNewest(r, got) ==
  \A i \in DOMAIN got :
    \A m \in With(r, got[i].email) : sentAt[m] <= sentAt[got[i].last]

\* Each message shown is the one of its conversation that was inserted last.
LastInserted(r, got) ==
  \A i \in DOMAIN got : \E k \in 1 .. reader[r].seen :
    /\ docs[k] = got[i].last
    /\ \A j \in (k + 1) .. reader[r].seen : docs[j] \notin With(r, got[i].email)

(* "For each unique partner, collect the last message" (messages.go:128,     *)
(* also 109): the last one that was sent, if $group at least reads messages  *)
(* in the order of their insertion, which nothing in the pipeline asks for.  *)
LastMessageIsNewest ==
  \A r \in Readers :
    Served(r, "ListChats") /\ LastInserted(r, Received(r)) => ShowsNewest(r, Received(r))

================================================================================
