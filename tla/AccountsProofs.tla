----------------------------- MODULE AccountsProofs -----------------------------
(*****************************************************************************)
(* Proofs about Accounts, for any number of calls, accounts, keys and        *)
(* environments.  AccountsInv is inductive; the properties of the answers,   *)
(* the tokens and the streams follow from it.                                *)
(*                                                                           *)
(* Most steps belong to one call and change only its record: QuietStep says  *)
(* that they keep the invariant when they keep that call's part of it.       *)
(* OthersKept is the reason: what is said of a call is kept while documents  *)
(* of other calls are added and tokens age.                                  *)
(*****************************************************************************)
EXTENDS Accounts, TLAPS

Records == {New, Rejected} \cup RegisterCall \cup LoginCall \cup StreamCall

\* normalize.Email is idempotent and stays among the addresses.
LEMMA EmailFacts ==
  \A a \in Addrs : Email[a] \in Addrs /\ Email[Email[a]] = Email[a]
BY AuthAssumption DEF AuthAssumption

\* A call's record says which kind of call it is.
LEMMA RecordKinds ==
  ASSUME NEW r \in Records
  PROVE  /\ r.pc \in {"new", "rejected", "create", "registered", "find", "check",
                      "checked", "stream", "done"}
         /\ r.pc \in {"create", "registered"} => r \in RegisterCall
         /\ r.pc \in {"find", "check", "checked"} => r \in LoginCall
         /\ r.pc = "stream" => r \in StreamCall
         /\ r.pc = "done" => r \in RegisterCall \cup LoginCall \cup StreamCall
         /\ r.pc = "done" /\ r.method = "Register" => r \in RegisterCall
         /\ r.pc = "done" /\ r.method = "Login" => r \in LoginCall
BY DEF Records, New, Rejected, RegisterCall, LoginCall, StreamCall

\* Documents are only added, none of them by d, and with an _id of their own.
UsersGrow(d) ==
  /\ users \subseteq users'
  /\ \A u \in users' \ users : u.id # d /\ \A v \in users : v.id # u.id

\* A token that was returned stays its user's.
TokenKept(c) ==
  token[c] # NoToken => token'[c] # NoToken /\ token'[c].user = token[c].user

-------------------------------------------------------------------------------

\* What is said of a call stays true while others act.
LEMMA CallKept ==
  ASSUME NEW d \in Calls, rpc[d] \in Records, rpc'[d] = rpc[d],
         UsersGrow(d), TokenKept(d), CallInv(d)
  PROVE  CallInv(d)'
<1>1. rpc[d].pc \in {"new", "create"} => \A u \in users' : u.id # d
  BY DEF CallInv, NoEarlyAccount, UsersGrow
<1>2. NoEarlyAccount(d)'
  BY <1>1 DEF NoEarlyAccount
<1>3. NewUser(d)' = NewUser(d)
  BY DEF NewUser
<1>4. RegisterStored(d)'
  BY <1>3 DEF CallInv, RegisterStored, Answered, UsersGrow
<1>5. \A u : Finds(d, u) => Finds(d, u)'
  BY DEF Finds, UsersGrow
<1>6. Matches(d) => Matches(d)'
  BY DEF Matches, UsersGrow
<1>7. ASSUME NEW u \in users, u.id = rpc[d].user
      PROVE  Matches(d)' => Matches(d)
  <2>1. \A v \in users' \ users : v.id # u.id
    BY DEF UsersGrow
  <2> QED
    BY <1>7, <2>1 DEF Matches
<1>8. LoginOfAccount(d)'
  <2>1. LoginOfAccount(d)
    BY DEF CallInv
  <2>2. ASSUME \/ rpc[d].pc \in {"check", "checked"}
               \/ Answered(d, "Login", "OK")
               \/ Answered(d, "Login", "PermissionDenied")
        PROVE  \E u \in users' : u.id = rpc'[d].user /\ Finds(d, u)'
    <3>1. PICK u \in users : u.id = rpc[d].user /\ Finds(d, u)
      BY <2>1, <2>2 DEF LoginOfAccount
    <3> QED
      BY <3>1, <1>5 DEF UsersGrow
  <2>3. rpc[d].pc = "checked" \/ Answered(d, "Login", "OK") => Matches(d)'
    BY <2>1, <1>6 DEF LoginOfAccount
  <2>4. Answered(d, "Login", "PermissionDenied") => ~Matches(d)'
    <3> SUFFICES ASSUME Answered(d, "Login", "PermissionDenied")
                 PROVE  ~Matches(d)'
      OBVIOUS
    <3>1. PICK u \in users : u.id = rpc[d].user /\ Finds(d, u)
      BY <2>1 DEF LoginOfAccount
    <3>2. ~Matches(d)
      BY <2>1 DEF LoginOfAccount
    <3> QED
      BY <3>1, <3>2, <1>7
  <2>5. Answered(d, "Login", "OK") =>
          token'[d] # NoToken /\ token'[d].user = rpc[d].user
    BY <2>1 DEF LoginOfAccount, TokenKept
  <2> QED
    BY <2>2, <2>3, <2>4, <2>5 DEF LoginOfAccount, Answered
<1>9. LoginFinds(d)'
  BY DEF CallInv, LoginFinds, Answered, HasAccount, UsersGrow
<1>10. StreamOfAccount(d)'
  BY DEF CallInv, StreamOfAccount, UsersGrow
<1> QED
  BY <1>2, <1>4, <1>8, <1>9, <1>10 DEF CallInv

-------------------------------------------------------------------------------

\* A step of c that changes nothing but its record.
LEMMA QuietStep ==
  ASSUME AccountsInv, NEW c \in Calls, NEW r \in Records,
         rpc' = [rpc EXCEPT ![c] = r],
         UNCHANGED <<authVars, users>>,
         CallInv(c)'
  PROVE  AccountsInv'
<1>1. rpc \in [Calls -> Records]
  BY DEF AccountsInv, AccountsTypeOK, Records
<1>2. rpc' \in [Calls -> Records]
  BY <1>1
<1>3. AccountsTypeOK'
  BY <1>2 DEF AccountsInv, AccountsTypeOK, AuthTypeOK, authVars, Records
<1>4. KeysOfConfig' /\ UniqueAccounts' /\ TokensOfAccounts'
  BY DEF AccountsInv, KeysOfConfig, UniqueAccounts, TokensOfAccounts, authVars
<1>5. ASSUME NEW d \in Calls, d # c
      PROVE  CallInv(d)'
  <2>1. rpc'[d] = rpc[d] /\ rpc[d] \in Records
    BY <1>1, <1>5
  <2>2. UsersGrow(d) /\ TokenKept(d)
    BY DEF UsersGrow, TokenKept, authVars
  <2>3. CallInv(d)
    BY DEF AccountsInv
  <2> QED
    BY <2>1, <2>2, <2>3, CallKept
<1> QED
  BY <1>3, <1>4, <1>5 DEF AccountsInv

\* Records, and what holds of the call c when it is r.
LEMMA RecordSet ==
  ASSUME AccountsInv, NEW c \in Calls, NEW r, rpc' = [rpc EXCEPT ![c] = r]
  PROVE  rpc'[c] = r /\ rpc[c] \in Records
BY DEF AccountsInv, AccountsTypeOK, Records

LEMMA RegisterBeginStep ==
  ASSUME AccountsInv, NEW c \in Calls, NEW a \in Addrs, NEW p \in Passwords,
         RegisterBegin(c, a, p)
  PROVE  AccountsInv'
<1>1. PICK r \in RegisterCall :
        /\ rpc' = [rpc EXCEPT ![c] = r]
        /\ r.pc \in {"create", "done"}
        /\ r.user = c
        /\ r.pc = "done" => r.outcome = "Internal"
        /\ r.method = "Register"
  <2> DEFINE q == [pc |-> IF Hashes(p) THEN "create" ELSE "done",
                   method |-> "Register", email |-> a, password |-> p, user |-> c,
                   outcome |-> IF Hashes(p) THEN "none" ELSE "Internal"]
  <2>1. q \in RegisterCall
    BY AccountsAssumption DEF RegisterCall, Outcomes, AccountsAssumption
  <2>2. rpc' = [rpc EXCEPT ![c] = q]
    BY DEF RegisterBegin
  <2>3. /\ q.pc \in {"create", "done"} /\ q.user = c /\ q.method = "Register"
        /\ q.pc = "done" => q.outcome = "Internal"
    OBVIOUS
  <2> HIDE DEF q
  <2> QED
    BY <2>1, <2>2, <2>3
<1>2. rpc'[c] = r
  BY <1>1, RecordSet
<1>3. rpc[c].pc = "new"
  BY DEF RegisterBegin, At
<1>4. UNCHANGED <<authVars, users>>
  BY DEF RegisterBegin
<1>5. \A u \in users : u.id # c
  BY <1>3 DEF AccountsInv, CallInv, NoEarlyAccount
<1>6. CallInv(c)'
  BY <1>1, <1>2, <1>4, <1>5
  DEF CallInv, NoEarlyAccount, RegisterStored, LoginOfAccount, LoginFinds,
      StreamOfAccount, Answered
<1>7. r \in Records
  BY DEF Records
<1> QED
  BY <1>1, <1>4, <1>6, <1>7, QuietStep

LEMMA LoginBeginStep ==
  ASSUME AccountsInv, NEW c \in Calls, NEW a \in Addrs, NEW p \in Passwords,
         LoginBegin(c, a, p)
  PROVE  AccountsInv'
<1>1. PICK r \in LoginCall :
        /\ rpc' = [rpc EXCEPT ![c] = r]
        /\ r.pc = "find"
        /\ r.known = HasAccount(a)
        /\ r.email = a
  <2> DEFINE q == [pc |-> "find", method |-> "Login", email |-> a, password |-> p,
                   user |-> c, outcome |-> "none", known |-> HasAccount(a),
                   dbError |-> FALSE]
  <2>1. HasAccount(a) \in BOOLEAN
    BY DEF HasAccount
  <2>2. q \in LoginCall
    BY <2>1, AccountsAssumption DEF LoginCall, Outcomes, AccountsAssumption
  <2>3. rpc' = [rpc EXCEPT ![c] = q]
    BY DEF LoginBegin
  <2>4. q.pc = "find" /\ q.known = HasAccount(a) /\ q.email = a
    OBVIOUS
  <2> HIDE DEF q
  <2> QED
    BY <2>2, <2>3, <2>4
<1>2. rpc'[c] = r
  BY <1>1, RecordSet
<1>3. UNCHANGED <<authVars, users>>
  BY DEF LoginBegin
<1>4. CallInv(c)'
  BY <1>1, <1>2, <1>3
  DEF CallInv, NoEarlyAccount, RegisterStored, LoginOfAccount, LoginFinds,
      StreamOfAccount, Answered, HasAccount
<1>5. r \in Records
  BY DEF Records
<1> QED
  BY <1>1, <1>3, <1>4, <1>5, QuietStep

LEMMA FindUserStep ==
  ASSUME AccountsInv, NEW c \in Calls, FindUser(c)
  PROVE  AccountsInv'
<1>1. rpc[c].pc = "find" /\ UNCHANGED <<authVars, users>>
  BY DEF FindUser, At
<1>2. rpc[c] \in LoginCall
  BY <1>1, RecordKinds DEF AccountsInv, AccountsTypeOK, Records
<1>3. CASE \E u \in users : /\ Finds(c, u)
                           /\ rpc' = [rpc EXCEPT ![c] =
                                [rpc[c] EXCEPT !.pc = "check", !.user = u.id]]
  <2>1. PICK u \in users : /\ Finds(c, u)
                           /\ rpc' = [rpc EXCEPT ![c] =
                                [rpc[c] EXCEPT !.pc = "check", !.user = u.id]]
    BY <1>3
  <2>2. u.id \in Holders
    BY DEF AccountsInv, AccountsTypeOK, User
  <2>3. PICK r \in LoginCall : /\ rpc' = [rpc EXCEPT ![c] = r]
                              /\ r.pc = "check"
                              /\ r.user = u.id
                              /\ r.email = rpc[c].email
    <3> DEFINE q == [rpc[c] EXCEPT !.pc = "check", !.user = u.id]
    <3>1. q \in LoginCall
      BY <1>2, <2>2 DEF LoginCall
    <3>2. q.pc = "check" /\ q.user = u.id /\ q.email = rpc[c].email
      BY <1>2 DEF LoginCall
    <3>3. rpc' = [rpc EXCEPT ![c] = q]
      BY <2>1
    <3> HIDE DEF q
    <3> QED
      BY <3>1, <3>2, <3>3
  <2>4. rpc'[c] = r
    BY <2>3, RecordSet
  <2>5. CallInv(c)'
    BY <1>1, <2>1, <2>3, <2>4
    DEF CallInv, NoEarlyAccount, RegisterStored, LoginOfAccount, LoginFinds,
        StreamOfAccount, Answered, Finds
  <2>6. r \in Records
    BY DEF Records
  <2> QED
    BY <1>1, <2>3, <2>5, <2>6, QuietStep
<1>4. CASE \/ (~\E u \in users : Finds(c, u)) /\ Answer(c, "NotFound")
           \/ rpc' = [rpc EXCEPT ![c] =
                [rpc[c] EXCEPT !.pc = "done", !.outcome = "NotFound",
                               !.dbError = TRUE]]
  <2>1. PICK r \in LoginCall :
          /\ rpc' = [rpc EXCEPT ![c] = r]
          /\ r.pc = "done"
          /\ r.outcome = "NotFound"
          /\ r.known = rpc[c].known
          /\ r.dbError \/ ~\E u \in users : Finds(c, u)
    <3>1. CASE (~\E u \in users : Finds(c, u)) /\ Answer(c, "NotFound")
      <4> DEFINE q == [rpc[c] EXCEPT !.pc = "done", !.outcome = "NotFound"]
      <4>1. q \in LoginCall
        BY <1>2 DEF LoginCall, Outcomes
      <4>2. q.pc = "done" /\ q.outcome = "NotFound" /\ q.known = rpc[c].known
        BY <1>2 DEF LoginCall
      <4>3. rpc' = [rpc EXCEPT ![c] = q]
        BY <3>1 DEF Answer
      <4> HIDE DEF q
      <4> QED
        BY <3>1, <4>1, <4>2, <4>3
    <3>2. CASE rpc' = [rpc EXCEPT ![c] =
                 [rpc[c] EXCEPT !.pc = "done", !.outcome = "NotFound",
                                !.dbError = TRUE]]
      <4> DEFINE q == [rpc[c] EXCEPT !.pc = "done", !.outcome = "NotFound",
                                     !.dbError = TRUE]
      <4>1. q \in LoginCall
        BY <1>2 DEF LoginCall, Outcomes
      <4>2. /\ q.pc = "done" /\ q.outcome = "NotFound" /\ q.known = rpc[c].known
            /\ q.dbError
        BY <1>2 DEF LoginCall
      <4>3. rpc' = [rpc EXCEPT ![c] = q]
        BY <3>2
      <4> HIDE DEF q
      <4> QED
        BY <4>1, <4>2, <4>3
    <3> QED
      BY <1>4, <3>1, <3>2
  <2>2. rpc'[c] = r
    BY <2>1, RecordSet
  <2>3. rpc[c].known => \E u \in users : Finds(c, u)
    BY <1>1 DEF AccountsInv, CallInv, LoginFinds, HasAccount, Finds
  <2>4. CallInv(c)'
    BY <1>1, <2>1, <2>2, <2>3
    DEF CallInv, NoEarlyAccount, RegisterStored, LoginOfAccount, LoginFinds,
        StreamOfAccount, Answered, LoginCall
  <2>5. r \in Records
    BY DEF Records
  <2> QED
    BY <1>1, <2>1, <2>4, <2>5, QuietStep
<1> QED
  BY <1>3, <1>4 DEF FindUser

LEMMA CheckPasswordStep ==
  ASSUME AccountsInv, NEW c \in Calls, CheckPassword(c)
  PROVE  AccountsInv'
<1>1. rpc[c].pc = "check" /\ UNCHANGED <<authVars, users>>
  BY DEF CheckPassword, At
<1>2. rpc[c] \in LoginCall
  BY <1>1, RecordKinds DEF AccountsInv, AccountsTypeOK, Records
<1>3. PICK r \in LoginCall :
        /\ rpc' = [rpc EXCEPT ![c] = r]
        /\ r.user = rpc[c].user /\ r.email = rpc[c].email
        /\ r.password = rpc[c].password
        /\ \/ r.pc = "checked" /\ Matches(c)
           \/ r.pc = "done" /\ r.outcome = "PermissionDenied" /\ ~Matches(c)
  <2>1. CASE Matches(c) /\ Goto(c, "checked")
    <3> DEFINE q == [rpc[c] EXCEPT !.pc = "checked"]
    <3>1. q \in LoginCall
      BY <1>2 DEF LoginCall
    <3>2. /\ q.user = rpc[c].user /\ q.email = rpc[c].email
          /\ q.password = rpc[c].password /\ q.pc = "checked"
      BY <1>2 DEF LoginCall
    <3>3. rpc' = [rpc EXCEPT ![c] = q]
      BY <2>1 DEF Goto
    <3> HIDE DEF q
    <3> QED
      BY <2>1, <3>1, <3>2, <3>3
  <2>2. CASE ~Matches(c) /\ Answer(c, "PermissionDenied")
    <3> DEFINE q == [rpc[c] EXCEPT !.pc = "done", !.outcome = "PermissionDenied"]
    <3>1. q \in LoginCall
      BY <1>2 DEF LoginCall, Outcomes
    <3>2. /\ q.user = rpc[c].user /\ q.email = rpc[c].email
          /\ q.password = rpc[c].password /\ q.pc = "done"
          /\ q.outcome = "PermissionDenied"
      BY <1>2 DEF LoginCall
    <3>3. rpc' = [rpc EXCEPT ![c] = q]
      BY <2>2 DEF Answer
    <3> HIDE DEF q
    <3> QED
      BY <2>2, <3>1, <3>2, <3>3
  <2> QED
    BY <2>1, <2>2 DEF CheckPassword
<1>4. rpc'[c] = r
  BY <1>3, RecordSet
<1>5. \E u \in users : u.id = rpc[c].user /\ Finds(c, u)
  BY <1>1 DEF AccountsInv, CallInv, LoginOfAccount
<1>6. Matches(c)' = Matches(c)
  BY <1>1, <1>3, <1>4 DEF Matches
<1>7. \E u \in users' : u.id = rpc'[c].user /\ Finds(c, u)'
  BY <1>1, <1>3, <1>4, <1>5 DEF Finds
<1>8. CallInv(c)'
  BY <1>3, <1>4, <1>6, <1>7
  DEF CallInv, NoEarlyAccount, RegisterStored, LoginOfAccount, LoginFinds,
      StreamOfAccount, Answered, LoginCall
<1>9. r \in Records
  BY DEF Records
<1> QED
  BY <1>1, <1>3, <1>8, <1>9, QuietStep

\* The insert of c, with either outcome of the call.
LEMMA InsertStep ==
  ASSUME AccountsInv, NEW c \in Calls, NEW r \in RegisterCall,
         rpc[c].pc = "create", InsertUser(c), UNCHANGED authVars,
         rpc' = [rpc EXCEPT ![c] = r],
         r.email = rpc[c].email, r.password = rpc[c].password, r.user = c,
         \/ r.pc = "registered"
         \/ r.pc = "done" /\ r.outcome = "Internal"
  PROVE  AccountsInv'
<1>1. rpc'[c] = r /\ rpc[c] \in Records
  BY RecordSet
<1>2. rpc[c] \in RegisterCall
  BY <1>1, RecordKinds
<1>3. \A v \in users : v.id # c
  BY DEF AccountsInv, CallInv, NoEarlyAccount
<1>4. NewUser(c) \in User
  BY <1>2, EmailFacts, AccountsAssumption
  DEF NewUser, User, RegisterCall, AccountsAssumption
<1>5. NewUser(c).id = c /\ NewUser(c).email = Email[rpc[c].email]
  BY DEF NewUser
<1>6. users' = users \cup {NewUser(c)} /\ ~HasAccount(rpc[c].email)
  BY DEF InsertUser
<1>7. rpc' \in [Calls -> Records]
  BY DEF AccountsInv, AccountsTypeOK, Records
<1>8. AccountsTypeOK'
  BY <1>4, <1>6, <1>7 DEF AccountsInv, AccountsTypeOK, AuthTypeOK, authVars, Records
<1>9. KeysOfConfig'
  BY DEF AccountsInv, KeysOfConfig, authVars
<1>10. UniqueAccounts'
  BY <1>3, <1>5, <1>6 DEF AccountsInv, UniqueAccounts, HasAccount
<1>11. TokensOfAccounts'
  BY <1>6 DEF AccountsInv, TokensOfAccounts, authVars
<1>12. ASSUME NEW d \in Calls, d # c
       PROVE  CallInv(d)'
  <2>1. rpc'[d] = rpc[d] /\ rpc[d] \in Records
    BY <1>12 DEF AccountsInv, AccountsTypeOK, Records
  <2>2. UsersGrow(d)
    BY <1>3, <1>5, <1>6, <1>12 DEF UsersGrow
  <2>3. TokenKept(d)
    BY DEF TokenKept, authVars
  <2>4. CallInv(d)
    BY DEF AccountsInv
  <2> QED
    BY <2>1, <2>2, <2>3, <2>4, CallKept
<1>13. CallInv(c)'
  <2>1. NewUser(c)' \in users'
    BY <1>1, <1>6 DEF NewUser
  <2> QED
    BY <1>1, <2>1
    DEF CallInv, NoEarlyAccount, RegisterStored, LoginOfAccount, LoginFinds,
        StreamOfAccount, Answered, RegisterCall
<1> QED
  BY <1>8, <1>9, <1>10, <1>11, <1>12, <1>13 DEF AccountsInv

LEMMA CreateUserStep ==
  ASSUME AccountsInv, NEW c \in Calls, CreateUser(c)
  PROVE  AccountsInv'
<1>1. rpc[c].pc = "create" /\ UNCHANGED authVars
  BY DEF CreateUser, At
<1>2. rpc[c] \in RegisterCall
  BY <1>1, RecordKinds DEF AccountsInv, AccountsTypeOK, Records
<1>3. rpc[c].user = c
  BY <1>1 DEF AccountsInv, CallInv, RegisterStored
<1>4. CASE InsertUser(c) /\ Goto(c, "registered")
  <2> DEFINE q == [rpc[c] EXCEPT !.pc = "registered"]
  <2>1. q \in RegisterCall
    BY <1>2 DEF RegisterCall
  <2>2. /\ q.pc = "registered" /\ q.user = c /\ q.email = rpc[c].email
        /\ q.password = rpc[c].password
    BY <1>2, <1>3 DEF RegisterCall
  <2>3. rpc' = [rpc EXCEPT ![c] = q]
    BY <1>4 DEF Goto
  <2> HIDE DEF q
  <2> QED
    BY <1>1, <1>4, <2>1, <2>2, <2>3, InsertStep
<1>5. ASSUME Answer(c, "Internal")
      PROVE  \E q \in RegisterCall :
               /\ rpc' = [rpc EXCEPT ![c] = q]
               /\ q.pc = "done" /\ q.outcome = "Internal" /\ q.user = c
               /\ q.email = rpc[c].email /\ q.password = rpc[c].password
  <2> DEFINE q == [rpc[c] EXCEPT !.pc = "done", !.outcome = "Internal"]
  <2>1. q \in RegisterCall
    BY <1>2 DEF RegisterCall, Outcomes
  <2>2. /\ q.pc = "done" /\ q.outcome = "Internal" /\ q.user = c
        /\ q.email = rpc[c].email /\ q.password = rpc[c].password
    BY <1>2, <1>3 DEF RegisterCall
  <2>3. rpc' = [rpc EXCEPT ![c] = q]
    BY <1>5 DEF Answer
  <2> HIDE DEF q
  <2> QED
    BY <2>1, <2>2, <2>3
<1>6. CASE InsertUser(c) /\ Answer(c, "Internal")
  BY <1>1, <1>5, <1>6, InsertStep
<1>7. CASE UNCHANGED users /\ Answer(c, "Internal")
  <2>1. PICK q \in RegisterCall :
               /\ rpc' = [rpc EXCEPT ![c] = q]
               /\ q.pc = "done" /\ q.outcome = "Internal"
    BY <1>5, <1>7
  <2>2. rpc'[c] = q
    BY <2>1, RecordSet
  <2>3. CallInv(c)'
    BY <2>1, <2>2
    DEF CallInv, NoEarlyAccount, RegisterStored, LoginOfAccount, LoginFinds,
        StreamOfAccount, Answered, RegisterCall
  <2>4. q \in Records
    BY DEF Records
  <2> QED
    BY <1>1, <1>7, <2>1, <2>3, <2>4, QuietStep
<1> QED
  BY <1>4, <1>6, <1>7 DEF CreateUser

-------------------------------------------------------------------------------

\* GenerateToken makes a token of the user and the address it is given.
LEMMA NewTokenFacts ==
  ASSUME AccountsInv, CanSign, NEW h \in Holders, NEW a \in Addrs
  PROVE  /\ NewToken(h, a) \in Token
         /\ NewToken(h, a) # NoToken
         /\ NewToken(h, a).user = h
         /\ NewToken(h, a).email = Email[a]
<1>1. active \in Kids /\ keys[active] \in Secrets
  BY DEF CanSign, AccountsInv, AccountsTypeOK, AuthTypeOK
<1>2. Email[a] \in Addrs
  BY EmailFacts
<1>3. Duration \in 0 .. Duration
  BY AuthAssumption DEF AuthAssumption
<1>4. NewToken(h, a) \in Token
  BY <1>1, <1>2, <1>3 DEF NewToken, Token
<1> QED
  BY <1>4, AuthAssumption DEF NewToken, AuthAssumption

\* A call ends with OK and a token, or with Internal and without one.
LEMMA ReturnEffect ==
  ASSUME AccountsInv, NEW c \in Calls,
         rpc[c].pc \in {"registered", "checked"},
         ReturnToken(c), UNCHANGED <<up, config, keys, active, users>>
  PROVE  \E q \in Records, code \in {"OK", "Internal"} :
           /\ rpc' = [rpc EXCEPT ![c] = q]
           /\ rpc'[c] = q
           /\ q.pc = "done" /\ q.outcome = code /\ q.method = rpc[c].method
           /\ q.user = rpc[c].user
           /\ q.email = rpc[c].email /\ q.password = rpc[c].password
           /\ token' \in [Holders -> Token \cup {NoToken}]
           /\ \A h \in Holders \ {c} : token'[h] = token[h]
           /\ token'[c] # token[c] => code = "OK"
           /\ code = "OK" => /\ token'[c] # NoToken
                             /\ token'[c].user = rpc[c].user
                             /\ token'[c].email = Email[rpc[c].email]
<1>1. rpc[c] \in RegisterCall \/ rpc[c] \in LoginCall
  BY RecordKinds DEF AccountsInv, AccountsTypeOK, Records
<1>2. PICK code \in {"OK", "Internal"} : Answer(c, code)
  BY DEF ReturnToken
<1> DEFINE q == [rpc[c] EXCEPT !.pc = "done", !.outcome = code]
<1>3. q \in Records
  BY <1>1 DEF Records, RegisterCall, LoginCall, Outcomes
<1>4. /\ q.pc = "done" /\ q.outcome = code /\ q.method = rpc[c].method
      /\ q.user = rpc[c].user
      /\ q.email = rpc[c].email /\ q.password = rpc[c].password
  BY <1>1 DEF RegisterCall, LoginCall
<1>5. rpc' = [rpc EXCEPT ![c] = q]
  BY <1>2 DEF Answer
<1> HIDE DEF q
<1>6. rpc'[c] = q /\ rpc' \in [Calls -> Records]
  BY <1>3, <1>5 DEF AccountsInv, AccountsTypeOK, Records
<1>7. rpc[c].email \in Addrs /\ rpc[c].user \in Holders
  BY <1>1 DEF RegisterCall, LoginCall
<1>8. \/ /\ code = "Internal"
         /\ token' = token
      \/ /\ CanSign /\ code = "OK"
         /\ token' = [token EXCEPT ![c] = NewToken(rpc[c].user, rpc[c].email)]
  <2>1. ASSUME NEW other \in {"OK", "Internal"}, Answer(c, other) PROVE code = other
    <3>1. rpc'[c].outcome = other
      BY <1>1, <2>1 DEF Answer, AccountsInv, AccountsTypeOK, RegisterCall, LoginCall
    <3> QED
      BY <1>4, <1>6, <3>1
  <2> QED
    BY <2>1 DEF ReturnToken
<1>9. /\ token' \in [Holders -> Token \cup {NoToken}]
      /\ \A h \in Holders \ {c} : token'[h] = token[h]
      /\ token'[c] # token[c] => code = "OK"
      /\ code = "OK" =>
           /\ token'[c] # NoToken
           /\ token'[c].user = rpc[c].user
           /\ token'[c].email = Email[rpc[c].email]
  <2>1. token \in [Holders -> Token \cup {NoToken}] /\ c \in Holders
    BY AccountsAssumption DEF AccountsInv, AccountsTypeOK, AuthTypeOK, AccountsAssumption
  <2>2. CASE code = "Internal" /\ token' = token
    BY <2>1, <2>2
  <2>3. CASE /\ CanSign /\ code = "OK"
             /\ token' = [token EXCEPT ![c] = NewToken(rpc[c].user, rpc[c].email)]
    BY <1>7, <2>1, <2>3, NewTokenFacts
  <2> QED
    BY <1>8, <2>2, <2>3
<1> QED
  BY <1>3, <1>4, <1>5, <1>6, <1>9

\* So the end of either handler keeps the invariant.
LEMMA ReturnStep ==
  ASSUME AccountsInv, NEW c \in Calls,
         rpc[c].pc \in {"registered", "checked"},
         ReturnToken(c), UNCHANGED <<up, config, keys, active, users>>
  PROVE  AccountsInv'
<1>1. rpc[c] \in RegisterCall \/ rpc[c] \in LoginCall
  BY RecordKinds DEF AccountsInv, AccountsTypeOK, Records
<1>2. PICK q \in Records, code \in {"OK", "Internal"} :
        /\ rpc' = [rpc EXCEPT ![c] = q]
        /\ rpc'[c] = q
        /\ q.pc = "done" /\ q.outcome = code /\ q.method = rpc[c].method
        /\ q.user = rpc[c].user
        /\ q.email = rpc[c].email /\ q.password = rpc[c].password
        /\ token' \in [Holders -> Token \cup {NoToken}]
        /\ \A h \in Holders \ {c} : token'[h] = token[h]
        /\ token'[c] # token[c] => code = "OK"
        /\ code = "OK" => /\ token'[c] # NoToken
                          /\ token'[c].user = rpc[c].user
                          /\ token'[c].email = Email[rpc[c].email]
  BY ReturnEffect
<1>3. rpc' \in [Calls -> Records]
  BY <1>2 DEF AccountsInv, AccountsTypeOK, Records
<1>4. rpc[c].email \in Addrs /\ rpc[c].user \in Holders
  BY <1>1 DEF RegisterCall, LoginCall
<1>5. /\ rpc[c] \in RegisterCall => rpc[c].pc = "registered" /\ rpc[c].method = "Register"
      /\ rpc[c] \in LoginCall => rpc[c].pc = "checked" /\ rpc[c].method = "Login"
  BY DEF RegisterCall, LoginCall
<1>6. \E u \in users : u.id = rpc[c].user /\ u.email = Email[rpc[c].email]
  <2>1. CASE rpc[c] \in RegisterCall
    BY <1>5, <2>1 DEF AccountsInv, CallInv, RegisterStored, NewUser
  <2>2. CASE rpc[c] \in LoginCall
    BY <1>5, <2>2 DEF AccountsInv, CallInv, LoginOfAccount, Finds
  <2> QED
    BY <1>1, <2>1, <2>2
<1>7. AccountsTypeOK'
  BY <1>3, <1>2 DEF AccountsInv, AccountsTypeOK, AuthTypeOK, Records
<1>8. KeysOfConfig' /\ UniqueAccounts'
  BY DEF AccountsInv, KeysOfConfig, UniqueAccounts
<1>9. TokensOfAccounts'
  <2> SUFFICES ASSUME NEW h \in Holders, token'[h] # NoToken
               PROVE  \E u \in users :
                        u.id = token'[h].user /\ u.email = Email[token'[h].email]
    BY DEF TokensOfAccounts
  <2>1. CASE token'[h] = token[h]
    BY <2>1 DEF AccountsInv, TokensOfAccounts
  <2>2. CASE token'[h] # token[h]
    BY <1>4, <1>6, <1>2, <2>2, EmailFacts
  <2> QED
    BY <2>1, <2>2
<1>10. ASSUME NEW d \in Calls, d # c
       PROVE  CallInv(d)'
  <2>1. rpc'[d] = rpc[d] /\ rpc[d] \in Records
    BY <1>2, <1>10 DEF AccountsInv, AccountsTypeOK, Records
  <2>2. UsersGrow(d)
    BY DEF UsersGrow
  <2>3. TokenKept(d)
    BY <1>2, <1>10, AccountsAssumption DEF TokenKept, AccountsAssumption
  <2>4. CallInv(d)
    BY DEF AccountsInv
  <2> QED
    BY <2>1, <2>2, <2>3, <2>4, CallKept
<1>11. CallInv(c)'
  <2>1. CASE rpc[c] \in RegisterCall
    <3>1. NewUser(c)' = NewUser(c)
      BY <1>2, <1>3 DEF NewUser
    <3>2. NewUser(c) \in users
      BY <1>5, <2>1 DEF AccountsInv, CallInv, RegisterStored
    <3> QED
      BY <1>2, <1>3, <1>5, <2>1, <3>1, <3>2
      DEF CallInv, NoEarlyAccount, RegisterStored, LoginOfAccount, LoginFinds,
          StreamOfAccount, Answered
  <2>2. CASE rpc[c] \in LoginCall
    <3>1. Matches(c)
      BY <1>5, <2>2 DEF AccountsInv, CallInv, LoginOfAccount
    <3>2. Matches(c)'
      BY <1>2, <1>3, <3>1 DEF Matches
    <3>3. \E u \in users' : u.id = rpc'[c].user /\ Finds(c, u)'
      BY <1>2, <1>3, <1>6 DEF Finds
    <3> QED
      BY <1>2, <1>3, <1>5, <1>2, <2>2, <3>2, <3>3
      DEF CallInv, NoEarlyAccount, RegisterStored, LoginOfAccount, LoginFinds,
          StreamOfAccount, Answered
  <2> QED
    BY <1>1, <2>1, <2>2
<1> QED
  BY <1>7, <1>8, <1>9, <1>10, <1>11 DEF AccountsInv

-------------------------------------------------------------------------------

\* A stream gets the claims of the token it was opened with.
LEMMA OpenStreamStep ==
  ASSUME AccountsInv, NEW c \in Calls, NEW h \in Holders, OpenStream(c, h)
  PROVE  AccountsInv'
<1> DEFINE q == [pc |-> "stream", method |-> "Stream", user |-> token[h].user,
                 email |-> Email[token[h].email], outcome |-> "none"]
<1>1. token[h] \in Token /\ token[h] # NoToken
  BY DEF OpenStream, Verifies, AccountsInv, AccountsTypeOK, AuthTypeOK
<1>2. q \in Records
  BY <1>1, EmailFacts DEF Token, Records, StreamCall, Outcomes
<1>3. rpc' = [rpc EXCEPT ![c] = q] /\ UNCHANGED <<authVars, users>>
  BY DEF OpenStream, ClaimsOf
<1>4. /\ q.pc = "stream" /\ q.user = token[h].user
      /\ q.email = Email[token[h].email]
  OBVIOUS
<1> HIDE DEF q
<1>5. rpc'[c] = q
  BY <1>3, RecordSet
<1>6. \E u \in users : u.id = token[h].user /\ u.email = Email[token[h].email]
  BY <1>1 DEF AccountsInv, TokensOfAccounts
<1>7. CallInv(c)'
  BY <1>3, <1>4, <1>5, <1>6
  DEF CallInv, NoEarlyAccount, RegisterStored, LoginOfAccount, LoginFinds,
      StreamOfAccount, Answered
<1> QED
  BY <1>2, <1>3, <1>7, QuietStep

LEMMA RejectStreamStep ==
  ASSUME AccountsInv, NEW c \in Calls, RejectStream(c)
  PROVE  AccountsInv'
<1>1. rpc' = [rpc EXCEPT ![c] = Rejected] /\ UNCHANGED <<authVars, users>>
  BY DEF RejectStream
<1>2. rpc'[c] = Rejected
  BY <1>1, RecordSet
<1>3. CallInv(c)'
  BY <1>2 DEF CallInv, NoEarlyAccount, RegisterStored, LoginOfAccount, LoginFinds,
              StreamOfAccount, Answered, Rejected
<1>4. Rejected \in Records
  BY DEF Records
<1> QED
  BY <1>1, <1>3, <1>4, QuietStep

LEMMA CloseStreamStep ==
  ASSUME AccountsInv, NEW c \in Calls, CloseStream(c)
  PROVE  AccountsInv'
<1> DEFINE q == [rpc[c] EXCEPT !.pc = "done", !.outcome = "OK"]
<1>1. rpc[c].pc = "stream"
  BY DEF CloseStream, At
<1>2. rpc[c] \in StreamCall
  BY <1>1, RecordKinds DEF AccountsInv, AccountsTypeOK, Records
<1>3. q \in Records
  BY <1>2 DEF Records, StreamCall, Outcomes
<1>4. rpc' = [rpc EXCEPT ![c] = q] /\ UNCHANGED <<authVars, users>>
  BY DEF CloseStream, Answer
<1>5. q.pc = "done" /\ q.method = "Stream"
  BY <1>2 DEF StreamCall
<1> HIDE DEF q
<1>6. rpc'[c] = q
  BY <1>4, RecordSet
<1>7. CallInv(c)'
  BY <1>5, <1>6
  DEF CallInv, NoEarlyAccount, RegisterStored, LoginOfAccount, LoginFinds,
      StreamOfAccount, Answered
<1> QED
  BY <1>3, <1>4, <1>7, QuietStep

-------------------------------------------------------------------------------
(* The process, and time                                                      *)

LEMMA StartStep ==
  ASSUME AccountsInv, NEW e \in Configs, Start(e)
  PROVE  AccountsInv'
<1>1. /\ e \in Config
      /\ e # NoConfig
      /\ One \in Kids
      /\ e.jwtKeys = NoKeys => e.jwtSecret \in Secrets
  BY AuthAssumption DEF AuthAssumption, Config
<1>2. UNCHANGED <<token, users, rpc>> /\ up' = TRUE /\ config' = e /\ NewManager(e)
  BY DEF Start, Boot
<1>3. CASE e.jwtKeys # NoKeys
  <2>1. /\ keys' = e.jwtKeys
        /\ keys' \in [Kids -> Secrets \cup {NoSecret}]
        /\ active' \in Kids \cup {NoKid}
    BY <1>1, <1>2, <1>3 DEF NewManager, FromKeys, Config
  <2>2. AccountsTypeOK'
    BY <1>1, <1>2, <2>1 DEF AccountsInv, AccountsTypeOK, AuthTypeOK
  <2>3. KeysOfConfig'
    BY <1>2, <1>3, <2>1 DEF KeysOfConfig, KeyMap
  <2> QED
    BY <1>2, <2>2, <2>3
    DEF AccountsInv, UniqueAccounts, TokensOfAccounts, CallInv, NoEarlyAccount,
        RegisterStored, LoginOfAccount, LoginFinds, StreamOfAccount, Answered,
        NewUser, Finds, Matches, HasAccount
<1>4. CASE e.jwtKeys = NoKeys
  <2>1. keys' = [NoKeys EXCEPT ![One] = e.jwtSecret] /\ active' = One
    BY <1>2, <1>4 DEF NewManager, SingleKey
  <2>2. keys' \in [Kids -> Secrets \cup {NoSecret}]
    BY <1>1, <1>4, <2>1 DEF NoKeys
  <2>3. AccountsTypeOK'
    BY <1>1, <1>2, <2>1, <2>2 DEF AccountsInv, AccountsTypeOK, AuthTypeOK
  <2>4. KeysOfConfig'
    BY <1>2, <1>4, <2>1 DEF KeysOfConfig, KeyMap
  <2> QED
    BY <1>2, <2>3, <2>4
    DEF AccountsInv, UniqueAccounts, TokensOfAccounts, CallInv, NoEarlyAccount,
        RegisterStored, LoginOfAccount, LoginFinds, StreamOfAccount, Answered,
        NewUser, Finds, Matches, HasAccount
<1> QED
  BY <1>3, <1>4

LEMMA KillStep ==
  ASSUME AccountsInv, Kill
  PROVE  AccountsInv'
<1>1. up' = FALSE /\ UNCHANGED <<config, keys, active, token, users>>
  BY DEF Kill
<1>2. ASSUME NEW c \in Calls
      PROVE  /\ rpc[c] \in Records
             /\ rpc'[c] \in Records
             /\ \/ rpc'[c] = rpc[c]
                \/ rpc'[c].pc = "done" /\ rpc'[c].outcome = "lost"
  <2>1. rpc[c] \in Records
    BY DEF AccountsInv, AccountsTypeOK, Records
  <2>2. CASE rpc[c].pc \in {"new", "done", "rejected"}
    BY <2>1, <2>2 DEF Kill
  <2>3. CASE rpc[c].pc \notin {"new", "done", "rejected"}
    <3> DEFINE q == [rpc[c] EXCEPT !.pc = "done", !.outcome = "lost"]
    <3>1. rpc[c] \in RegisterCall \/ rpc[c] \in LoginCall \/ rpc[c] \in StreamCall
      BY <2>1, <2>3 DEF Records, New, Rejected
    <3>2. q \in Records
      BY <3>1 DEF Records, RegisterCall, LoginCall, StreamCall, Outcomes
    <3>3. q.pc = "done" /\ q.outcome = "lost"
      BY <3>1 DEF RegisterCall, LoginCall, StreamCall
    <3>4. rpc'[c] = q
      BY <2>3 DEF Kill
    <3> HIDE DEF q
    <3> QED
      BY <2>1, <3>2, <3>3, <3>4
  <2> QED
    BY <2>2, <2>3
<1>3. AccountsTypeOK'
  <2>1. rpc' \in [Calls -> Records]
    BY <1>2 DEF Kill
  <2> QED
    BY <1>1, <2>1 DEF AccountsInv, AccountsTypeOK, AuthTypeOK, Records
<1>4. KeysOfConfig' /\ UniqueAccounts' /\ TokensOfAccounts'
  BY <1>1 DEF AccountsInv, KeysOfConfig, UniqueAccounts, TokensOfAccounts
<1>5. ASSUME NEW c \in Calls
      PROVE  CallInv(c)'
  <2>1. CASE rpc'[c] = rpc[c]
    BY <1>1, <1>2, <2>1, CallKept DEF UsersGrow, TokenKept, AccountsInv
  <2>2. CASE rpc'[c].pc = "done" /\ rpc'[c].outcome = "lost"
    BY <2>2 DEF CallInv, NoEarlyAccount, RegisterStored, LoginOfAccount,
                LoginFinds, StreamOfAccount, Answered
  <2> QED
    BY <1>2, <2>1, <2>2
<1> QED
  BY <1>3, <1>4, <1>5 DEF AccountsInv

LEMMA TickStep ==
  ASSUME AccountsInv, Tick
  PROVE  AccountsInv'
<1>1. UNCHANGED <<up, config, keys, active, users, rpc>>
  BY DEF Tick
<1>2. ASSUME NEW h \in Holders
      PROVE  /\ token'[h] \in Token \cup {NoToken}
             /\ token[h] = NoToken => token'[h] = NoToken
             /\ token[h] # NoToken => /\ token'[h] # NoToken
                                      /\ token'[h].user = token[h].user
                                      /\ token'[h].email = token[h].email
  <2>1. token[h] \in Token \cup {NoToken} /\ token'[h] = Older(token[h])
    BY DEF AccountsInv, AccountsTypeOK, AuthTypeOK, Tick, AgeTokens
  <2>2. CASE token[h] = NoToken \/ token[h].left = 0
    BY <2>1, <2>2 DEF Older
  <2>3. CASE token[h] # NoToken /\ token[h].left # 0
    <3>1. token[h].left - 1 \in 0 .. Duration
      <4>1. token[h].left \in 0 .. Duration
        BY <2>1, <2>3 DEF Token
      <4>2. Duration \in Nat
        BY AuthAssumption DEF AuthAssumption
      <4> QED
        BY <2>3, <4>1, <4>2
    <3>2. token'[h] = [token[h] EXCEPT !.left = token[h].left - 1]
      BY <2>1, <2>3 DEF Older
    <3>3. /\ token'[h] \in Token
          /\ token'[h].user = token[h].user
          /\ token'[h].email = token[h].email
      BY <2>1, <2>3, <3>1, <3>2 DEF Token
    <3> QED
      BY <2>3, <3>3, AuthAssumption DEF AuthAssumption
  <2> QED
    BY <2>2, <2>3
<1>3. AccountsTypeOK'
  <2>1. token' \in [Holders -> Token \cup {NoToken}]
    BY <1>2 DEF Tick, AgeTokens
  <2> QED
    BY <1>1, <2>1 DEF AccountsInv, AccountsTypeOK, AuthTypeOK
<1>4. KeysOfConfig' /\ UniqueAccounts'
  BY <1>1 DEF AccountsInv, KeysOfConfig, UniqueAccounts
<1>5. TokensOfAccounts'
  BY <1>1, <1>2 DEF AccountsInv, TokensOfAccounts
<1>6. ASSUME NEW c \in Calls
      PROVE  CallInv(c)'
  <2>1. TokenKept(c)
    BY <1>2, AccountsAssumption DEF TokenKept, AccountsAssumption
  <2>2. rpc[c] \in Records /\ rpc'[c] = rpc[c] /\ UsersGrow(c) /\ CallInv(c)
    BY <1>1 DEF AccountsInv, AccountsTypeOK, Records, UsersGrow
  <2> QED
    BY <2>1, <2>2, CallKept
<1> QED
  BY <1>3, <1>4, <1>5, <1>6 DEF AccountsInv

-------------------------------------------------------------------------------
(* Theorems                                                                   *)

LEMMA InitInv == AccountsInit => AccountsInv
<1> SUFFICES ASSUME AccountsInit PROVE AccountsInv
  OBVIOUS
<1>1. ASSUME NEW h \in Old
      PROVE  /\ OldToken[h] \in Token
             /\ OldToken[h] # NoToken
             /\ OldToken[h].user = h
             /\ Email[OldToken[h].email] \in Addrs
             /\ OldPassword[h] \in Passwords
             /\ h \in Holders
             /\ h \notin Calls
  <2>1. OldToken[h] \in Token /\ OldToken[h] # NoToken /\ h \in Holders
    BY AuthAssumption DEF AuthAssumption
  <2>2. OldToken[h].email \in Addrs
    BY <2>1 DEF Token
  <2> QED
    BY <2>1, <2>2, EmailFacts, AccountsAssumption DEF AccountsAssumption
<1>2. users = OldUsers /\ OldUsers \subseteq User
  BY <1>1 DEF AccountsInit, OldUsers, User
<1>3. AccountsTypeOK
  <2>1. token \in [Holders -> Token \cup {NoToken}]
    BY <1>1 DEF AccountsInit
  <2>2. keys \in [Kids -> Secrets \cup {NoSecret}]
    BY DEF AccountsInit, NoKeys
  <2> QED
    BY <1>2, <2>1, <2>2 DEF AccountsInit, AccountsTypeOK, AuthTypeOK
<1>4. KeysOfConfig
  BY DEF AccountsInit, KeysOfConfig
<1>5. UniqueAccounts
  <2> SUFFICES ASSUME NEW g \in Old, NEW h \in Old,
                      Email[OldToken[g].email] = Email[OldToken[h].email]
               PROVE  g = h
    BY <1>2 DEF UniqueAccounts, OldUsers
  <2> QED
    BY AccountsAssumption DEF AccountsAssumption
<1>6. TokensOfAccounts
  <2> SUFFICES ASSUME NEW h \in Holders, token[h] # NoToken
               PROVE  \E u \in users :
                        u.id = token[h].user /\ u.email = Email[token[h].email]
    BY DEF TokensOfAccounts
  <2>1. h \in Old /\ token[h] = OldToken[h]
    BY DEF AccountsInit
  <2> DEFINE u == [id |-> h, email |-> Email[OldToken[h].email],
                   password |-> OldPassword[h]]
  <2>2. u \in users /\ u.id = h /\ u.email = Email[OldToken[h].email]
    BY <1>2, <2>1 DEF OldUsers
  <2> HIDE DEF u
  <2> QED
    BY <1>1, <2>1, <2>2
<1>7. ASSUME NEW c \in Calls
      PROVE  CallInv(c)
  <2>1. rpc[c] = New
    BY DEF AccountsInit
  <2>2. \A u \in users : u.id # c
    BY <1>1, <1>2 DEF OldUsers
  <2> QED
    BY <2>1, <2>2 DEF CallInv, NoEarlyAccount, RegisterStored, LoginOfAccount,
                      LoginFinds, StreamOfAccount, Answered, New
<1> QED
  BY <1>3, <1>4, <1>5, <1>6, <1>7 DEF AccountsInv

LEMMA StutterStep ==
  ASSUME AccountsInv, UNCHANGED accountsVars
  PROVE  AccountsInv'
<1>1. UNCHANGED <<up, config, keys, active, token, users, rpc>>
  BY DEF accountsVars, authVars
<1> QED
  BY <1>1
  DEF AccountsInv, AccountsTypeOK, AuthTypeOK, KeysOfConfig, UniqueAccounts,
      TokensOfAccounts, CallInv, NoEarlyAccount, RegisterStored, LoginOfAccount,
      LoginFinds, StreamOfAccount, Answered, NewUser, Finds, Matches, HasAccount

LEMMA NextInv ==
  ASSUME AccountsInv, [AccountsNext]_accountsVars
  PROVE  AccountsInv'
<1>1. ASSUME NEW c \in Calls, NEW a \in Addrs, NEW p \in Passwords,
             RegisterBegin(c, a, p) \/ LoginBegin(c, a, p)
      PROVE  AccountsInv'
  BY <1>1, RegisterBeginStep, LoginBeginStep
<1>2. ASSUME NEW c \in Calls, CreateUser(c)
      PROVE  AccountsInv'
  BY <1>2, CreateUserStep
<1>3. ASSUME NEW c \in Calls, RegisterReturn(c) \/ LoginReturn(c)
      PROVE  AccountsInv'
  BY <1>3, ReturnStep DEF RegisterReturn, LoginReturn, At
<1>4. ASSUME NEW c \in Calls, FindUser(c) \/ CheckPassword(c)
      PROVE  AccountsInv'
  BY <1>4, FindUserStep, CheckPasswordStep
<1>5. ASSUME NEW c \in Calls,
             \/ RejectStream(c)
             \/ CloseStream(c)
             \/ \E h \in Holders : OpenStream(c, h)
      PROVE  AccountsInv'
  BY <1>5, RejectStreamStep, CloseStreamStep, OpenStreamStep
<1>6. ASSUME NEW e \in Configs, Start(e)
      PROVE  AccountsInv'
  BY <1>6, StartStep
<1>7. CASE Kill
  BY <1>7, KillStep
<1>8. CASE Tick
  BY <1>8, TickStep
<1>9. CASE UNCHANGED accountsVars
  BY <1>9, StutterStep
<1> QED
  BY <1>1, <1>2, <1>3, <1>4, <1>5, <1>6, <1>7, <1>8, <1>9 DEF AccountsNext

(* The inductive invariant: whatever calls run together, wherever the process *)
(* dies and with whatever keys it comes back (handlers.go:17-70).            *)
THEOREM AccountsInvariant == AccountsSpec => []AccountsInv
BY InitInv, NextInv, PTL DEF AccountsSpec

(* Register answers OK to at most one caller for an address, and the account *)
(* keeps that caller's password (users.go:30-43).                            *)
THEOREM AckedRegistration == AccountsSpec => []AckedCredentialsWork
<1>1. AccountsInv => AckedCredentialsWork
  <2> SUFFICES ASSUME AccountsInv, NEW c \in Calls, Answered(c, "Register", "OK")
               PROVE  /\ NewUser(c) \in users
                      /\ \A u \in users :
                           u.email = Email[rpc[c].email] => u = NewUser(c)
    BY DEF AckedCredentialsWork
  <2>1. NewUser(c) \in users
    BY DEF AccountsInv, CallInv, RegisterStored
  <2>2. NewUser(c).email = Email[rpc[c].email]
    BY DEF NewUser
  <2> QED
    BY <2>1, <2>2 DEF AccountsInv, UniqueAccounts
<1> QED
  BY <1>1, AccountsInvariant, PTL

(* Login's OK and PermissionDenied are true of the accounts, also after the  *)
(* answer (handlers.go:49-60).                                               *)
THEOREM LoginAnswers == AccountsSpec => []LoginTruthful
<1>1. AccountsInv => LoginTruthful
  <2> SUFFICES ASSUME AccountsInv, NEW c \in Calls
               PROVE  /\ Answered(c, "Login", "OK") =>
                           \E u \in users : /\ u.email = Email[rpc[c].email]
                                           /\ u.password = rpc[c].password
                                           /\ token[c] # NoToken
                                           /\ token[c].user = u.id
                      /\ Answered(c, "Login", "PermissionDenied") =>
                           /\ HasAccount(rpc[c].email)
                           /\ \A u \in users : u.email = Email[rpc[c].email] =>
                                u.password # rpc[c].password
    BY DEF LoginTruthful
  <2>1. LoginOfAccount(c) /\ UniqueAccounts
    BY DEF AccountsInv, CallInv
  <2>2. ASSUME Answered(c, "Login", "OK") \/ Answered(c, "Login", "PermissionDenied")
        PROVE  \E u \in users : /\ u.id = rpc[c].user
                                /\ u.email = Email[rpc[c].email]
    BY <2>1, <2>2 DEF LoginOfAccount, Finds
  <2>3. CASE Answered(c, "Login", "OK")
    <3>1. PICK u \in users : u.id = rpc[c].user /\ u.email = Email[rpc[c].email]
      BY <2>2, <2>3
    <3>2. u.password = rpc[c].password
      BY <2>1, <2>3, <3>1 DEF LoginOfAccount, Matches, UniqueAccounts
    <3>3. token[c] # NoToken /\ token[c].user = u.id
      BY <2>1, <2>3, <3>1 DEF LoginOfAccount
    <3>4. ~Answered(c, "Login", "PermissionDenied")
      BY <2>3 DEF Answered
    <3> QED
      BY <3>1, <3>2, <3>3, <3>4
  <2>4. CASE Answered(c, "Login", "PermissionDenied")
    <3>1. PICK u \in users : u.id = rpc[c].user /\ u.email = Email[rpc[c].email]
      BY <2>2, <2>4
    <3>2. u.password # rpc[c].password
      BY <2>1, <2>4, <3>1 DEF LoginOfAccount, Matches
    <3>3. ~Answered(c, "Login", "OK")
      BY <2>4 DEF Answered
    <3> QED
      BY <2>1, <3>1, <3>2, <3>3 DEF HasAccount, UniqueAccounts
  <2> QED
    BY <2>3, <2>4
<1> QED
  BY <1>1, AccountsInvariant, PTL

(* While the database works, Login does not say NotFound to a user who was   *)
(* registered when the call began (users.go:65).                             *)
THEOREM LoginFindsUsers == AccountsSpec => []KnownUsersFound
<1>1. AccountsInv => KnownUsersFound
  BY DEF AccountsInv, CallInv, LoginFinds, KnownUsersFound
<1> QED
  BY <1>1, AccountsInvariant, PTL

(* A stream's claims are the id and the stored address of one account        *)
(* (interceptors.go:93-101, jwt.go:131-133).                                 *)
THEOREM StreamIdentity == AccountsSpec => []StreamsAuthentic
<1>1. AccountsInv => StreamsAuthentic
  BY DEF AccountsInv, CallInv, StreamOfAccount, StreamsAuthentic
<1> QED
  BY <1>1, AccountsInvariant, PTL

\* Tokens change when they are returned, and with time.
LEMMA TokensChange ==
  ASSUME [AccountsNext]_accountsVars
  PROVE  \/ UNCHANGED token
         \/ Tick
         \/ \E c \in Calls : RegisterReturn(c) \/ LoginReturn(c)
BY DEF AccountsNext, accountsVars, authVars, RegisterBegin, LoginBegin, CreateUser,
       FindUser, CheckPassword, RejectStream, CloseStream, OpenStream, Start, Boot, Kill

(* A start that keeps the keys keeps the tokens: one with a kid finds its    *)
(* secret where it was, one without is checked with the active secret        *)
(* (main.go:62-64, jwt.go:105-117).                                          *)
THEOREM Rotation == AccountsSpec => RotationKeepsTokens
<1>1. ASSUME AccountsInv, AccountsInv', [AccountsNext]_accountsVars,
             ~up, up', config # NoConfig, Widens(config, config'),
             NEW h \in Holders, Verifies(token[h]),
             token[h].kid # NoKid \/ ActiveSecret' = ActiveSecret
      PROVE  Verifies(token[h])'
  <2>1. keys = KeyMap(config) /\ keys' = KeyMap(config')
    BY <1>1 DEF AccountsInv, AccountsTypeOK, AuthTypeOK, KeysOfConfig
  <2>2. token[h] \in Token /\ token'[h] = token[h]
    <3>1. token' = token
      BY <1>1, TokensChange DEF Tick, RegisterReturn, LoginReturn, At
    <3> QED
      BY <1>1, <3>1 DEF AccountsInv, AccountsTypeOK, AuthTypeOK, Verifies
  <2>3. CASE token[h].kid # NoKid
    <3>1. keys[token[h].kid] = token[h].key /\ token[h].kid \in Kids
      BY <1>1, <2>2, <2>3 DEF Verifies, SecretFor, Token
    <3>2. keys'[token[h].kid] = keys[token[h].kid]
      BY <1>1, <2>1, <2>2, <3>1, AuthAssumption DEF Widens, Token, AuthAssumption
    <3> QED
      BY <1>1, <2>2, <2>3, <3>1, <3>2 DEF Verifies, SecretFor
  <2>4. CASE token[h].kid = NoKid
    BY <1>1, <2>2, <2>4 DEF Verifies, SecretFor
  <2> QED
    BY <2>3, <2>4
<1>2. AccountsInv /\ AccountsInv' /\ [AccountsNext]_accountsVars
        => [~up /\ up' /\ config # NoConfig /\ Widens(config, config') =>
              \A h \in Holders :
                Verifies(token[h]) /\ (token[h].kid # NoKid \/ ActiveSecret' = ActiveSecret)
                  => Verifies(token[h])']_authVars
  BY <1>1
<1> QED
  BY <1>2, AccountsInvariant, PTL DEF AccountsSpec, RotationKeepsTokens

-------------------------------------------------------------------------------
(* Calls, tokens and streams implement Credentials.                           *)

\* What a call's record says to its caller.
LEMMA VerdictOf ==
  ASSUME NEW r \in Records
  PROVE  /\ r.pc \in {"new", "rejected", "create", "registered", "find", "check",
                      "checked"} => Verdict(r) = C!Nothing
         /\ r \in RegisterCall \cup LoginCall
              /\ r.pc = "done" /\ r.outcome \notin {"OK", "PermissionDenied"}
              => Verdict(r) = C!Nothing
         /\ r \in RegisterCall /\ r.pc = "done" /\ r.outcome = "OK" =>
              Verdict(r) = [kind |-> "registered", name |-> Email[r.email],
                            password |-> r.password]
         /\ r \in LoginCall /\ r.pc = "done" /\ r.outcome = "OK" =>
              Verdict(r) = [kind |-> "loggedIn", name |-> Email[r.email],
                            password |-> r.password]
         /\ r \in LoginCall /\ r.pc = "done" /\ r.outcome = "PermissionDenied" =>
              Verdict(r) = [kind |-> "denied", name |-> Email[r.email],
                            password |-> r.password]
         /\ r \in StreamCall => Verdict(r) = [kind |-> "opened", name |-> r.email]
<1>1. CASE r \in {New, Rejected}
  BY <1>1 DEF Verdict, C!Nothing, New, Rejected, RegisterCall, LoginCall, StreamCall
<1>2. CASE r \in RegisterCall
  BY <1>2 DEF Verdict, C!Nothing, RegisterCall, LoginCall, StreamCall
<1>3. CASE r \in LoginCall
  BY <1>3 DEF Verdict, C!Nothing, RegisterCall, LoginCall, StreamCall
<1>4. CASE r \in StreamCall
  BY <1>4 DEF Verdict, C!Nothing, RegisterCall, LoginCall, StreamCall
<1> QED
  BY <1>1, <1>2, <1>3, <1>4 DEF Records

\* The accounts of Credentials are the documents.
LEMMA AccountsOf ==
  ASSUME AccountsInv, NEW u \in users
  PROVE  /\ C!Holds(u.email, u.password)
         /\ C!Taken(u.email)
         /\ \A p : C!Holds(u.email, p) => p = u.password
<1>1. C!Holds(u.email, u.password)
  BY DEF C!Holds
<1>2. C!Taken(u.email)
  <2> DEFINE x == [name |-> u.email, password |-> u.password]
  <2>1. x.name = u.email
    OBVIOUS
  <2> HIDE DEF x
  <2>2. x \in {[name |-> v.email, password |-> v.password] : v \in users}
    BY DEF x
  <2> QED
    BY <2>1, <2>2 DEF C!Taken
<1>3. ASSUME NEW p, C!Holds(u.email, p)
      PROVE  p = u.password
  <2>1. PICK v \in users : [name |-> u.email, password |-> p]
                             = [name |-> v.email, password |-> v.password]
    BY <1>3 DEF C!Holds
  <2>2. u.email = v.email /\ p = v.password
    BY <2>1
  <2> QED
    BY <2>2 DEF AccountsInv, UniqueAccounts
<1> QED
  BY <1>1, <1>2, <1>3

\* A step that no caller is told of.
LEMMA SilentStep ==
  ASSUME users' = users, \A d \in Calls : Verdict(rpc'[d]) = Verdict(rpc[d])
  PROVE  UNCHANGED C!credVars
BY DEF C!credVars

\* A step of one call, of which its caller is told nothing new.
LEMMA SilentCall ==
  ASSUME AccountsInv, users' = users, NEW c \in Calls, NEW r,
         rpc' = [rpc EXCEPT ![c] = r], Verdict(r) = Verdict(rpc[c])
  PROVE  UNCHANGED C!credVars
<1>1. rpc'[c] = r /\ \A d \in Calls \ {c} : rpc'[d] = rpc[d]
  BY DEF AccountsInv, AccountsTypeOK
<1> QED
  BY <1>1, SilentStep

\* A step in which a call is answered.
LEMMA TellingCall ==
  ASSUME AccountsInv, users' = users, NEW c \in Calls, NEW r,
         rpc' = [rpc EXCEPT ![c] = r], Verdict(rpc[c]) = C!Nothing,
         \/ C!Registered(Verdict(r))
         \/ C!LoggedIn(Verdict(r))
         \/ C!Denied(Verdict(r))
         \/ C!Opened(Verdict(r))
  PROVE  C!CredNext
<1>1. rpc'[c] = r /\ \A d \in Calls \ {c} : rpc'[d] = rpc[d]
  BY DEF AccountsInv, AccountsTypeOK
<1>2. [d \in Calls |-> Verdict(rpc'[d])]
        = [[d \in Calls |-> Verdict(rpc[d])] EXCEPT ![c] = Verdict(r)]
  <2> DEFINE f == [d \in Calls |-> Verdict(rpc[d])]
             g == [d \in Calls |-> Verdict(rpc'[d])]
  <2>1. \A d \in Calls : g[d] = IF d = c THEN Verdict(r) ELSE f[d]
    BY <1>1
  <2>2. DOMAIN f = Calls /\ DOMAIN g = Calls
    OBVIOUS
  <2>3. g = [d \in Calls |-> g[d]] /\ f = [d \in Calls |-> f[d]]
    OBVIOUS
  <2> HIDE DEF f, g
  <2>4. g = [f EXCEPT ![c] = Verdict(r)]
    BY <2>1, <2>2, <2>3
  <2> QED
    BY <2>4 DEF f, g
<1>3. C!Tell(c, Verdict(r))
  BY <1>2 DEF C!Tell
<1> QED
  BY <1>1, <1>3 DEF C!CredNext

\* A token is held by the call that returned it, or since before the start, and
\* names the address for which a password was shown.
TokensEarned ==
  \A h \in Holders : token[h] # NoToken =>
    IF h \in Old
    THEN token[h].email = OldToken[h].email
    ELSE /\ Answered(h, "Register", "OK") \/ Answered(h, "Login", "OK")
         /\ token[h].email = Email[rpc[h].email]

\* An answer stands.
LEMMA AnswersStand ==
  ASSUME AccountsInv, [AccountsNext]_accountsVars, NEW c \in Calls, rpc[c].pc = "done"
  PROVE  rpc'[c] = rpc[c]
<1>0. rpc \in [Calls -> Records]
  BY DEF AccountsInv, AccountsTypeOK, Records
<1>1. ASSUME NEW d \in Calls, NEW r, rpc' = [rpc EXCEPT ![d] = r], rpc[d].pc # "done"
      PROVE  rpc'[c] = rpc[c]
  BY <1>0, <1>1
<1>2. ASSUME NEW d \in Calls, NEW a \in Addrs, NEW p \in Passwords,
             RegisterBegin(d, a, p) \/ LoginBegin(d, a, p)
      PROVE  rpc'[c] = rpc[c]
  BY <1>1, <1>2 DEF RegisterBegin, LoginBegin, At
<1>3. ASSUME NEW d \in Calls,
             CreateUser(d) \/ CheckPassword(d) \/ RegisterReturn(d) \/ LoginReturn(d)
      PROVE  rpc'[c] = rpc[c]
  BY <1>1, <1>3 DEF CreateUser, CheckPassword, RegisterReturn, LoginReturn, ReturnToken,
                    At, Goto, Answer
<1>4. ASSUME NEW d \in Calls,
             FindUser(d) \/ RejectStream(d) \/ CloseStream(d)
               \/ \E h \in Holders : OpenStream(d, h)
      PROVE  rpc'[c] = rpc[c]
  BY <1>1, <1>4 DEF FindUser, RejectStream, CloseStream, OpenStream, At, Answer
<1>5. CASE Kill
  BY <1>5 DEF Kill
<1>6. CASE UNCHANGED rpc
  BY <1>6
<1> QED
  BY <1>2, <1>3, <1>4, <1>5, <1>6 DEF AccountsNext, Start, Tick, accountsVars

LEMMA EarnedInit == AccountsInit => TokensEarned
BY AuthAssumption DEF AccountsInit, TokensEarned, AuthAssumption

LEMMA EarnedNext ==
  ASSUME AccountsInv, TokensEarned, [AccountsNext]_accountsVars
  PROVE  TokensEarned'
<1>0. Holders = Calls \cup Old /\ Calls \cap Old = {}
  BY AccountsAssumption DEF AccountsAssumption
<1>1. ASSUME NEW h \in Holders, token'[h] # NoToken, token[h] # NoToken,
             token'[h].email = token[h].email
      PROVE  IF h \in Old
             THEN token'[h].email = OldToken[h].email
             ELSE /\ \/ Answered(h, "Register", "OK")'
                     \/ Answered(h, "Login", "OK")'
                  /\ token'[h].email = Email[rpc'[h].email]
  <2>1. CASE h \in Old
    BY <1>1, <2>1 DEF TokensEarned
  <2>2. CASE h \notin Old
    <3>1. h \in Calls /\ rpc[h].pc = "done"
      BY <1>0, <1>1, <2>2 DEF TokensEarned, Answered
    <3>2. rpc'[h] = rpc[h]
      BY <3>1, AnswersStand
    <3> QED
      BY <1>1, <2>2, <3>2 DEF TokensEarned, Answered
  <2> QED
    BY <2>1, <2>2
<1>2. CASE UNCHANGED token
  BY <1>1, <1>2 DEF TokensEarned
<1>3. CASE Tick
  <2>1. ASSUME NEW h \in Holders, token'[h] # NoToken
        PROVE  token[h] # NoToken /\ token'[h].email = token[h].email
    <3>1. token[h] \in Token \cup {NoToken} /\ token'[h] = Older(token[h])
      BY <1>3 DEF Tick, AgeTokens, AccountsInv, AccountsTypeOK, AuthTypeOK
    <3> QED
      BY <2>1, <3>1 DEF Older, Token
  <2> QED
    BY <1>1, <2>1 DEF TokensEarned
<1>4. ASSUME NEW c \in Calls, RegisterReturn(c) \/ LoginReturn(c)
      PROVE  TokensEarned'
  <2>1. /\ rpc[c].pc \in {"registered", "checked"} /\ ReturnToken(c)
        /\ UNCHANGED <<up, config, keys, active, users>>
    BY <1>4 DEF RegisterReturn, LoginReturn, At
  <2>2. PICK q \in Records, code \in {"OK", "Internal"} :
          /\ rpc' = [rpc EXCEPT ![c] = q]
          /\ rpc'[c] = q
          /\ q.pc = "done" /\ q.outcome = code /\ q.method = rpc[c].method
          /\ q.user = rpc[c].user
          /\ q.email = rpc[c].email /\ q.password = rpc[c].password
          /\ token' \in [Holders -> Token \cup {NoToken}]
          /\ \A h \in Holders \ {c} : token'[h] = token[h]
          /\ token'[c] # token[c] => code = "OK"
          /\ code = "OK" => /\ token'[c] # NoToken
                            /\ token'[c].user = rpc[c].user
                            /\ token'[c].email = Email[rpc[c].email]
    BY <2>1, ReturnEffect
  <2>3. rpc[c].method \in {"Register", "Login"}
    BY <2>1, RecordKinds DEF AccountsInv, AccountsTypeOK, Records, RegisterCall, LoginCall
  <2> SUFFICES ASSUME NEW h \in Holders, token'[h] # NoToken
               PROVE  IF h \in Old
                      THEN token'[h].email = OldToken[h].email
                      ELSE /\ \/ Answered(h, "Register", "OK")'
                              \/ Answered(h, "Login", "OK")'
                           /\ token'[h].email = Email[rpc'[h].email]
    BY DEF TokensEarned
  <2>4. CASE token'[h] = token[h]
    BY <1>1, <2>4
  <2>5. CASE token'[h] # token[h]
    BY <1>0, <2>2, <2>3, <2>5 DEF Answered
  <2> QED
    BY <2>4, <2>5
<1> QED
  BY <1>2, <1>3, <1>4, TokensChange

\* A request that arrives, or is refused before it touches the database.
LEMMA BeginIsSilent ==
  ASSUME AccountsInv, NEW c \in Calls, NEW a \in Addrs, NEW p \in Passwords,
         RegisterBegin(c, a, p) \/ LoginBegin(c, a, p)
  PROVE  UNCHANGED C!credVars
<1>1. rpc[c].pc = "new" /\ rpc[c] \in Records /\ users' = users
  BY DEF RegisterBegin, LoginBegin, At, AccountsInv, AccountsTypeOK, Records
<1>2. Verdict(rpc[c]) = C!Nothing
  BY <1>1, VerdictOf
<1>3. CASE RegisterBegin(c, a, p)
  <2> DEFINE q == [pc |-> IF Hashes(p) THEN "create" ELSE "done",
                   method |-> "Register", email |-> a, password |-> p, user |-> c,
                   outcome |-> IF Hashes(p) THEN "none" ELSE "Internal"]
  <2>1. rpc' = [rpc EXCEPT ![c] = q]
    BY <1>3 DEF RegisterBegin
  <2>2. Verdict(q) = C!Nothing
    BY DEF Verdict, C!Nothing
  <2> HIDE DEF q
  <2> QED
    BY <1>1, <1>2, <2>1, <2>2, SilentCall
<1>4. CASE LoginBegin(c, a, p)
  <2> DEFINE q == [pc |-> "find", method |-> "Login", email |-> a, password |-> p,
                   user |-> c, outcome |-> "none", known |-> HasAccount(a),
                   dbError |-> FALSE]
  <2>1. rpc' = [rpc EXCEPT ![c] = q]
    BY <1>4 DEF LoginBegin
  <2>2. Verdict(q) = C!Nothing
    BY DEF Verdict, C!Nothing
  <2> HIDE DEF q
  <2> QED
    BY <1>1, <1>2, <2>1, <2>2, SilentCall
<1> QED
  BY <1>3, <1>4

\* The insert makes an account; the other outcomes of CreateUser change nothing.
LEMMA CreateUserRefines ==
  ASSUME AccountsInv, NEW c \in Calls, CreateUser(c)
  PROVE  [C!CredNext]_(C!credVars)
<1>1. rpc[c].pc = "create" /\ rpc[c] \in RegisterCall
  BY RecordKinds DEF CreateUser, At, AccountsInv, AccountsTypeOK, Records
<1>2. \A d \in Calls : Verdict(rpc'[d]) = Verdict(rpc[d])
  <2>1. Verdict(rpc[c]) = C!Nothing
    BY <1>1, VerdictOf DEF Records
  <2>2. rpc \in [Calls -> Records]
    BY DEF AccountsInv, AccountsTypeOK, Records
  <2>3. ASSUME NEW r, rpc' = [rpc EXCEPT ![c] = r], Verdict(r) = C!Nothing
        PROVE  \A d \in Calls : Verdict(rpc'[d]) = Verdict(rpc[d])
    BY <2>1, <2>2, <2>3
  <2>4. Verdict([rpc[c] EXCEPT !.pc = "registered"]) = C!Nothing
    BY <1>1 DEF Verdict, C!Nothing, RegisterCall
  <2>5. Verdict([rpc[c] EXCEPT !.pc = "done", !.outcome = "Internal"]) = C!Nothing
    BY <1>1 DEF Verdict, C!Nothing, RegisterCall
  <2> QED
    BY <2>3, <2>4, <2>5 DEF CreateUser, Goto, Answer
<1>3. CASE users' = users
  BY <1>2, <1>3, SilentStep
<1>4. CASE InsertUser(c)
  <2> DEFINE n == Email[rpc[c].email]
             x == [name |-> n, password |-> rpc[c].password]
             docs == {[name |-> u.email, password |-> u.password] : u \in users}
             docs2 == {[name |-> u.email, password |-> u.password] : u \in users'}
  <2>1. /\ users' = users \cup {NewUser(c)} /\ \A u \in users : u.email # n
        /\ NewUser(c).email = n /\ NewUser(c).password = rpc[c].password
    BY <1>4 DEF InsertUser, HasAccount, NewUser
  <2>2. docs2 = docs \cup {x}
    BY <2>1
  <2>3. ~C!Taken(x.name)
    <3>1. \A y \in docs : y.name # n
      BY <2>1
    <3> QED
      BY <3>1 DEF C!Taken
  <2>4. x \in docs2
    BY <2>2
  <2>5. [d \in Calls |-> Verdict(rpc'[d])] = [d \in Calls |-> Verdict(rpc[d])]
    BY <1>2
  <2>6. C!Create
    <3>1. x \in docs2 /\ docs2 = docs \cup {x}
      BY <2>2, <2>4
    <3> QED
      BY <2>3, <2>5, <3>1 DEF C!Create
  <2> QED
    BY <2>6 DEF C!CredNext
<1> QED
  BY <1>3, <1>4 DEF CreateUser

\* Register's OK: nobody else was told so for the address.
LEMMA RegisterReturnRefines ==
  ASSUME AccountsInv, NEW c \in Calls, RegisterReturn(c)
  PROVE  [C!CredNext]_(C!credVars)
<1>1. /\ rpc[c].pc = "registered" /\ rpc[c] \in RegisterCall /\ ReturnToken(c)
      /\ UNCHANGED <<up, config, keys, active, users>>
  BY RecordKinds DEF RegisterReturn, At, AccountsInv, AccountsTypeOK, Records
<1>2. PICK q \in Records, code \in {"OK", "Internal"} :
        /\ rpc' = [rpc EXCEPT ![c] = q]
        /\ q.pc = "done" /\ q.outcome = code /\ q.method = rpc[c].method
        /\ q.email = rpc[c].email /\ q.password = rpc[c].password
  BY <1>1, ReturnEffect
<1>3. q \in RegisterCall
  BY <1>1, <1>2 DEF Records, RegisterCall, LoginCall, StreamCall, New, Rejected
<1>4. Verdict(rpc[c]) = C!Nothing
  BY <1>1, VerdictOf DEF Records
<1>5. CASE code = "Internal"
  <2>1. Verdict(q) = C!Nothing
    BY <1>2, <1>3, <1>5, VerdictOf
  <2> QED
    BY <1>1, <1>2, <1>4, <2>1, SilentCall
<1>6. CASE code = "OK"
  <2> DEFINE n == Email[rpc[c].email]
  <2>1. Verdict(q) = [kind |-> "registered", name |-> n, password |-> rpc[c].password]
    BY <1>2, <1>3, <1>6, VerdictOf
  <2>2. NewUser(c) \in users
    BY <1>1 DEF AccountsInv, CallInv, RegisterStored
  <2>3. C!Holds(n, rpc[c].password)
    BY <2>2, AccountsOf DEF NewUser
  <2>4. ~C!SomeoneTold({"registered"}, n)
    <3> SUFFICES ASSUME NEW d \in Calls, Verdict(rpc[d]).kind = "registered",
                        Verdict(rpc[d]).name = n
                 PROVE  FALSE
      BY DEF C!SomeoneTold
    <3>1. Answered(d, "Register", "OK") /\ Email[rpc[d].email] = n
      BY DEF Verdict, Answered
    <3>2. NewUser(d) \in users
      BY <3>1 DEF AccountsInv, CallInv, RegisterStored
    <3>3. NewUser(d).id = NewUser(c).id
      BY <2>2, <3>1, <3>2 DEF AccountsInv, UniqueAccounts, NewUser
    <3>4. d = c
      BY <3>3 DEF NewUser
    <3> QED
      BY <1>1, <3>1, <3>4 DEF Answered
  <2>5. C!Registered(Verdict(q))
    BY <2>1, <2>3, <2>4 DEF C!Registered
  <2> QED
    BY <1>1, <1>2, <1>4, <2>5, TellingCall
<1> QED
  BY <1>5, <1>6

\* A Login that ends without a verdict on the password.
LEMMA FindUserIsSilent ==
  ASSUME AccountsInv, NEW c \in Calls, FindUser(c)
  PROVE  UNCHANGED C!credVars
<1>1. rpc[c].pc = "find" /\ rpc[c] \in LoginCall /\ users' = users
  BY RecordKinds DEF FindUser, At, AccountsInv, AccountsTypeOK, Records
<1>2. Verdict(rpc[c]) = C!Nothing
  BY <1>1, VerdictOf DEF Records
<1>3. \A h : Verdict([rpc[c] EXCEPT !.pc = "check", !.user = h]) = C!Nothing
  BY <1>1 DEF Verdict, C!Nothing, LoginCall
<1>4. Verdict([rpc[c] EXCEPT !.pc = "done", !.outcome = "NotFound"]) = C!Nothing
  BY <1>1 DEF Verdict, C!Nothing, LoginCall
<1>5. Verdict([rpc[c] EXCEPT !.pc = "done", !.outcome = "NotFound", !.dbError = TRUE])
        = C!Nothing
  BY <1>1 DEF Verdict, C!Nothing, LoginCall
<1>6. \E r : rpc' = [rpc EXCEPT ![c] = r] /\ Verdict(r) = C!Nothing
  BY <1>3, <1>4, <1>5 DEF FindUser, Answer
<1> QED
  BY <1>1, <1>2, <1>6, SilentCall

\* PermissionDenied: the account has another password.
LEMMA CheckPasswordRefines ==
  ASSUME AccountsInv, NEW c \in Calls, CheckPassword(c)
  PROVE  [C!CredNext]_(C!credVars)
<1>1. rpc[c].pc = "check" /\ rpc[c] \in LoginCall /\ users' = users
  BY RecordKinds DEF CheckPassword, At, AccountsInv, AccountsTypeOK, Records
<1>2. Verdict(rpc[c]) = C!Nothing
  BY <1>1, VerdictOf DEF Records
<1>3. CASE Goto(c, "checked")
  <2>1. Verdict([rpc[c] EXCEPT !.pc = "checked"]) = C!Nothing
    BY <1>1 DEF Verdict, C!Nothing, LoginCall
  <2> QED
    BY <1>1, <1>2, <1>3, <2>1, SilentCall DEF Goto
<1>4. CASE ~Matches(c) /\ Answer(c, "PermissionDenied")
  <2> DEFINE n == Email[rpc[c].email]
             q == [rpc[c] EXCEPT !.pc = "done", !.outcome = "PermissionDenied"]
  <2>1. Verdict(q) = [kind |-> "denied", name |-> n, password |-> rpc[c].password]
    BY <1>1 DEF Verdict, LoginCall
  <2>2. PICK u \in users : u.id = rpc[c].user /\ u.email = n
    BY <1>1 DEF AccountsInv, CallInv, LoginOfAccount, Finds
  <2>3. u.password # rpc[c].password
    BY <1>4, <2>2 DEF Matches
  <2>4. C!Taken(n) /\ ~C!Holds(n, rpc[c].password)
    BY <2>2, <2>3, AccountsOf
  <2>5. rpc' = [rpc EXCEPT ![c] = q]
    BY <1>4 DEF Answer
  <2> HIDE DEF q
  <2>6. C!Denied(Verdict(q))
    BY <2>1, <2>4 DEF C!Denied
  <2> QED
    BY <1>1, <1>2, <2>5, <2>6, TellingCall
<1> QED
  BY <1>3, <1>4 DEF CheckPassword

\* Login's OK: the password is the account's.
LEMMA LoginReturnRefines ==
  ASSUME AccountsInv, NEW c \in Calls, LoginReturn(c)
  PROVE  [C!CredNext]_(C!credVars)
<1>1. /\ rpc[c].pc = "checked" /\ rpc[c] \in LoginCall /\ ReturnToken(c)
      /\ UNCHANGED <<up, config, keys, active, users>>
  BY RecordKinds DEF LoginReturn, At, AccountsInv, AccountsTypeOK, Records
<1>2. PICK q \in Records, code \in {"OK", "Internal"} :
        /\ rpc' = [rpc EXCEPT ![c] = q]
        /\ q.pc = "done" /\ q.outcome = code /\ q.method = rpc[c].method
        /\ q.email = rpc[c].email /\ q.password = rpc[c].password
  BY <1>1, ReturnEffect
<1>3. q \in LoginCall
  BY <1>1, <1>2 DEF Records, RegisterCall, LoginCall, StreamCall, New, Rejected
<1>4. Verdict(rpc[c]) = C!Nothing
  BY <1>1, VerdictOf DEF Records
<1>5. CASE code = "Internal"
  <2>1. Verdict(q) = C!Nothing
    BY <1>2, <1>3, <1>5, VerdictOf
  <2> QED
    BY <1>1, <1>2, <1>4, <2>1, SilentCall
<1>6. CASE code = "OK"
  <2> DEFINE n == Email[rpc[c].email]
  <2>1. Verdict(q) = [kind |-> "loggedIn", name |-> n, password |-> rpc[c].password]
    BY <1>2, <1>3, <1>6, VerdictOf
  <2>2. PICK u \in users : u.id = rpc[c].user /\ u.email = n
    BY <1>1 DEF AccountsInv, CallInv, LoginOfAccount, Finds
  <2>3. PICK v \in users : v.id = rpc[c].user /\ v.password = rpc[c].password
    BY <1>1 DEF AccountsInv, CallInv, LoginOfAccount, Matches
  <2>4. u = v
    BY <2>2, <2>3 DEF AccountsInv, UniqueAccounts
  <2>5. C!LoggedIn(Verdict(q))
    BY <2>1, <2>2, <2>3, <2>4, AccountsOf DEF C!LoggedIn
  <2> QED
    BY <1>1, <1>2, <1>4, <2>5, TellingCall
<1> QED
  BY <1>5, <1>6

\* A stream is opened with a token, which was earned.
LEMMA OpenStreamRefines ==
  ASSUME AccountsInv, TokensEarned, NEW c \in Calls, NEW h \in Holders, OpenStream(c, h)
  PROVE  C!CredNext
<1> DEFINE n == Email[token[h].email]
           q == [pc |-> "stream", method |-> "Stream", user |-> token[h].user,
                 email |-> n, outcome |-> "none"]
<1>1. /\ rpc[c].pc = "new" /\ rpc[c] \in Records /\ users' = users
      /\ token[h] \in Token /\ token[h] # NoToken
      /\ rpc' = [rpc EXCEPT ![c] = q]
  BY DEF OpenStream, At, Verifies, ClaimsOf, AccountsInv, AccountsTypeOK, AuthTypeOK,
         Records
<1>2. Verdict(rpc[c]) = C!Nothing
  BY <1>1, VerdictOf
<1>3. Verdict(q) = [kind |-> "opened", name |-> n]
  BY DEF Verdict
<1> HIDE DEF q
<1>4. CASE h \in Old
  <2>1. n \in {Email[OldToken[g].email] : g \in Old}
    BY <1>1, <1>4 DEF TokensEarned
  <2>2. C!Opened(Verdict(q))
    BY <1>3, <2>1 DEF C!Opened
  <2> QED
    BY <1>1, <1>2, <2>2, TellingCall
<1>5. CASE h \notin Old
  <2>1. h \in Calls /\ rpc[h] \in Records
    BY <1>5, AccountsAssumption DEF AccountsAssumption, AccountsInv, AccountsTypeOK, Records
  <2>2. /\ Answered(h, "Register", "OK") \/ Answered(h, "Login", "OK")
        /\ token[h].email = Email[rpc[h].email]
    BY <1>1, <1>5 DEF TokensEarned
  <2>3. rpc[h].email \in Addrs
    BY <2>1, <2>2, RecordKinds DEF Answered, RegisterCall, LoginCall
  <2>4. n = Email[rpc[h].email]
    BY <2>2, <2>3, EmailFacts
  <2>5. /\ Verdict(rpc[h]).kind \in {"registered", "loggedIn"}
        /\ Verdict(rpc[h]).name = Email[rpc[h].email]
    BY <2>2 DEF Verdict, Answered
  <2>6. C!SomeoneTold({"registered", "loggedIn"}, n)
    BY <2>1, <2>4, <2>5 DEF C!SomeoneTold
  <2>7. C!Opened(Verdict(q))
    BY <1>3, <2>6 DEF C!Opened
  <2> QED
    BY <1>1, <1>2, <2>7, TellingCall
<1> QED
  BY <1>4, <1>5

\* The end of a stream, and calls that a crash cuts off.
LEMMA EndsAreSilent ==
  ASSUME AccountsInv,
         \/ Kill
         \/ \E c \in Calls : RejectStream(c) \/ CloseStream(c)
  PROVE  UNCHANGED C!credVars
<1>0. rpc \in [Calls -> Records]
  BY DEF AccountsInv, AccountsTypeOK, Records
<1>1. ASSUME NEW c \in Calls, RejectStream(c) PROVE UNCHANGED C!credVars
  <2>1. rpc[c].pc = "new" /\ users' = users /\ rpc' = [rpc EXCEPT ![c] = Rejected]
    BY <1>1 DEF RejectStream, At
  <2>2. Verdict(rpc[c]) = C!Nothing /\ Verdict(Rejected) = C!Nothing
    BY <1>0, <2>1, VerdictOf DEF Records, Rejected
  <2> QED
    BY <2>1, <2>2, SilentCall
<1>2. ASSUME NEW c \in Calls, CloseStream(c) PROVE UNCHANGED C!credVars
  <2>1. /\ rpc[c] \in StreamCall /\ users' = users
        /\ rpc' = [rpc EXCEPT ![c] = [rpc[c] EXCEPT !.pc = "done", !.outcome = "OK"]]
    BY <1>0, <1>2, RecordKinds DEF CloseStream, At, Answer
  <2>2. Verdict([rpc[c] EXCEPT !.pc = "done", !.outcome = "OK"]) = Verdict(rpc[c])
    BY <2>1 DEF Verdict, StreamCall
  <2> QED
    BY <2>1, <2>2, SilentCall
<1>3. CASE Kill
  <2>1. ASSUME NEW c \in Calls PROVE Verdict(rpc'[c]) = Verdict(rpc[c])
    <3>1. rpc'[c] = rpc[c] \/ /\ rpc[c].pc \notin {"new", "done", "rejected"}
                              /\ rpc'[c] = [rpc[c] EXCEPT !.pc = "done", !.outcome = "lost"]
      BY <1>3 DEF Kill
    <3>2. CASE rpc[c] \in StreamCall
      BY <3>1, <3>2 DEF Verdict, StreamCall
    <3>3. CASE /\ rpc[c].pc \in {"create", "registered", "find", "check", "checked"}
               /\ rpc[c] \in RegisterCall \cup LoginCall
      <4>1. Verdict(rpc[c]) = C!Nothing
        BY <1>0, <3>3, VerdictOf
      <4>2. Verdict([rpc[c] EXCEPT !.pc = "done", !.outcome = "lost"]) = C!Nothing
        BY <3>3 DEF Verdict, C!Nothing, RegisterCall, LoginCall
      <4> QED
        BY <3>1, <4>1, <4>2
    <3> QED
      BY <1>0, <3>1, <3>2, <3>3, RecordKinds
  <2> QED
    BY <1>3, <2>1, SilentStep DEF Kill
<1> QED
  BY <1>1, <1>2, <1>3

LEMMA CredInitially == AccountsInit => C!CredInit
<1> SUFFICES ASSUME AccountsInit PROVE C!CredInit
  OBVIOUS
<1> DEFINE docs == {[name |-> u.email, password |-> u.password] : u \in users}
<1>1. AccountsInv /\ users = OldUsers
  BY InitInv DEF AccountsInit
<1>2. \A x, y \in docs : x.name = y.name => x = y
  <2> SUFFICES ASSUME NEW u \in users, NEW v \in users, u.email = v.email
               PROVE  u = v
    OBVIOUS
  <2> QED
    BY <1>1 DEF AccountsInv, UniqueAccounts
<1>3. {Email[OldToken[h].email] : h \in Old} \subseteq {x.name : x \in docs}
  <2> SUFFICES ASSUME NEW h \in Old
               PROVE  Email[OldToken[h].email] \in {x.name : x \in docs}
    OBVIOUS
  <2> DEFINE n == Email[OldToken[h].email]
             u == [id |-> h, email |-> n, password |-> OldPassword[h]]
             x == [name |-> n, password |-> OldPassword[h]]
  <2>1. u \in users /\ u.email = n /\ u.password = OldPassword[h] /\ x.name = n
    BY <1>1 DEF OldUsers
  <2> HIDE DEF u
  <2>2. x \in docs
    BY <2>1
  <2> HIDE DEF x, docs
  <2> QED
    BY <2>1, <2>2
<1>4. [c \in Calls |-> Verdict(rpc[c])] = [c \in Calls |-> C!Nothing]
  <2>1. Verdict(New) = C!Nothing
    BY VerdictOf DEF Records, New
  <2> QED
    BY <2>1 DEF AccountsInit
<1> QED
  BY <1>2, <1>3, <1>4 DEF C!CredInit

\* Registrations, logins and streams, over every race, lost reply, crash and key
\* rotation, are those of Credentials: each of their steps makes one account,
\* gives one answer that is true then, or is a stutter.
THEOREM AccountsAreCredentials == AccountsSpec => CredentialsSpec
<1>1. AccountsInv /\ TokensEarned /\ [AccountsNext]_accountsVars
        => [C!CredNext]_(C!credVars)
  <2> SUFFICES ASSUME AccountsInv, TokensEarned, [AccountsNext]_accountsVars
               PROVE  [C!CredNext]_(C!credVars)
    OBVIOUS
  <2>1. CASE users' = users /\ rpc' = rpc
    BY <2>1, SilentStep
  <2>2. ASSUME NEW e \in Configs, Start(e) PROVE users' = users /\ rpc' = rpc
    BY <2>2 DEF Start
  <2>3. CASE Tick \/ UNCHANGED accountsVars
    BY <2>1, <2>3 DEF Tick, accountsVars
  <2> QED
    BY <2>1, <2>2, <2>3, BeginIsSilent, CreateUserRefines, RegisterReturnRefines,
       FindUserIsSilent, CheckPasswordRefines, LoginReturnRefines, OpenStreamRefines,
       EndsAreSilent DEF AccountsNext
<1>2. AccountsInv /\ TokensEarned /\ [AccountsNext]_accountsVars => TokensEarned'
  BY EarnedNext
<1> QED
  BY <1>1, <1>2, EarnedInit, CredInitially, AccountsInvariant, PTL
     DEF AccountsSpec, CredentialsSpec, C!CredSpec
================================================================================
