-------------------------- MODULE MessageStoreProofs --------------------------
(*****************************************************************************)
(* Proofs about MessageStore: what GetHistory and ListChats deliver, for     *)
(* every number of messages, users, readers and limits, while messages are   *)
(* saved and the process is killed.                                          *)
(*****************************************************************************)
EXTENDS MessageStore, FiniteSetTheorems, SequenceTheorems, TLAPS

LEMMA StoreFacts ==
  /\ \A a \in Addrs : Email[a] \in Emails
  /\ Emails \subseteq Addrs
  /\ \A e \in Emails : Email[e] = e
  /\ HistoryLimit \in Nat \ {0} /\ DefaultLimit \in Nat \ {0} /\ Limits \subseteq Int
BY StoreAssumption DEF Emails

-------------------------------------------------------------------------------
(* Sorting, limits and reversal.                                             *)

\* An order of a finite set is a sequence of all of it without repetition.
LEMMA OrderFacts ==
  ASSUME NEW S, IsFiniteSet(S), NEW q \in SetToSeqs(S)
  PROVE  /\ q \in Seq(S)
         /\ \A i, j \in DOMAIN q : i # j => q[i] # q[j]
         /\ \A x \in S : \E i \in DOMAIN q : q[i] = x
<1> DEFINE n == Cardinality(S)
<1>1. n \in Nat
  BY FS_CardinalityType
<1>2. q \in [1 .. n -> S] /\ \A i, j \in 1 .. n : i # j => q[i] # q[j]
  BY DEF SetToSeqs
<1>3. q \in Seq(S)
  BY <1>1, <1>2
<1>4. IsFiniteSet(1 .. n) /\ Cardinality(1 .. n) = n
  BY <1>1, FS_Interval
<1>5. q \in Injection(1 .. n, S)
  BY <1>2 DEF Injection, IsInjective
<1>6. q \in Surjection(1 .. n, S)
  BY <1>4, <1>5, FS_Injection
<1> QED
  BY <1>2, <1>3, <1>6 DEF Surjection

\* A limit keeps a prefix, all of it if it is not reached.
LEMMA LimitFacts ==
  ASSUME NEW S, NEW q \in Seq(S), NEW n \in Nat \ {0}
  PROVE  LET l == Limited(q, n)
         IN  /\ l \in Seq(S)
             /\ Len(l) <= n /\ Len(l) <= Len(q)
             /\ Len(l) < n => Len(l) = Len(q)
             /\ \A i \in 1 .. Len(l) : l[i] = q[i]
<1>1. CASE Len(q) > n
  <2>1. SubSeq(q, 1, n) \in Seq(S) /\ Len(SubSeq(q, 1, n)) = n
    BY <1>1
  <2>2. \A i \in 1 .. n : SubSeq(q, 1, n)[i] = q[i]
    BY <1>1
  <2> QED
    BY <1>1, <2>1, <2>2 DEF Limited
<1>2. CASE ~(Len(q) > n)
  BY <1>2 DEF Limited
<1> QED
  BY <1>1, <1>2

LEMMA ReverseFacts ==
  ASSUME NEW S, NEW q \in Seq(S)
  PROVE  /\ Reverse(q) \in Seq(S)
         /\ Len(Reverse(q)) = Len(q)
         /\ \A i \in 1 .. Len(q) : Reverse(q)[i] = q[(Len(q) - i) + 1]
<1> DEFINE n == Len(q)
<1>1. n \in Nat /\ \A i \in 1 .. n : q[(n - i) + 1] \in S
  OBVIOUS
<1>2. Reverse(q) \in [1 .. n -> S]
  BY <1>1 DEF Reverse
<1> QED
  BY <1>1, <1>2 DEF Reverse

-------------------------------------------------------------------------------
(* What the queries answer.                                                  *)

LEMMA DocsFinite ==
  ASSUME StoreTypeOK
  PROVE  /\ ToSet(docs) \subseteq Messages
         /\ IsFiniteSet(ToSet(docs))
         /\ DOMAIN docs = 1 .. Len(docs) /\ Len(docs) \in Nat
         /\ IsFiniteSet(DOMAIN docs)
<1>1. docs \in Seq(Messages) /\ Len(docs) \in Nat /\ DOMAIN docs = 1 .. Len(docs)
  BY DEF StoreTypeOK
<1>2. IsFiniteSet(DOMAIN docs)
  BY <1>1, FS_Interval
<1> DEFINE f == [i \in DOMAIN docs |-> docs[i]]
<1>3. f \in Surjection(DOMAIN docs, ToSet(docs))
  BY DEF Surjection, ToSet
<1>4. IsFiniteSet(ToSet(docs))
  BY <1>2, <1>3, FS_Surjection
<1> QED
  BY <1>1, <1>2, <1>4 DEF ToSet

\* The newest of the matching messages, oldest first.
LEMMA HistoryAnswer ==
  ASSUME StoreTypeOK, NEW u, NEW v, NEW n \in Nat \ {0},
         NEW q \in GetMessageHistory(u, v, n)
  PROVE  /\ q \in Seq(Messages)
         /\ \A i, j \in DOMAIN q : i < j => /\ q[i] # q[j]
                                            /\ sentAt[q[i]] <= sentAt[q[j]]
         /\ ToSet(q) \subseteq Matching(u, v)
         /\ \A m \in Matching(u, v) \ ToSet(q) :
              /\ Len(q) = n
              /\ \A i \in DOMAIN q : sentAt[m] <= sentAt[q[i]]
<1> DEFINE S == Matching(u, v)
<1>1. PICK s \in NewestFirst(S) : q = Reverse(Limited(s, n))
  BY DEF GetMessageHistory
<1>2. S \subseteq Messages /\ IsFiniteSet(S)
  BY DocsFinite, FS_Subset DEF Matching
<1>3. /\ s \in SetToSeqs(S)
      /\ \A i, j \in DOMAIN s : i < j => sentAt[s[i]] >= sentAt[s[j]]
  BY <1>1 DEF NewestFirst
<1> DEFINE l == Limited(s, n)
<1>4. /\ s \in Seq(S)
      /\ \A i, j \in DOMAIN s : i # j => s[i] # s[j]
      /\ \A x \in S : \E i \in DOMAIN s : s[i] = x
  BY <1>2, <1>3, OrderFacts
<1>5. /\ l \in Seq(S) /\ Len(l) <= n /\ Len(l) <= Len(s)
      /\ Len(l) < n => Len(l) = Len(s)
      /\ \A i \in 1 .. Len(l) : l[i] = s[i]
  BY <1>4, LimitFacts
<1>6. /\ q \in Seq(S) /\ Len(q) = Len(l)
      /\ \A i \in 1 .. Len(l) : q[i] = l[(Len(l) - i) + 1]
  BY <1>1, <1>5, ReverseFacts
<1> HIDE DEF S, l
<1>7. \A m \in S : sentAt[m] \in Nat
  BY <1>2, StoreAssumption DEF StoreTypeOK
<1>8. /\ Len(l) \in Nat /\ Len(s) \in Nat
      /\ DOMAIN q = 1 .. Len(l) /\ DOMAIN s = 1 .. Len(s)
  BY <1>4, <1>5, <1>6
<1>9. \A i \in 1 .. Len(l) : q[i] = s[(Len(l) - i) + 1] /\ (Len(l) - i) + 1 \in DOMAIN s
  <2> SUFFICES ASSUME NEW i \in 1 .. Len(l)
               PROVE  q[i] = s[(Len(l) - i) + 1] /\ (Len(l) - i) + 1 \in DOMAIN s
    OBVIOUS
  <2> DEFINE k == (Len(l) - i) + 1
  <2>1. Len(l) <= Len(s)
    BY <1>5
  <2>2. k \in 1 .. Len(l) /\ k \in 1 .. Len(s)
    BY <1>8, <2>1
  <2>3. q[i] = l[k]
    BY <1>6
  <2> HIDE DEF k
  <2>4. l[k] = s[k]
    BY <1>5, <2>2
  <2>5. q[i] = s[k] /\ k \in DOMAIN s
    BY <1>8, <2>2, <2>3, <2>4
  <2> QED
    BY <2>5 DEF k
<1>10. \A i \in DOMAIN s : s[i] \in S
  BY <1>4
<1>11. \A i, j \in DOMAIN q : i < j => q[i] # q[j] /\ sentAt[q[i]] <= sentAt[q[j]]
  <2> SUFFICES ASSUME NEW i \in 1 .. Len(l), NEW j \in 1 .. Len(l), i < j
               PROVE  q[i] # q[j] /\ sentAt[q[i]] <= sentAt[q[j]]
    BY <1>8
  <2>1. (Len(l) - j) + 1 < (Len(l) - i) + 1
    BY <1>8
  <2>2. /\ s[(Len(l) - j) + 1] # s[(Len(l) - i) + 1]
        /\ sentAt[s[(Len(l) - j) + 1]] >= sentAt[s[(Len(l) - i) + 1]]
    BY <1>3, <1>4, <1>9, <2>1
  <2> QED
    BY <1>7, <1>9, <1>10, <2>2
<1>12. ASSUME NEW m \in S, m \notin ToSet(q)
       PROVE  /\ Len(q) = n
              /\ \A i \in DOMAIN q : sentAt[m] <= sentAt[q[i]]
  <2>1. PICK k \in DOMAIN s : s[k] = m
    BY <1>4
  <2>2. ~(k <= Len(l))
    <3> SUFFICES ASSUME k <= Len(l) PROVE FALSE
      OBVIOUS
    <3>1. (Len(l) - k) + 1 \in 1 .. Len(l) /\ (Len(l) - ((Len(l) - k) + 1)) + 1 = k
      BY <1>8, <2>1
    <3>2. q[(Len(l) - k) + 1] = m
      BY <1>9, <2>1, <3>1
    <3> QED
      BY <1>8, <1>12, <3>1, <3>2 DEF ToSet
  <2>3. Len(q) = n
    <3>1. Len(l) # Len(s)
      BY <1>8, <2>1, <2>2
    <3>2. Len(l) <= n /\ ~(Len(l) < n) /\ n \in Nat
      BY <1>5, <3>1
    <3>3. Len(l) = n
      BY <1>8, <3>2
    <3> QED
      BY <1>6, <3>3
  <2>4. ASSUME NEW i \in 1 .. Len(l) PROVE sentAt[m] <= sentAt[q[i]]
    <3>1. (Len(l) - i) + 1 < k
      BY <1>8, <2>1, <2>2
    <3>2. sentAt[s[(Len(l) - i) + 1]] >= sentAt[s[k]]
      BY <1>3, <1>9, <2>1, <3>1
    <3> QED
      BY <1>7, <1>9, <1>10, <1>12, <2>1, <3>2
  <2> QED
    BY <1>8, <2>3, <2>4
<1>13. q \in Seq(Messages)
  BY <1>2, <1>6
<1>14. ToSet(q) \subseteq S
  BY <1>6 DEF ToSet
<1> QED
  BY <1>11, <1>12, <1>13, <1>14 DEF S

\* The two ends of a message of u are u and the partner.
LEMMA PartnerFacts ==
  ASSUME StoreTypeOK, NEW m \in Messages, NEW u, u \in {from[m], to[m]}
  PROVE  /\ PartnerOf(m, u) \in Emails
         /\ {from[m], to[m]} = {u, PartnerOf(m, u)}
         /\ \A p : {from[m], to[m]} = {u, p} => p = PartnerOf(m, u)
BY DEF PartnerOf, StoreTypeOK

\* Every result of $group has one document per partner, with a message of theirs.
LEMMA GroupFacts ==
  ASSUME StoreTypeOK, NEW u, NEW S \in Groups(u)
  PROVE  /\ IsFiniteSet(S) /\ S \subseteq Partner
         /\ \A g \in S : g.last \in GroupOf(u, g.email)
         /\ \A g, h \in S : g.email = h.email => g = h
         /\ \A p \in Partners(u) : \E g \in S : g.email = p
<1> DEFINE M == {m \in ToSet(docs) : PartnerOf(m, u) \in Partners(u)}
           P == Partners(u)
           G(p, l) == [email |-> p, last |-> l]
<1>1. PICK pick \in [P -> ToSet(docs)] :
        /\ \A p \in P : pick[p] \in GroupOf(u, p)
        /\ S = {G(p, pick[p]) : p \in P}
  BY DEF Groups
<1>2. IsFiniteSet(P)
  <2> DEFINE f == [m \in M |-> PartnerOf(m, u)]
  <2>1. \A p \in P : \E m \in M : PartnerOf(m, u) = p
    BY DEF Partners, GroupOf
  <2>2. f \in Surjection(M, P)
    BY <2>1 DEF Surjection
  <2>3. IsFiniteSet(M)
    BY DocsFinite, FS_Subset
  <2> QED
    BY <2>2, <2>3, FS_Surjection
<1>3. IsFiniteSet(S)
  <2> DEFINE f == [p \in P |-> G(p, pick[p])]
  <2>1. f \in Surjection(P, S)
    BY <1>1 DEF Surjection
  <2> QED
    BY <1>2, <2>1, FS_Surjection
<1>4. P \subseteq Emails /\ ToSet(docs) \subseteq Messages
  BY DocsFinite DEF Partners
<1>5. S \subseteq Partner
  <2>1. \A p \in P : p \in Emails /\ pick[p] \in Messages
    BY <1>1, <1>4
  <2> QED
    BY <1>1, <2>1 DEF Partner
<1>6. \A g \in S : g.email \in P /\ g.last = pick[g.email] /\ g = G(g.email, g.last)
  BY <1>1
<1>7. \A p \in P : G(p, pick[p]) \in S /\ G(p, pick[p]).email = p
  BY <1>1
<1>8. \A g \in S : g.last \in GroupOf(u, g.email)
  BY <1>1, <1>6
<1>9. \A g, h \in S : g.email = h.email => g = h
  BY <1>6
<1>10. \A p \in P : \E g \in S : g.email = p
  BY <1>7
<1> QED
  BY <1>3, <1>5, <1>8, <1>9, <1>10

\* Each partner of u once, all of them unless the limit is reached.
LEMMA ChatsAnswer ==
  ASSUME StoreTypeOK, NEW u, NEW n \in Nat \ {0}, NEW q \in GetRecentChats(u, n)
  PROVE  /\ q \in Seq(Partner) /\ Len(q) <= n
         /\ \A i \in DOMAIN q : q[i].last \in GroupOf(u, q[i].email)
         /\ \A i, j \in DOMAIN q : q[i].email = q[j].email => i = j
         /\ Len(q) < n => \A p \in Partners(u) : \E i \in DOMAIN q : q[i].email = p
<1>1. PICK S \in Groups(u) : \E s \in LatestFirst(S) : q = Limited(s, n)
  BY DEF GetRecentChats
<1>2. PICK s \in SetToSeqs(S) : q = Limited(s, n)
  BY <1>1 DEF LatestFirst
<1>3. /\ IsFiniteSet(S) /\ S \subseteq Partner
      /\ \A g \in S : g.last \in GroupOf(u, g.email)
      /\ \A g, h \in S : g.email = h.email => g = h
      /\ \A p \in Partners(u) : \E g \in S : g.email = p
  BY GroupFacts
<1>4. /\ s \in Seq(S)
      /\ \A i, j \in DOMAIN s : i # j => s[i] # s[j]
      /\ \A x \in S : \E i \in DOMAIN s : s[i] = x
  BY <1>3, OrderFacts
<1>5. /\ q \in Seq(S) /\ Len(q) <= n /\ Len(q) <= Len(s)
      /\ Len(q) < n => Len(q) = Len(s)
      /\ \A i \in 1 .. Len(q) : q[i] = s[i]
  BY <1>2, <1>4, LimitFacts
<1>6. /\ DOMAIN q = 1 .. Len(q) /\ DOMAIN s = 1 .. Len(s)
      /\ Len(q) \in Nat /\ Len(s) \in Nat
  BY <1>4, <1>5
<1>7. DOMAIN q \subseteq DOMAIN s
  <2>1. Len(q) <= Len(s)
    BY <1>5
  <2> QED
    BY <1>6, <2>1
<1>8. \A i \in DOMAIN q : q[i] \in S
  BY <1>5
<1>9. \A i, j \in DOMAIN q : q[i].email = q[j].email => i = j
  <2> SUFFICES ASSUME NEW i \in DOMAIN q, NEW j \in DOMAIN q, q[i].email = q[j].email
               PROVE  i = j
    OBVIOUS
  <2>1. q[i] = q[j]
    BY <1>3, <1>8
  <2>2. i \in DOMAIN s /\ j \in DOMAIN s /\ q[i] = s[i] /\ q[j] = s[j]
    BY <1>5, <1>6, <1>7
  <2> QED
    BY <1>4, <2>1, <2>2
<1>10. Len(q) < n => \A g \in S : \E i \in DOMAIN q : q[i] = g
  BY <1>4, <1>5, <1>6
<1>11. q \in Seq(Partner)
  BY <1>3, <1>5
<1> QED
  BY <1>3, <1>5, <1>8, <1>9, <1>10, <1>11

-------------------------------------------------------------------------------
(* The answer of a reader stays right.                                       *)

LEMMA ReaderTyped ==
  ASSUME StoreTypeOK, NEW r \in Readers, reader[r].pc # "new"
  PROVE  /\ reader[r] \in Reading
         /\ reader[r].seen \in Nat /\ reader[r].sent \in Nat
         /\ reader[r].result \in Seq(Messages) \cup Seq(Partner)
         /\ Len(reader[r].result) \in Nat
<1>1. reader[r] \in Reading
  BY DEF StoreTypeOK, Idle
<1>2. reader[r].result \in Seq(Messages) \cup Seq(Partner)
  BY <1>1 DEF Reading
<1> QED
  BY <1>1, <1>2 DEF Reading

\* What is inserted or stamped later does not touch what the query of r saw.
LEMMA AnswerKept ==
  ASSUME StoreTypeOK, NEW r \in Readers, reader[r].pc # "new",
         reader[r].seen <= Len(docs),
         \A i \in 1 .. Len(docs) :
           docs'[i] = docs[i] /\ sentAt'[docs[i]] = sentAt[docs[i]],
         UNCHANGED <<from, to>>,
         reader'[r].user = reader[r].user, reader'[r].with = reader[r].with,
         reader'[r].limit = reader[r].limit, reader'[r].seen = reader[r].seen,
         NEW q
  PROVE  /\ NewestOf(r, q) => NewestOf(r, q)'
         /\ PartnersOf(r, q) => PartnersOf(r, q)'
<1> DEFINE n == reader[r].seen
<1>1. n \in Nat /\ Len(docs) \in Nat /\ n <= Len(docs)
  BY ReaderTyped, DocsFinite
<1>2. \A i \in 1 .. n : docs'[i] = docs[i] /\ sentAt'[docs[i]] = sentAt[docs[i]]
  BY <1>1
<1>3. reader'[r].seen = n
  OBVIOUS
<1> HIDE DEF n
<1>4. Seen(r)' = Seen(r)
  BY <1>2, <1>3 DEF Seen, n
<1>5. \A m \in Seen(r) : sentAt'[m] = sentAt[m]
  BY <1>2 DEF Seen, n
<1>6. Conversation(r)' = Conversation(r) /\ Conversation(r) \subseteq Seen(r)
  BY <1>4 DEF Conversation
<1>7. \A p : With(r, p)' = With(r, p) /\ With(r, p) \subseteq Seen(r)
  BY <1>4 DEF With, Mine
<1>8. NewestOf(r, q) => NewestOf(r, q)'
  <2> SUFFICES ASSUME NewestOf(r, q) PROVE NewestOf(r, q)'
    OBVIOUS
  <2>1. \A i \in DOMAIN q : sentAt'[q[i]] = sentAt[q[i]]
    BY <1>5, <1>6 DEF NewestOf, ToSet
  <2> QED
    BY <1>5, <1>6, <2>1 DEF NewestOf
<1>9. PartnersOf(r, q) => PartnersOf(r, q)'
  BY <1>7 DEF PartnersOf
<1> QED
  BY <1>8, <1>9

\* A step of the loop of Sends, or of others, for a reader that has its answer.
LEMMA ReaderKept ==
  ASSUME StoreInv, NEW r \in Readers, reader[r].pc # "new",
         Len(docs') \in Nat, Len(docs) <= Len(docs'),
         \A i \in 1 .. Len(docs) :
           docs'[i] = docs[i] /\ sentAt'[docs[i]] = sentAt[docs[i]],
         UNCHANGED <<from, to>>,
         reader'[r].user = reader[r].user, reader'[r].with = reader[r].with,
         reader'[r].limit = reader[r].limit, reader'[r].seen = reader[r].seen,
         reader'[r].result = reader[r].result, reader'[r].method = reader[r].method,
         reader'[r].sent <= Len(reader[r].result),
         reader'[r].pc = "send" => reader'[r].outcome = "none",
         reader'[r].outcome = "OK" => reader'[r].sent = Len(reader[r].result),
         reader'[r].outcome # "Internal" => reader[r].outcome # "Internal"
  PROVE  AnswerInv(r)'
<1> PICK q : q = reader[r].result
  OBVIOUS
<1>1. /\ StoreTypeOK /\ AnswerInv(r) /\ reader'[r].result = q
      /\ reader[r].seen <= Len(docs)
  BY DEF StoreInv, AnswerInv
<1>2. reader[r].seen <= Len(docs')
  <2>1. reader[r].seen \in Nat /\ Len(docs) \in Nat
    BY <1>1, ReaderTyped, DocsFinite
  <2> QED
    BY <1>1, <2>1
<1>3. /\ NewestOf(r, q) => NewestOf(r, q)'
      /\ PartnersOf(r, q) => PartnersOf(r, q)'
  BY <1>1, AnswerKept
<1>4. /\ NewestOf(r, reader[r].result)' <=> NewestOf(r, q)'
      /\ PartnersOf(r, reader[r].result)' <=> PartnersOf(r, q)'
  BY <1>1 DEF NewestOf, PartnersOf
<1> QED
  BY <1>1, <1>2, <1>3, <1>4 DEF AnswerInv
-------------------------------------------------------------------------------
(* The steps.                                                                *)

\* The collection only grows, and what is in it keeps its addresses and time.
CollectionKept ==
  /\ Len(docs') \in Nat /\ Len(docs) <= Len(docs')
  /\ \A i \in 1 .. Len(docs) :
       docs'[i] = docs[i] /\ sentAt'[docs[i]] = sentAt[docs[i]]
  /\ UNCHANGED <<from, to>>

\* A step of another reader, of a writer or of the clock.
LEMMA OtherKept ==
  ASSUME StoreInv, CollectionKept, NEW r \in Readers, reader'[r] = reader[r]
  PROVE  AnswerInv(r)'
<1>1. AnswerInv(r)
  BY DEF StoreInv
<1>2. CASE reader[r].pc = "new"
  BY <1>2 DEF AnswerInv
<1>3. CASE reader[r].pc # "new"
  BY <1>1, <1>3, ReaderKept DEF AnswerInv, CollectionKept
<1> QED
  BY <1>2, <1>3

LEMMA NothingSaved ==
  ASSUME StoreTypeOK, UNCHANGED <<sentAt, from, to, docs>>
  PROVE  CollectionKept
BY DocsFinite DEF CollectionKept

LEMMA StampStep ==
  ASSUME StoreInv, NEW m \in Messages, Stamp(m)
  PROVE  StoreInv'
<1>1. /\ StoreTypeOK /\ sentAt[m] = 0 /\ sentAt' = [sentAt EXCEPT ![m] = clock]
      /\ writing' = writing \cup {m}
      /\ UNCHANGED <<clock, from, to, docs, reader>>
      /\ \A x \in ToSet(docs) \cup writing : sentAt[x] # 0
  BY DEF Stamp, StoreInv
<1>2. clock \in 1 .. MaxClock /\ clock \in 0 .. MaxClock /\ clock # 0
  BY <1>1, StoreAssumption DEF StoreTypeOK
<1>3. StoreTypeOK'
  BY <1>1, <1>2 DEF StoreTypeOK
<1>4. CollectionKept
  <2>1. \A i \in 1 .. Len(docs) : docs[i] \in ToSet(docs) /\ docs[i] \in Messages
    BY <1>1, DocsFinite DEF ToSet, StoreTypeOK
  <2>2. \A i \in 1 .. Len(docs) : docs[i] # m
    BY <1>1, <2>1
  <2> QED
    BY <1>1, <2>1, <2>2, DocsFinite DEF CollectionKept, StoreTypeOK
<1>5. \A x \in ToSet(docs)' \cup writing' : sentAt'[x] # 0
  <2>1. ToSet(docs)' = ToSet(docs) /\ ToSet(docs) \cup writing \subseteq Messages
    BY <1>1, DocsFinite DEF ToSet, StoreTypeOK
  <2> QED
    BY <1>1, <1>2, <2>1 DEF StoreTypeOK
<1>6. \A r \in Readers : AnswerInv(r)'
  BY <1>1, <1>4, OtherKept
<1> QED
  BY <1>3, <1>5, <1>6 DEF StoreInv

LEMMA InsertStep ==
  ASSUME StoreInv, NEW m \in Messages, Insert(m)
  PROVE  StoreInv'
<1>1. /\ StoreTypeOK /\ m \in writing /\ writing' = writing \ {m}
      /\ docs' = Append(docs, m) \/ docs' = docs
      /\ UNCHANGED <<clock, sentAt, from, to, reader>>
      /\ \A x \in ToSet(docs) \cup writing : sentAt[x] # 0
  BY DEF Insert, StoreInv
<1>2. /\ docs' \in Seq(Messages) /\ Len(docs') \in Nat /\ Len(docs) <= Len(docs')
      /\ \A i \in 1 .. Len(docs) : docs'[i] = docs[i]
      /\ ToSet(docs)' \subseteq ToSet(docs) \cup {m}
  <2>1. docs \in Seq(Messages) /\ Len(docs) \in Nat
    BY <1>1 DEF StoreTypeOK
  <2>2. CASE docs' = docs
    BY <2>1, <2>2 DEF ToSet
  <2>3. CASE docs' = Append(docs, m)
    <3>1. /\ docs' \in Seq(Messages) /\ Len(docs') = Len(docs) + 1
          /\ \A i \in 1 .. Len(docs) : docs'[i] = docs[i]
          /\ docs'[Len(docs) + 1] = m
      BY <2>1, <2>3, AppendProperties
    <3>2. DOMAIN docs' = 1 .. (Len(docs) + 1)
      BY <3>1
    <3>3. \A i \in DOMAIN docs' : docs'[i] \in ToSet(docs) \cup {m}
      BY <2>1, <3>1, <3>2 DEF ToSet
    <3> QED
      BY <2>1, <3>1, <3>3 DEF ToSet
  <2> QED
    BY <1>1, <2>2, <2>3
<1>3. StoreTypeOK'
  BY <1>1, <1>2 DEF StoreTypeOK
<1>4. CollectionKept
  BY <1>1, <1>2 DEF CollectionKept
<1>5. \A x \in ToSet(docs)' \cup writing' : sentAt'[x] # 0
  BY <1>1, <1>2
<1>6. \A r \in Readers : AnswerInv(r)'
  BY <1>1, <1>4, OtherKept
<1> QED
  BY <1>3, <1>5, <1>6 DEF StoreInv

\* A step of one reader alone.
LEMMA ReaderStep ==
  ASSUME StoreInv, NEW r \in Readers, NEW f \in Reading,
         reader' = [reader EXCEPT ![r] = f],
         UNCHANGED <<clock, sentAt, from, to, docs, writing>>,
         AnswerInv(r)'
  PROVE  StoreInv'
<1>1. StoreTypeOK /\ CollectionKept
  BY NothingSaved DEF StoreInv
<1>2. StoreTypeOK'
  BY <1>1 DEF StoreTypeOK
<1>3. \A x \in ToSet(docs)' \cup writing' : sentAt'[x] # 0
  BY DEF StoreInv, ToSet
<1>4. \A t \in Readers \ {r} : reader'[t] = reader[t]
  BY <1>1 DEF StoreTypeOK
<1>5. \A t \in Readers : AnswerInv(t)'
  BY <1>1, <1>4, OtherKept
<1> QED
  BY <1>2, <1>3, <1>5 DEF StoreInv

\* The query of a reader fails.
LEMMA FailedQuery ==
  ASSUME StoreInv, NEW r \in Readers, NEW method \in {"GetHistory", "ListChats"},
         NEW u \in Emails, NEW v \in Addrs, NEW n \in Int,
         QueryFails(r, method, u, v, n),
         UNCHANGED <<clock, sentAt, from, to, docs, writing>>
  PROVE  StoreInv'
<1> DEFINE f == [pc |-> "done", method |-> method, user |-> u, with |-> v,
                 limit |-> n, result |-> <<>>, sent |-> 0, outcome |-> "Internal",
                 seen |-> Len(docs)]
<1>1. StoreTypeOK /\ Len(docs) \in Nat
  BY DocsFinite DEF StoreInv
<1>2. f \in Reading
  BY <1>1 DEF Reading
<1>3. reader' = [reader EXCEPT ![r] = f] /\ reader'[r] = f
  BY <1>1 DEF QueryFails, StoreTypeOK
<1>4. AnswerInv(r)'
  BY <1>1, <1>3 DEF AnswerInv
<1> QED
  BY <1>2, <1>3, <1>4, ReaderStep

\* The loop of Sends.
LEMMA SendStep ==
  ASSUME StoreInv, NEW r \in Readers, SendNext(r) \/ SendFails(r) \/ SentAll(r)
  PROVE  StoreInv'
<1> DEFINE old == reader[r]
           n == Len(reader[r].result)
<1>1. /\ StoreTypeOK /\ AnswerInv(r) /\ old.pc = "send"
      /\ UNCHANGED <<clock, sentAt, from, to, docs, writing>>
  BY DEF StoreInv, SendNext, SendFails, SentAll
<1>2. old \in Reading /\ old.sent \in Nat /\ n \in Nat /\ old.outcome = "none"
  BY <1>1, ReaderTyped DEF AnswerInv
<1>3. PICK f :
        /\ reader' = [reader EXCEPT ![r] = f]
        /\ \/ f = [old EXCEPT !.sent = old.sent + 1] /\ old.sent < n
           \/ f = [old EXCEPT !.pc = "done", !.outcome = "Internal"] /\ old.sent < n
           \/ f = [old EXCEPT !.pc = "done", !.outcome = "OK"] /\ old.sent = n
  BY DEF SendNext, SendFails, SentAll
<1>4. /\ f \in Reading
      /\ f.user = old.user /\ f.with = old.with /\ f.limit = old.limit
      /\ f.seen = old.seen /\ f.result = old.result /\ f.method = old.method
      /\ f.sent <= n
      /\ f.pc = "send" => f.outcome = "none"
      /\ f.outcome = "OK" => f.sent = n
  <2>1. CASE f = [old EXCEPT !.sent = old.sent + 1] /\ old.sent < n
    <3>1. old.sent + 1 \in Nat /\ old.sent + 1 <= n
      BY <1>2, <2>1
    <3> QED
      BY <1>2, <2>1, <3>1 DEF Reading
  <2>2. CASE f = [old EXCEPT !.pc = "done", !.outcome = "Internal"] /\ old.sent < n
    <3>1. old.sent <= n
      BY <1>2, <2>2
    <3> QED
      BY <1>2, <2>2, <3>1 DEF Reading
  <2>3. CASE f = [old EXCEPT !.pc = "done", !.outcome = "OK"] /\ old.sent = n
    <3>1. old.sent <= n
      BY <1>2, <2>3
    <3> QED
      BY <1>2, <2>3, <3>1 DEF Reading
  <2> QED
    BY <1>3, <2>1, <2>2, <2>3
<1>5. reader'[r] = f
  BY <1>1, <1>3 DEF StoreTypeOK
<1>6. CollectionKept
  BY <1>1, NothingSaved
<1>7. AnswerInv(r)'
  BY <1>1, <1>2, <1>4, <1>5, <1>6, ReaderKept DEF CollectionKept
<1> QED
  BY <1>1, <1>3, <1>4, <1>7, ReaderStep

LEMMA ProcessEndsStep ==
  ASSUME StoreInv, ProcessEnds
  PROVE  StoreInv'
<1>1. /\ StoreTypeOK /\ writing' = {} /\ UNCHANGED <<clock, sentAt, from, to, docs>>
      /\ \A r \in Readers : reader'[r] = IF reader[r].pc = "send"
           THEN [reader[r] EXCEPT !.pc = "done", !.outcome = "Unavailable"]
           ELSE reader[r]
      /\ CollectionKept
  BY NothingSaved DEF StoreInv, ProcessEnds
<1>2. ASSUME NEW r \in Readers
      PROVE  AnswerInv(r)' /\ reader'[r] \in {Idle} \cup Reading
  <2>1. CASE reader[r].pc # "send"
    BY <1>1, <2>1, OtherKept DEF StoreTypeOK
  <2>2. CASE reader[r].pc = "send"
    <3> DEFINE f == [reader[r] EXCEPT !.pc = "done", !.outcome = "Unavailable"]
    <3>1. reader[r] \in Reading /\ AnswerInv(r) /\ reader'[r] = f
      BY <1>1, <2>2, ReaderTyped DEF StoreInv
    <3>2. /\ f \in Reading /\ f.pc = "done" /\ f.outcome = "Unavailable"
          /\ f.user = reader[r].user /\ f.with = reader[r].with
          /\ f.limit = reader[r].limit /\ f.seen = reader[r].seen
          /\ f.result = reader[r].result /\ f.method = reader[r].method
          /\ f.sent = reader[r].sent
      BY <3>1 DEF Reading
    <3>3. reader[r].sent <= Len(reader[r].result) /\ reader[r].outcome = "none"
      BY <2>2, <3>1 DEF AnswerInv
    <3> HIDE DEF f
    <3>4. AnswerInv(r)'
      BY <1>1, <2>2, <3>1, <3>2, <3>3, ReaderKept DEF CollectionKept
    <3> QED
      BY <3>1, <3>2, <3>4
  <2> QED
    BY <2>1, <2>2
<1>3. reader' \in [Readers -> {Idle} \cup Reading]
  <2>1. \A r \in Readers : reader'[r] \in {Idle} \cup Reading
    BY <1>2
  <2>2. reader' = [r \in Readers |-> reader'[r]]
    BY DEF ProcessEnds
  <2> QED
    BY <2>1, <2>2
<1>4. StoreTypeOK'
  BY <1>1, <1>3 DEF StoreTypeOK
<1>5. \A x \in ToSet(docs)' \cup writing' : sentAt'[x] # 0
  BY <1>1 DEF StoreInv, ToSet
<1> QED
  BY <1>2, <1>4, <1>5 DEF StoreInv

LEMMA TickStep ==
  ASSUME StoreInv, Tick
  PROVE  StoreInv'
<1>1. /\ StoreTypeOK /\ clock < MaxClock /\ clock' = clock + 1
      /\ UNCHANGED <<sentAt, from, to, docs, writing, reader>>
  BY DEF StoreInv, Tick
<1>2. clock' \in 1 .. MaxClock
  BY <1>1, StoreAssumption DEF StoreTypeOK
<1>3. StoreTypeOK'
  BY <1>1, <1>2 DEF StoreTypeOK
<1>4. \A r \in Readers : AnswerInv(r)'
  BY <1>1, NothingSaved, OtherKept
<1>5. \A x \in ToSet(docs)' \cup writing' : sentAt'[x] # 0
  BY <1>1 DEF StoreInv, ToSet
<1> QED
  BY <1>3, <1>4, <1>5 DEF StoreInv
LEMMA GetHistoryStep ==
  ASSUME StoreInv, NEW r \in Readers, NEW u \in Emails, NEW v \in Addrs,
         GetHistory(r, u, v)
  PROVE  StoreInv'
<1>1. /\ StoreTypeOK /\ Len(docs) \in Nat /\ Email[u] = u
      /\ UNCHANGED <<clock, sentAt, from, to, docs, writing>>
  BY DocsFinite, StoreFacts DEF StoreInv, GetHistory
<1>2. HistoryLimit \in Nat \ {0} /\ HistoryLimit \in Int
  BY StoreFacts
<1>3. CASE QueryFails(r, "GetHistory", u, v, HistoryLimit)
  BY <1>1, <1>2, <1>3, FailedQuery
<1>4. ASSUME NEW q \in GetMessageHistory(u, v, HistoryLimit),
             Answer(r, "GetHistory", u, v, HistoryLimit, q)
      PROVE  StoreInv'
  <2> DEFINE f == [pc |-> "send", method |-> "GetHistory", user |-> u, with |-> v,
                   limit |-> HistoryLimit, result |-> q, sent |-> 0,
                   outcome |-> "none", seen |-> Len(docs)]
  <2>1. /\ q \in Seq(Messages)
        /\ \A i, j \in DOMAIN q : i < j => /\ q[i] # q[j]
                                           /\ sentAt[q[i]] <= sentAt[q[j]]
        /\ ToSet(q) \subseteq Matching(u, v)
        /\ \A m \in Matching(u, v) \ ToSet(q) :
             /\ Len(q) = HistoryLimit
             /\ \A i \in DOMAIN q : sentAt[m] <= sentAt[q[i]]
    BY <1>1, <1>2, HistoryAnswer
  <2>2. f \in Reading
    BY <1>1, <1>2, <2>1 DEF Reading
  <2>3. reader' = [reader EXCEPT ![r] = f] /\ reader'[r] = f
    BY <1>1, <1>4 DEF Answer, StoreTypeOK
  <2>4. Conversation(r)' = Matching(u, v)
    <3>1. Seen(r)' = ToSet(docs)
      BY <1>1, <2>3, DocsFinite DEF Seen, ToSet
    <3>2. \A m : Between(m, u, v) <=> {from[m], to[m]} = {u, Email[v]}
      BY <1>1 DEF Between
    <3>3. reader'[r].user = u /\ Email[reader'[r].with] = Email[v]
      BY <2>3
    <3>4. Conversation(r)' = {m \in ToSet(docs) : {from[m], to[m]} = {u, Email[v]}}
      <4>1. Conversation(r)' =
              {m \in Seen(r)' : {from'[m], to'[m]} = {reader'[r].user, Email[reader'[r].with]}}
        BY DEF Conversation
      <4> QED
        BY <1>1, <3>1, <3>3, <4>1
    <3> QED
      BY <3>2, <3>4 DEF Matching
  <2>5. NewestOf(r, q)'
    BY <1>1, <2>1, <2>3, <2>4 DEF NewestOf
  <2>6. Len(q) \in Nat
    BY <2>1
  <2>7. AnswerInv(r)'
    BY <1>1, <2>3, <2>5, <2>6 DEF AnswerInv, NewestOf
  <2> QED
    BY <1>1, <2>2, <2>3, <2>7, ReaderStep
<1> QED
  BY <1>3, <1>4 DEF GetHistory

LEMMA ListChatsStep ==
  ASSUME StoreInv, NEW r \in Readers, NEW u \in Emails, NEW n \in Limits,
         ListChats(r, u, n)
  PROVE  StoreInv'
<1>1. /\ StoreTypeOK /\ Len(docs) \in Nat /\ u \in Addrs
      /\ DOMAIN docs = 1 .. Len(docs)
      /\ \A i \in DOMAIN docs : docs[i] \in Messages
      /\ UNCHANGED <<clock, sentAt, from, to, docs, writing>>
  BY DocsFinite, StoreFacts DEF StoreInv, ListChats, StoreTypeOK
<1>2. PICK limit \in Int :
        \/ /\ limit > 0
           /\ \E q \in GetRecentChats(u, limit) :
                Answer(r, "ListChats", u, u, limit, q)
        \/ QueryFails(r, "ListChats", u, u, limit)
  <2>1. (IF n = 0 THEN DefaultLimit ELSE n) \in Int
    BY StoreFacts
  <2> QED
    BY <2>1 DEF ListChats
<1>3. CASE QueryFails(r, "ListChats", u, u, limit)
  BY <1>1, <1>2, <1>3, FailedQuery
<1>4. ASSUME limit > 0, NEW q \in GetRecentChats(u, limit),
             Answer(r, "ListChats", u, u, limit, q)
      PROVE  StoreInv'
  <2> DEFINE f == [pc |-> "send", method |-> "ListChats", user |-> u, with |-> u,
                   limit |-> limit, result |-> q, sent |-> 0,
                   outcome |-> "none", seen |-> Len(docs)]
  <2>0. limit \in Nat \ {0}
    BY <1>4
  <2>1. /\ q \in Seq(Partner) /\ Len(q) <= limit /\ Len(q) \in Nat
        /\ \A i \in DOMAIN q : q[i].last \in GroupOf(u, q[i].email)
        /\ \A i, j \in DOMAIN q : q[i].email = q[j].email => i = j
        /\ Len(q) < limit => \A p \in Partners(u) : \E i \in DOMAIN q : q[i].email = p
    BY <1>1, <2>0, ChatsAnswer
  <2>2. f \in Reading
    BY <1>1, <2>1 DEF Reading
  <2>3. reader' = [reader EXCEPT ![r] = f] /\ reader'[r] = f
    BY <1>1, <1>4 DEF Answer, StoreTypeOK
  <2>4. \A p : With(r, p)' =
          {m \in ToSet(docs) : u \in {from[m], to[m]} /\ {from[m], to[m]} = {u, p}}
    <3>1. Seen(r)' = ToSet(docs)
      BY <1>1, <2>3, DocsFinite DEF Seen, ToSet
    <3>2. reader'[r].user = u
      BY <2>3
    <3>3. Mine(r)' = {m \in ToSet(docs) : u \in {from[m], to[m]}}
      <4>1. Mine(r)' = {m \in Seen(r)' : reader'[r].user \in {from'[m], to'[m]}}
        BY DEF Mine
      <4>2. from' = from /\ to' = to
        BY <1>1
      <4> QED
        BY <3>1, <3>2, <4>1, <4>2
    <3>4. \A p : With(r, p)' =
            {m \in Mine(r)' : {from'[m], to'[m]} = {reader'[r].user, p}}
      BY DEF With
    <3>5. from' = from /\ to' = to
      BY <1>1
    <3> QED
      BY <3>2, <3>3, <3>4, <3>5
  <2>5. \A p : With(r, p)' = GroupOf(u, p)
    <3> TAKE p
    <3>1. ASSUME NEW m \in ToSet(docs), u \in {from[m], to[m]}
          PROVE  {from[m], to[m]} = {u, p} <=> PartnerOf(m, u) = p
      <4>1. m \in Messages
        BY <1>1, DocsFinite
      <4> QED
        BY <1>1, <3>1, <4>1, PartnerFacts
    <3> DEFINE A == {m \in ToSet(docs) : u \in {from[m], to[m]} /\ {from[m], to[m]} = {u, p}}
               B == {m \in ToSet(docs) : u \in {from[m], to[m]} /\ PartnerOf(m, u) = p}
    <3>2. A = B
      BY <3>1
    <3>3. With(r, p)' = A /\ GroupOf(u, p) = B
      BY <2>4 DEF GroupOf
    <3> HIDE DEF A, B
    <3> QED
      BY <3>2, <3>3
  <2>6. \A p \in Emails : With(r, p)' # {} => p \in Partners(u)
    BY <2>5 DEF Partners
  <2>7. PartnersOf(r, q)'
    BY <2>1, <2>3, <2>5, <2>6 DEF PartnersOf
  <2>8. AnswerInv(r)'
    <3>1. /\ reader'[r].pc = "send" /\ reader'[r].method = "ListChats"
          /\ reader'[r].result = q /\ reader'[r].sent = 0
          /\ reader'[r].outcome = "none" /\ reader'[r].user = u
          /\ reader'[r].limit = limit /\ reader'[r].seen = Len(docs)
      BY <2>3
    <3>2. Len(docs') = Len(docs) /\ docs' = docs
      BY <1>1
    <3> HIDE DEF f
    <3> QED
      BY <1>1, <2>1, <2>7, <3>1, <3>2 DEF AnswerInv
  <2> QED
    BY <1>1, <2>2, <2>3, <2>8, ReaderStep
<1> QED
  BY <1>2, <1>3, <1>4

LEMMA StoreInvInit == StoreInit => StoreInv
<1> SUFFICES ASSUME StoreInit PROVE StoreInv
  OBVIOUS
<1>1. from \in [Messages -> Emails] /\ to \in [Messages -> Emails]
  <2>1. PICK t \in [Messages -> Talks] :
          /\ from = [m \in Messages |-> Stored(t[m][1])]
          /\ to = [m \in Messages |-> Stored(t[m][2])]
    BY DEF StoreInit
  <2>2. \A m \in Messages : t[m] \in Addrs \X Addrs
    BY StoreAssumption
  <2> QED
    BY <2>1, <2>2, StoreFacts DEF Stored
<1>2. StoreTypeOK
  BY <1>1, StoreAssumption DEF StoreInit, StoreTypeOK
<1>3. \A m \in ToSet(docs) \cup writing : sentAt[m] # 0
  BY DEF StoreInit, ToSet
<1>4. \A r \in Readers : AnswerInv(r)
  BY DEF StoreInit, AnswerInv, Idle
<1> QED
  BY <1>2, <1>3, <1>4 DEF StoreInv

LEMMA StoreInvNext == StoreInv /\ [StoreNext]_storeVars => StoreInv'
<1> SUFFICES ASSUME StoreInv, [StoreNext]_storeVars PROVE StoreInv'
  OBVIOUS
<1>1. ASSUME NEW m \in Messages, Stamp(m) \/ Insert(m) PROVE StoreInv'
  BY <1>1, StampStep, InsertStep
<1>2. ASSUME NEW r \in Readers, NEW u \in Emails, NEW v \in Addrs, GetHistory(r, u, v)
      PROVE  StoreInv'
  BY <1>2, GetHistoryStep
<1>3. ASSUME NEW r \in Readers, NEW u \in Emails, NEW n \in Limits,
             ListChats(r, u, n) \/ AssertionPanics(r, u, n)
      PROVE  StoreInv'
  BY <1>3, ListChatsStep, ProcessEndsStep DEF AssertionPanics
<1>4. ASSUME NEW r \in Readers, SendNext(r) \/ SendFails(r) \/ SentAll(r)
      PROVE  StoreInv'
  BY <1>4, SendStep
<1>5. ASSUME Kill PROVE StoreInv'
  BY <1>5, ProcessEndsStep DEF Kill
<1>6. ASSUME UNCHANGED storeVars PROVE StoreInv'
  <2>1. UNCHANGED <<clock, sentAt, from, to, docs, writing, reader>>
    BY <1>6 DEF storeVars
  <2>2. StoreTypeOK /\ CollectionKept /\ StoreTypeOK'
    BY <2>1, NothingSaved DEF StoreInv, StoreTypeOK
  <2>3. \A r \in Readers : AnswerInv(r)'
    BY <2>1, <2>2, OtherKept
  <2>4. \A x \in ToSet(docs)' \cup writing' : sentAt'[x] # 0
    BY <2>1 DEF StoreInv, ToSet
  <2> QED
    BY <2>2, <2>3, <2>4 DEF StoreInv
<1> QED
  BY <1>1, <1>2, <1>3, <1>4, <1>5, <1>6, TickStep DEF StoreNext

-------------------------------------------------------------------------------
(* The theorems.                                                             *)

\* The inductive invariant of the collection and its readers.
THEOREM StoreInvariant == StoreSpec => []StoreInv
BY StoreInvInit, StoreInvNext, PTL DEF StoreSpec

\* Type correctness: stored addresses are normalized.
THEOREM StoreTypeCorrect == StoreSpec => []StoreTypeOK
<1>1. StoreInv => StoreTypeOK
  BY DEF StoreInv
<1> QED
  BY <1>1, StoreInvariant, PTL

\* A client that was answered OK has received the whole answer.
LEMMA ServedAll ==
  ASSUME StoreInv, NEW r \in Readers, NEW method, Served(r, method)
  PROVE  AnswerInv(r) /\ Received(r) = reader[r].result /\ reader[r].outcome = "OK"
<1>1. /\ StoreTypeOK /\ AnswerInv(r) /\ reader[r].pc # "new"
      /\ reader[r].outcome = "OK" /\ reader[r].sent = Len(reader[r].result)
  BY DEF StoreInv, Served, AnswerInv
<1>2. reader[r].result \in Seq(Messages) \cup Seq(Partner)
  BY <1>1, ReaderTyped
<1>3. \A S : \A q \in Seq(S) : SubSeq(q, 1, Len(q)) = q
  OBVIOUS
<1> QED
  BY <1>1, <1>2, <1>3 DEF Received

\* GetHistory delivers the newest messages of the conversation in order, with
\* documents saved meanwhile, equal times, failed Sends and kills.
THEOREM HistoryDelivered == StoreSpec => []HistoryIsNewest
<1>1. StoreInv => HistoryIsNewest
  BY ServedAll DEF HistoryIsNewest, Served, AnswerInv
<1> QED
  BY <1>1, StoreInvariant, PTL

\* ListChats delivers each partner once, and all of them below the limit.
THEOREM PartnersDelivered == StoreSpec => []PartnersOnce
<1>1. StoreInv => PartnersOnce
  BY ServedAll DEF PartnersOnce, Served, AnswerInv
<1> QED
  BY <1>1, StoreInvariant, PTL

-------------------------------------------------------------------------------
(* Two answers, of one method or of both.                                    *)

\* r's query saw no document that s's query did not see.
SawMore(s, r) == reader[r].seen <= reader[s].seen

\* s's limit has cut m off: s received as many as the limit, and none older.
PushedOut(s, m) ==
  /\ Len(Received(s)) = HistoryLimit
  /\ \A i \in DOMAIN Received(s) : sentAt[m] <= sentAt[Received(s)[i]]

Has(s, m) == m \in ToSet(Received(s)) \/ PushedOut(s, m)

SameTalk(r, s) ==
  {reader[r].user, Email[reader[r].with]} = {reader[s].user, Email[reader[s].with]}

\* The place i of r's list is the conversation of s.
Lists(r, i, s) ==
  {reader[r].user, Received(r)[i].email} = {reader[s].user, Email[reader[s].with]}

\* What one client has seen stays in what both see later: the messages of a
\* GetHistory answer are in every later one of the conversation, or newer ones
\* fill it.
HistoriesAgree ==
  \A r, s \in Readers :
    Served(r, "GetHistory") /\ Served(s, "GetHistory") /\ SameTalk(r, s) /\ SawMore(s, r)
      => \A m \in ToSet(Received(r)) : Has(s, m)

\* The message that ListChats shows for a conversation is in every later
\* GetHistory answer, or newer ones fill it.
ChatsAgree ==
  \A r, s \in Readers :
    Served(r, "ListChats") /\ Served(s, "GetHistory") /\ SawMore(s, r) =>
      \A i \in DOMAIN Received(r) : Lists(r, i, s) => Has(s, Received(r)[i].last)

\* GetHistory passes its one limit to every query.
PassedLimit ==
  \A r \in Readers :
    reader[r].pc # "new" /\ reader[r].method = "GetHistory" => reader[r].limit = HistoryLimit

LEMMA LimitIsPassed == StoreSpec => []PassedLimit
<1>1. StoreInit => PassedLimit
  BY DEF StoreInit, PassedLimit, Idle
<1>2. ASSUME StoreTypeOK, PassedLimit, [StoreNext]_storeVars PROVE PassedLimit'
  <2>1. ASSUME NEW r \in Readers, NEW u \in Emails, NEW v \in Addrs, GetHistory(r, u, v)
        PROVE  PassedLimit'
    <3>1. ASSUME NEW q, Answer(r, "GetHistory", u, v, HistoryLimit, q) PROVE PassedLimit'
      BY <1>2, <3>1 DEF Answer, StoreTypeOK, PassedLimit
    <3>2. ASSUME QueryFails(r, "GetHistory", u, v, HistoryLimit) PROVE PassedLimit'
      BY <1>2, <3>2 DEF QueryFails, StoreTypeOK, PassedLimit
    <3> QED
      BY <2>1, <3>1, <3>2 DEF GetHistory
  <2>2. ASSUME NEW r \in Readers, NEW u \in Emails, NEW n \in Limits, ListChats(r, u, n)
        PROVE  PassedLimit'
    <3>1. ASSUME NEW f, reader' = [reader EXCEPT ![r] = f], f.method = "ListChats"
          PROVE  PassedLimit'
      <4>1. \A t \in Readers : reader'[t] = IF t = r THEN f ELSE reader[t]
        BY <1>2, <3>1 DEF StoreTypeOK
      <4> QED
        BY <1>2, <3>1, <4>1 DEF PassedLimit
    <3>2. ASSUME NEW limit, NEW q, Answer(r, "ListChats", u, u, limit, q)
          PROVE  PassedLimit'
      <4> DEFINE f == [pc |-> "send", method |-> "ListChats", user |-> u, with |-> u,
                       limit |-> limit, result |-> q, sent |-> 0,
                       outcome |-> "none", seen |-> Len(docs)]
      <4>1. reader' = [reader EXCEPT ![r] = f] /\ f.method = "ListChats"
        BY <3>2 DEF Answer
      <4> HIDE DEF f
      <4> QED
        BY <3>1, <4>1
    <3>3. ASSUME NEW limit, QueryFails(r, "ListChats", u, u, limit)
          PROVE  PassedLimit'
      <4> DEFINE f == [pc |-> "done", method |-> "ListChats", user |-> u, with |-> u,
                       limit |-> limit, result |-> <<>>, sent |-> 0,
                       outcome |-> "Internal", seen |-> Len(docs)]
      <4>1. reader' = [reader EXCEPT ![r] = f] /\ f.method = "ListChats"
        BY <3>3 DEF QueryFails
      <4> HIDE DEF f
      <4> QED
        BY <3>1, <4>1
    <3> QED
      BY <2>2, <3>2, <3>3 DEF ListChats
  <2>3. ASSUME ProcessEnds PROVE PassedLimit'
    <3> SUFFICES ASSUME NEW r \in Readers,
                        reader'[r].pc # "new", reader'[r].method = "GetHistory"
                 PROVE  reader'[r].limit = HistoryLimit
      BY DEF PassedLimit
    <3>1. CASE reader[r].pc # "send"
      BY <1>2, <2>3, <3>1 DEF ProcessEnds, PassedLimit
    <3>2. CASE reader[r].pc = "send"
      <4>1. reader[r] \in Reading
        BY <1>2, <3>2, ReaderTyped
      <4> QED
        BY <1>2, <2>3, <3>2, <4>1 DEF ProcessEnds, PassedLimit, Reading
    <3> QED
      BY <3>1, <3>2
  <2>4. ASSUME NEW r \in Readers, SendNext(r) \/ SendFails(r) \/ SentAll(r)
        PROVE  PassedLimit'
    <3>1. reader[r] \in Reading /\ reader[r].pc = "send"
      BY <1>2, <2>4, ReaderTyped DEF SendNext, SendFails, SentAll
    <3>2. PICK f :
            /\ reader' = [reader EXCEPT ![r] = f]
            /\ \/ f = [reader[r] EXCEPT !.sent = reader[r].sent + 1]
               \/ f = [reader[r] EXCEPT !.pc = "done", !.outcome = "Internal"]
               \/ f = [reader[r] EXCEPT !.pc = "done", !.outcome = "OK"]
      BY <2>4 DEF SendNext, SendFails, SentAll
    <3>3. f.limit = reader[r].limit /\ f.method = reader[r].method
      <4>1. CASE f = [reader[r] EXCEPT !.sent = reader[r].sent + 1]
        BY <3>1, <4>1 DEF Reading
      <4>2. CASE f = [reader[r] EXCEPT !.pc = "done", !.outcome = "Internal"]
        BY <3>1, <4>2 DEF Reading
      <4>3. CASE f = [reader[r] EXCEPT !.pc = "done", !.outcome = "OK"]
        BY <3>1, <4>3 DEF Reading
      <4> QED
        BY <3>2, <4>1, <4>2, <4>3
    <3>4. \A t \in Readers : reader'[t] = IF t = r THEN f ELSE reader[t]
      BY <1>2, <3>2 DEF StoreTypeOK
    <3> QED
      BY <1>2, <3>1, <3>3, <3>4 DEF PassedLimit
  <2>5. ASSUME UNCHANGED reader PROVE PassedLimit'
    BY <1>2, <2>5 DEF PassedLimit
  <2> QED
    BY <1>2, <2>1, <2>2, <2>3, <2>4, <2>5
       DEF StoreNext, Stamp, Insert, AssertionPanics, Kill, Tick, storeVars
<1> QED
  BY <1>1, <1>2, StoreTypeCorrect, PTL DEF StoreSpec

\* Every message of the conversation that s's query saw, s has.
LEMMA SeenIsHad ==
  ASSUME StoreInv, PassedLimit, NEW s \in Readers, Served(s, "GetHistory"),
         NEW m \in Conversation(s)
  PROVE  Has(s, m)
<1>1. NewestOf(s, Received(s)) /\ reader[s].limit = HistoryLimit
  BY ServedAll DEF Served, AnswerInv, PassedLimit
<1> QED
  BY <1>1 DEF NewestOf, Has, PushedOut

LEMMA SeenMore ==
  ASSUME StoreInv, NEW r \in Readers, NEW s \in Readers,
         reader[r].pc # "new", reader[s].pc # "new", SawMore(s, r)
  PROVE  Seen(r) \subseteq Seen(s)
<1>1. reader[r].seen \in Nat /\ reader[s].seen \in Nat
  BY ReaderTyped DEF StoreInv
<1> QED
  BY <1>1 DEF SawMore, Seen

\* A message that a GetHistory answer had does not vanish from later answers
\* (messages.go:46-92).
THEOREM HistoryIsStable == StoreSpec => []HistoriesAgree
<1>1. StoreInv /\ PassedLimit => HistoriesAgree
  <2> SUFFICES ASSUME StoreInv, PassedLimit, NEW r \in Readers, NEW s \in Readers,
                      Served(r, "GetHistory"), Served(s, "GetHistory"),
                      SameTalk(r, s), SawMore(s, r),
                      NEW m \in ToSet(Received(r))
               PROVE  Has(s, m)
    BY DEF HistoriesAgree
  <2>1. NewestOf(r, Received(r))
    BY ServedAll DEF Served, AnswerInv
  <2>2. m \in Conversation(s)
    BY <2>1, SeenMore DEF NewestOf, Conversation, SameTalk, Served
  <2> QED
    BY <2>2, SeenIsHad
<1> QED
  BY <1>1, StoreInvariant, LimitIsPassed, PTL

\* What ListChats shows of a conversation does not vanish from later GetHistory
\* answers, whichever message $last picked (messages.go:46-92 and 109-194).
THEOREM ReadersAgree == StoreSpec => []ChatsAgree
<1>1. StoreInv /\ PassedLimit => ChatsAgree
  <2> SUFFICES ASSUME StoreInv, PassedLimit, NEW r \in Readers, NEW s \in Readers,
                      Served(r, "ListChats"), Served(s, "GetHistory"), SawMore(s, r),
                      NEW i \in DOMAIN Received(r), Lists(r, i, s)
               PROVE  Has(s, Received(r)[i].last)
    BY DEF ChatsAgree
  <2>1. Received(r)[i].last \in With(r, Received(r)[i].email)
    BY ServedAll DEF Served, AnswerInv, PartnersOf
  <2>2. Received(r)[i].last \in Conversation(s)
    BY <2>1, SeenMore DEF With, Mine, Conversation, Lists, Served
  <2> QED
    BY <2>2, SeenIsHad
<1> QED
  BY <1>1, StoreInvariant, LimitIsPassed, PTL
===============================================================================
