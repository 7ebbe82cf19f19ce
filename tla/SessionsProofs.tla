---------------------------- MODULE SessionsProofs ----------------------------
(***************************************************************************)
(* The sessions of an account, for any number of tabs, devices, pairs,      *)
(* changes and links.  SessionsInv is inductive.  Four ideas carry it: the  *)
(* row a transaction has claimed is its own until it ends (Requests,        *)
(* Lineage); what a device knows no other device knows, and the pair of an  *)
(* answer under way nobody knows (Apart, Unseen); the lock of a device lets *)
(* one tab at a time make a stored pair an exchanged one (Exclusive,        *)
(* StoredIsCurrent); and the links mailed follow each other, an open one    *)
(* being the last that counts (LinksFollow, OpenIsLast).                    *)
(***************************************************************************)
EXTENDS Sessions, SequenceTheorems, FiniteSetTheorems, TLAPS

\* The requests under way find room for the pair they may still be given.
RoomIsLeft == Len(pairs) + Cardinality(Waiting) <= MaxPairs

\* What the tab t can present: what its device stores, its own copy, what it has sent.
Knows(t) == {store[Device[t]], mem[t], sent[t]} \ {0}

\* A request at the server has sent a pair; the row of one that claimed it is its own.
Requests ==
    /\ user.revocations <= user.version
    /\ \A t \in Tabs : /\ pc[t] \in Critical <=> sent[t] # 0
                       /\ pc[t] = "commit" => pairs[sent[t]].row = "claimed"
                       /\ pc[t] = "granted" => pairs[sent[t]].row = "rotated"
    /\ \A t, o \in Tabs :
          (pc[t] \in {"commit", "granted"} /\ pc[o] \in {"commit", "granted"} /\ sent[t] = sent[o]) => t = o

\* Pairs descend from exchanged ones, one from each, and an answer has its pair.
Lineage ==
    /\ OneSuccessor
    /\ \A i \in Ids : pairs[i].from # 0 => pairs[i].from \in Ids /\ pairs[pairs[i].from].row = "rotated"
    /\ \A t \in Tabs : pc[t] = "granted" => \E i \in Ids : pairs[i].from = sent[t]

\* What a handler read is not newer than the account; a claimed session was reached by every
\* revocation up to what its handler read.
Reached ==
    /\ RevocationReachesAll
    /\ \A t \in Tabs : /\ saw[t].revocations <= user.revocations
                       /\ pc[t] = "commit" /\ ~pairs[sent[t]].late /\ saw[t].revocations = user.revocations
                              => pairs[sent[t]].since = user.revocations

\* Devices share no pair, and the pair of an answer under way is nobody's yet.
Apart == \A t, o \in Tabs : Device[t] # Device[o] => Knows(t) \cap Knows(o) = {}
Unseen ==
    \A t \in Tabs : pc[t] = "granted" =>
        \A i \in Ids : pairs[i].from = sent[t] =>
            /\ pairs[i].row \in {"live", "revoked"}
            /\ \A o \in Tabs : i \notin Knows(o)

\* The Web Lock: one tab of a device between the renewal's start and its end.
Exclusive ==
    locks => \A t, o \in Tabs :
                (Device[t] = Device[o] /\ pc[t] \in Critical /\ pc[o] \in Critical) => t = o

\* A stored pair that was exchanged had its answer lost, or has it under way to the device.
StoredIsCurrent ==
    \A d \in Devices :
        store[d] # 0 /\ pairs[store[d]].row = "rotated" =>
            \/ pairs[store[d]].lost
            \/ \E t \in Tabs : Device[t] = d /\ pc[t] = "granted" /\ sent[t] = store[d]

\* Links are mailed one after the other, by handlers that saw only earlier ones; what has set a
\* password is used up.
LinksFollow ==
    /\ \E k \in 0..MaxResets : Mailed = 1..k
    /\ \A n \in 0..MaxResets : asking[n] > 0 => \A j \in Links : j <= n => j \in Mailed
    /\ \A j \in Mailed : mailed[j].after < j
    /\ \A j \in Links : redeemed[j] # 0 => redeemed[j] = 1 /\ resets[j] = "used"

\* Since an open link was mailed no link has set a password, and no handler that saw it mailed another.
OpenIsLast ==
    \A i \in Links : resets[i] = "open" =>
        /\ {j \in Links : redeemed[j] # 0} = mailed[i].used
        /\ \A j \in Mailed : mailed[j].after < i

LinksInv == LinksFollow /\ OpenIsLast

SessionsInv ==
    /\ TypeOK /\ RoomIsLeft /\ Requests /\ Lineage /\ Reached /\ LinksInv
    /\ Apart /\ Unseen /\ Exclusive /\ StoredIsCurrent /\ ReuseIsExplained
-----------------------------------------------------------------------------
\* A pair of tokens, as TypeOK has it.
Pair == [row : {"live", "claimed", "rotated", "revoked"}, age : {"fresh", "stale", "expired"},
         version : 0..MaxChanges, since : 0..MaxChanges, from : 0..MaxPairs, late : BOOLEAN, lost : BOOLEAN]

\* The pairs are numbered from 1 (Ids), and there are at most MaxPairs.
LEMMA Numbered ==
    ASSUME TypeOK
    PROVE  /\ pairs \in Seq(Pair) /\ Len(pairs) \in Nat /\ Ids = 1..Len(pairs)
           /\ \A i \in Ids : pairs[i] \in Pair
           /\ Len(pairs) <= MaxPairs /\ MaxPairs \in Nat /\ MaxChanges \in Nat
<1>1. pairs \in Seq(Pair)
  BY DEF TypeOK, Pair
<1>2. Len(pairs) \in Nat /\ DOMAIN pairs = 1..Len(pairs) /\ pairs \in [1..Len(pairs) -> Pair]
  BY <1>1, LenProperties
<1> QED
  BY <1>1, <1>2, SessionsAssumption DEF TypeOK, Ids

\* What the steps write to a pair leaves it a pair.
LEMMA PairKept ==
    ASSUME NEW p \in Pair
    PROVE  /\ \A r \in {"claimed", "rotated", "revoked"} : [p EXCEPT !.row = r] \in Pair
           /\ \A a \in {"stale", "expired"} : [p EXCEPT !.age = a] \in Pair
           /\ [p EXCEPT !.lost = TRUE] \in Pair
  BY DEF Pair

\* The pair a request at the server, or answered, has sent.
LEMMA SentIsPair ==
    ASSUME TypeOK, Requests, NEW t \in Tabs, pc[t] \in {"read", "claim", "commit", "granted"}
    PROVE  sent[t] \in Ids /\ pairs[sent[t]] \in Pair
<1>1. sent[t] # 0
  BY DEF Requests, Critical, AtServer
<1>2. sent[t] \in 0..Len(pairs)
  BY DEF TypeOK
<1> QED
  BY <1>1, <1>2, Numbered

\* An update of one refresh token's row.
LEMMA RowUpdated ==
    ASSUME TypeOK, NEW i \in Ids, NEW p \in Pair, pairs' = [pairs EXCEPT ![i] = p]
    PROVE  /\ pairs' \in Seq(Pair) /\ Len(pairs') = Len(pairs) /\ Ids' = Ids
           /\ \A j \in Ids : pairs'[j] = IF j = i THEN p ELSE pairs[j]
<1>1. pairs \in Seq(Pair) /\ Ids = 1..Len(pairs)
  BY Numbered
<1>2. pairs' \in Seq(Pair) /\ Len(pairs') = Len(pairs)
  BY <1>1, ExceptSeq
<1>3. \A j \in Ids : pairs'[j] = IF j = i THEN p ELSE pairs[j]
  BY <1>1 DEF Ids
<1>4. Ids' = Ids
  BY DEF Ids
<1> QED
  BY <1>2, <1>3, <1>4

\* revokeSessions, of all the account's: the live rows are revoked, nothing else changes.
LEMMA AllRevoked ==
    ASSUME TypeOK, pairs' = Revoked(pairs)
    PROVE  /\ pairs' \in Seq(Pair) /\ Len(pairs') = Len(pairs) /\ Ids' = Ids
           /\ \A j \in Ids : pairs'[j] = IF pairs[j].row = "live" THEN [pairs[j] EXCEPT !.row = "revoked"]
                                        ELSE pairs[j]
<1>1. Len(pairs) \in Nat /\ Ids = 1..Len(pairs) /\ \A i \in Ids : pairs[i] \in Pair
  BY Numbered
<1>2. /\ Ids' = Ids
      /\ \A j \in Ids : pairs'[j] = IF pairs[j].row = "live" THEN [pairs[j] EXCEPT !.row = "revoked"]
                                   ELSE pairs[j]
  BY DEF Revoked, Ids
<1>3. pairs' \in [1..Len(pairs) -> Pair]
  BY <1>1 DEF Revoked, Ids, Pair
<1>4. pairs' \in Seq(Pair)
  BY <1>1, <1>3, SeqDef
<1>5. Len(pairs') \in Nat /\ DOMAIN pairs' = 1..Len(pairs')
  BY <1>4, LenProperties
<1>6. Len(pairs') = Len(pairs)
  BY <1>1, <1>2, <1>5 DEF Ids
<1> QED
  BY <1>2, <1>4, <1>6

\* A pair is issued after the others.
LEMMA PairIssued ==
    ASSUME TypeOK, NEW s \in Seq(Pair), Len(s) = Len(pairs), NEW p \in Pair, pairs' = Append(s, p)
    PROVE  /\ pairs' \in Seq(Pair) /\ Len(pairs') = Len(pairs) + 1 /\ Ids' = Ids \cup {Len(pairs) + 1}
           /\ Len(pairs) + 1 \notin Ids
           /\ pairs'[Len(pairs) + 1] = p
           /\ \A j \in Ids : pairs'[j] = s[j]
<1>1. Len(pairs) \in Nat /\ Ids = 1..Len(pairs)
  BY Numbered
<1>2. /\ pairs' \in Seq(Pair) /\ Len(pairs') = Len(pairs) + 1
      /\ pairs'[Len(pairs) + 1] = p
      /\ \A j \in 1..Len(pairs) : pairs'[j] = s[j]
  BY <1>1
<1>3. DOMAIN pairs' = 1..Len(pairs')
  BY <1>2, LenProperties
<1> QED
  BY <1>1, <1>2, <1>3 DEF Ids

\* The answer's pair, where there is one.
LEMMA GrantedIsOne ==
    ASSUME NEW t \in Tabs, \E i \in Ids : pairs[i].from = sent[t]
    PROVE  Granted(t) \in Ids /\ pairs[Granted(t)].from = sent[t]
  BY DEF Granted

\* The room for pairs: a request under way is given one pair at most (Room).
LEMMA RoomKept ==
    ASSUME TypeOK, RoomIsLeft, IsFiniteSet(Tabs), Len(pairs') \in Nat,
           \/ Len(pairs') = Len(pairs) /\ Waiting' \subseteq Waiting
           \/ Len(pairs') = Len(pairs) /\ Room /\ \E t \in Tabs : Waiting' = Waiting \cup {t}
           \/ Len(pairs') = Len(pairs) + 1 /\ \E t \in Waiting : Waiting' = Waiting \ {t}
    PROVE  RoomIsLeft' /\ Len(pairs') <= MaxPairs
<1>1. /\ IsFiniteSet(Waiting) /\ Cardinality(Waiting) \in Nat
      /\ IsFiniteSet(Waiting') /\ Cardinality(Waiting') \in Nat
  <2>1. Waiting \subseteq Tabs /\ Waiting' \subseteq Tabs
    BY DEF Waiting
  <2> QED
    BY <2>1, FS_Subset, FS_CardinalityType
<1>2. Len(pairs) \in Nat /\ MaxPairs \in Nat
  BY Numbered
<1>3. CASE Len(pairs') = Len(pairs) /\ Waiting' \subseteq Waiting
  <2>1. Cardinality(Waiting') <= Cardinality(Waiting)
    BY <1>1, <1>3, FS_Subset
  <2> QED
    BY <1>1, <1>2, <1>3, <2>1 DEF RoomIsLeft
<1>4. CASE Len(pairs') = Len(pairs) /\ Room /\ \E t \in Tabs : Waiting' = Waiting \cup {t}
  <2>1. Cardinality(Waiting') <= Cardinality(Waiting) + 1
    BY <1>1, <1>4, FS_AddElement
  <2>2. Len(pairs) + Cardinality(Waiting) < MaxPairs
    BY <1>4 DEF Room
  <2> QED
    BY <1>1, <1>2, <1>4, <2>1, <2>2 DEF RoomIsLeft
<1>5. CASE Len(pairs') = Len(pairs) + 1 /\ \E t \in Waiting : Waiting' = Waiting \ {t}
  <2>1. Cardinality(Waiting') = Cardinality(Waiting) - 1
    BY <1>1, <1>5, FS_RemoveElement
  <2> QED
    BY <1>1, <1>2, <1>5, <2>1 DEF RoomIsLeft
<1> QED
  BY <1>3, <1>4, <1>5

\* What the app does on its side has the types, whatever pairs there are by then.
LEMMA ClientTypes ==
    ASSUME TypeOK, Len(pairs') \in Nat, Len(pairs) <= Len(pairs'),
           store' \in [Devices -> 0..Len(pairs')] \/ store' = store,
           mem' \in [Tabs -> 0..Len(pairs')] \/ mem' = mem,
           failed' \in [Tabs -> 0..Len(pairs')] \/ failed' = failed,
           sent' \in [Tabs -> 0..Len(pairs')] \/ sent' = sent
    PROVE  /\ store' \in [Devices -> 0..Len(pairs')] /\ mem' \in [Tabs -> 0..Len(pairs')]
           /\ failed' \in [Tabs -> 0..Len(pairs')] /\ sent' \in [Tabs -> 0..Len(pairs')]
<1>1. Len(pairs) \in Nat
  BY Numbered
<1>2. \A i \in 0..Len(pairs) : i \in 0..Len(pairs')
  BY <1>1
<1> QED
  BY <1>2 DEF TypeOK, Devices

\* What each tab holds, presents and has sent is a pair there is, or none.
LEMMA Holding ==
    ASSUME TypeOK, NEW t \in Tabs
    PROVE  /\ Device[t] \in Devices
           /\ store[Device[t]] \in 0..Len(pairs) /\ mem[t] \in 0..Len(pairs) /\ Held(t) \in 0..Len(pairs)
           /\ sent[t] \in 0..Len(pairs) /\ (sent[t] # 0 => sent[t] \in Ids)
           /\ saw[t] \in Counters
           /\ (Held(t) # 0 => Held(t) \in Ids)
<1>1. Len(pairs) \in Nat /\ Ids = 1..Len(pairs)
  BY Numbered
<1>2. /\ store \in [Devices -> 0..Len(pairs)] /\ mem \in [Tabs -> 0..Len(pairs)]
      /\ sent \in [Tabs -> 0..Len(pairs)] /\ saw \in [Tabs -> Counters]
  BY DEF TypeOK
<1>3. Device[t] \in Devices
  BY DEF Devices
<1> QED
  BY <1>1, <1>2, <1>3 DEF Held

\* After Forget a tab is idle and has sent nothing; the others are as they were.
LEMMA Forgets ==
    ASSUME TypeOK, NEW t \in Tabs, Forget(t)
    PROVE  /\ \A o \in Tabs : /\ pc'[o] = IF o = t THEN "idle" ELSE pc[o]
                              /\ sent'[o] = IF o = t THEN 0 ELSE sent[o]
                              /\ saw'[o] = IF o = t THEN Nothing ELSE saw[o]
                              /\ spare'[o] = IF o = t THEN FALSE ELSE spare[o]
           /\ pc' \in [Tabs -> {"idle", "login", "renew", "refused", "verified"} \cup Critical]
           /\ failed' \in [Tabs -> 0..Len(pairs)] /\ sent' \in [Tabs -> 0..Len(pairs)]
           /\ spare' \in [Tabs -> BOOLEAN] /\ saw' \in [Tabs -> Counters]
<1>1. Len(pairs) \in Nat /\ MaxChanges \in Nat
  BY Numbered
<1>2. Nothing \in Counters
  BY <1>1 DEF Nothing, Counters
<1> QED
  BY <1>1, <1>2 DEF Forget, TypeOK

\* A refused tab has sent nothing any more; the others are as they were.
LEMMA IsRefused ==
    ASSUME TypeOK, NEW t \in Tabs, Refused(t)
    PROVE  /\ \A o \in Tabs : /\ pc'[o] = IF o = t THEN "refused" ELSE pc[o]
                              /\ sent'[o] = IF o = t THEN 0 ELSE sent[o]
                              /\ saw'[o] = IF o = t THEN Nothing ELSE saw[o]
           /\ pc' \in [Tabs -> {"idle", "login", "renew", "refused", "verified"} \cup Critical]
           /\ sent' \in [Tabs -> 0..Len(pairs)] /\ saw' \in [Tabs -> Counters]
<1>1. Len(pairs) \in Nat /\ MaxChanges \in Nat
  BY Numbered
<1>2. Nothing \in Counters
  BY <1>1 DEF Nothing, Counters
<1> QED
  BY <1>1, <1>2 DEF Refused, TypeOK

\* A pair is put in the storage of the tab's device and kept by the tab; 0 drops both.
Keep(t, i) == store' = [store EXCEPT ![Device[t]] = i] /\ mem' = [mem EXCEPT ![t] = i]

\* What Keep does, for a pair there will be (setItem and removeItem of session-refresh.ts and page.tsx).
LEMMA Stored ==
    ASSUME TypeOK, NEW t \in Tabs, NEW n \in Nat, Len(pairs) <= n, NEW i \in 0..n, Keep(t, i)
    PROVE  /\ \A d \in Devices : store'[d] = IF d = Device[t] THEN i ELSE store[d]
           /\ \A o \in Tabs : mem'[o] = IF o = t THEN i ELSE mem[o]
           /\ store' \in [Devices -> 0..n] /\ mem' \in [Tabs -> 0..n]
<1>1. Len(pairs) \in Nat
  BY Numbered
<1>2. store \in [Devices -> 0..Len(pairs)] /\ mem \in [Tabs -> 0..Len(pairs)]
  BY DEF TypeOK
<1>3. Device[t] \in Devices
  BY DEF Devices
<1>5. ASSUME NEW d \in Devices, store' = [store EXCEPT ![d] = i]
      PROVE  /\ \A e \in Devices : store'[e] = IF e = d THEN i ELSE store[e]
             /\ store' \in [Devices -> 0..n]
  <2>1. \A e \in Devices : store'[e] = IF e = d THEN i ELSE store[e]
    BY <1>2, <1>5
  <2>2. \A e \in Devices : store'[e] \in 0..n
    BY <1>1, <1>2, <2>1
  <2>3. DOMAIN store' = Devices
    BY <1>2, <1>5
  <2> QED
    BY <1>5, <2>1, <2>2, <2>3
<1>4. /\ \A o \in Tabs : mem'[o] = IF o = t THEN i ELSE mem[o]
      /\ mem' \in [Tabs -> 0..n]
  BY <1>1, <1>2 DEF Keep
<1> QED
  BY <1>3, <1>4, <1>5 DEF Keep

\* After DropTokens the device stores no pair and the tab holds none.
LEMMA Drops ==
    ASSUME TypeOK, NEW t \in Tabs, DropTokens(t)
    PROVE  /\ \A d \in Devices : store'[d] = IF d = Device[t] THEN 0 ELSE store[d]
           /\ \A o \in Tabs : mem'[o] = IF o = t THEN 0 ELSE mem[o]
           /\ store' \in [Devices -> 0..Len(pairs)] /\ mem' \in [Tabs -> 0..Len(pairs)]
<1>1. Len(pairs) \in Nat /\ 0 \in 0..Len(pairs)
  BY Numbered
<1>2. Keep(t, 0)
  BY DEF DropTokens, Keep
<1> QED
  BY <1>1, <1>2, Stored

\* A change of the account that ends its sessions.
LEMMA Changes ==
    ASSUME TypeOK, Requests, NEW u \in Users, u.revocations = user.revocations, u.version = user.version,
           RevokeAndChange(u)
    PROVE  /\ user' \in Users
           /\ user'.revocations = user.revocations + 1 /\ user'.version = user.version + 1
           /\ pairs' = Revoked(pairs)
<1>1. user.version \in 0..MaxChanges /\ user.revocations \in 0..MaxChanges /\ MaxChanges \in Nat
  BY Numbered DEF TypeOK, Users
<1>2. user.version + 1 \in 0..MaxChanges /\ user.revocations + 1 \in 0..MaxChanges
  BY <1>1 DEF RevokeAndChange, Requests
<1> QED
  BY <1>2 DEF RevokeAndChange, Users

\* Every step keeps the types, and the room for the answers under way.
LEMMA TypesKept ==
    ASSUME TypeOK, RoomIsLeft, Requests, Lineage, LinksInv, [Next]_vars
    PROVE  TypeOK' /\ RoomIsLeft'
<1> USE DEF account, client, linkVars
<1>0. /\ Len(pairs) \in Nat /\ Ids = 1..Len(pairs) /\ pairs \in Seq(Pair) /\ \A i \in Ids : pairs[i] \in Pair
      /\ MaxChanges \in Nat /\ MaxPairs \in Nat /\ Len(pairs) <= MaxPairs
      /\ MaxResets \in Nat /\ MaxLapses \in Nat /\ IsFiniteSet(Tabs)
  BY Numbered, SessionsAssumption
<1> DEFINE Steady == Len(pairs') = Len(pairs) /\ pairs' \in Seq(Pair)
           States == {"idle", "login", "renew", "refused", "verified"} \cup Critical
<1>1. ASSUME pairs' = pairs \/ (\E i \in Ids, p \in Pair : pairs' = [pairs EXCEPT ![i] = p]) \/ pairs' = Revoked(pairs)
      PROVE  Steady
  BY <1>0, <1>1, RowUpdated, AllRevoked
<1>2. ASSUME Steady, pc' = pc PROVE RoomIsLeft' /\ Len(pairs') <= MaxPairs
  BY <1>0, <1>2, RoomKept DEF Waiting
<1>3. ASSUME Steady, NEW t \in Tabs, NEW s \in {"idle", "granted", "refused", "verified"}, pc' = [pc EXCEPT ![t] = s]
      PROVE  RoomIsLeft' /\ Len(pairs') <= MaxPairs
  BY <1>0, <1>3, RoomKept DEF Waiting, TypeOK
<1>4. ASSUME Steady, NEW t \in Tabs, pc[t] \in {"login", "renew", "read", "claim", "commit"},
             NEW s \in States, pc' = [pc EXCEPT ![t] = s]
      PROVE  RoomIsLeft' /\ Len(pairs') <= MaxPairs
  BY <1>0, <1>4, RoomKept DEF Waiting, TypeOK
<1>5. ASSUME Steady, NEW t \in Tabs, Room, NEW s \in States, pc' = [pc EXCEPT ![t] = s]
      PROVE  RoomIsLeft' /\ Len(pairs') <= MaxPairs
  <2>1. Waiting' \subseteq Waiting \/ Waiting' = Waiting \cup {t}
    BY <1>5 DEF Waiting, TypeOK
  <2> QED
    BY <1>0, <1>5, <2>1, RoomKept
<1>6. ASSUME pairs' \in Seq(Pair), Len(pairs') = Len(pairs) + 1, NEW t \in Tabs, pc[t] \in {"login", "commit"},
             NEW s \in {"idle", "granted"}, pc' = [pc EXCEPT ![t] = s]
      PROVE  RoomIsLeft' /\ Len(pairs') <= MaxPairs
  <2>1. t \in Waiting /\ Waiting' = Waiting \ {t}
    BY <1>6 DEF Waiting, TypeOK
  <2> QED
    BY <1>0, <1>6, <2>1, RoomKept
<1>7. ASSUME NEW t \in Tabs, LoginRead(t) PROVE TypeOK' /\ RoomIsLeft'
  <2>1. Counts(user) \in Counters
    BY DEF Counts, Counters, TypeOK, Users
  <2>2. Steady /\ pc' = [pc EXCEPT ![t] = "login"] /\ Room
    BY <1>1, <1>7 DEF LoginRead
  <2>3. RoomIsLeft'
    BY <1>5, <2>2
  <2> QED
    BY <1>7, <2>1, <2>3 DEF LoginRead, TypeOK
<1>8. ASSUME NEW t \in Tabs, LoginIssue(t) PROVE TypeOK' /\ RoomIsLeft'
  <2>1. LoginPair(t) \in Pair
    <3>1. /\ saw[t].version \in 0..MaxChanges /\ saw[t].revocations \in 0..MaxChanges
          /\ 0 \in 0..MaxPairs
      BY <1>0, Holding DEF Counters
    <3> QED
      BY <3>1 DEF LoginPair, Issued, Pair
  <2>2. pairs' \in Seq(Pair) /\ Len(pairs') = Len(pairs) + 1
    BY <1>0, <1>8, <2>1, PairIssued DEF LoginIssue
  <2>3. RoomIsLeft' /\ Len(pairs') <= MaxPairs
    BY <1>6, <1>8, <2>2 DEF LoginIssue
  <2>5. store' \in [Devices -> 0..Len(pairs')] /\ mem' \in [Tabs -> 0..Len(pairs')]
    <3>1. Keep(t, Len(pairs'))
      BY <1>8 DEF LoginIssue, Keep
    <3> QED
      BY <1>0, <2>2, <3>1, Stored
  <2>6. /\ store' \in [Devices -> 0..Len(pairs')] /\ mem' \in [Tabs -> 0..Len(pairs')]
        /\ failed' \in [Tabs -> 0..Len(pairs')] /\ sent' \in [Tabs -> 0..Len(pairs')]
    BY <1>0, <1>8, <2>2, <2>5, ClientTypes DEF LoginIssue
  <2>7. saw' \in [Tabs -> Counters]
    BY <1>0, <1>8 DEF LoginIssue, TypeOK, Nothing, Counters
  <2> QED
    BY <1>8, <2>2, <2>3, <2>6, <2>7 DEF LoginIssue, TypeOK, Pair
<1>9. ASSUME NEW t \in Tabs, CallRefused(t) PROVE TypeOK' /\ RoomIsLeft'
  <2>1. Steady /\ pc' = [pc EXCEPT ![t] = "renew"] /\ Room
    BY <1>1, <1>9 DEF CallRefused
  <2>2. RoomIsLeft'
    BY <1>5, <2>1
  <2> QED
    BY <1>9, <2>2, Holding DEF CallRefused, TypeOK
<1>10. ASSUME NEW t \in Tabs, Renew(t) PROVE TypeOK' /\ RoomIsLeft'
  <2>1. pc[t] = "renew" /\ Steady /\ UNCHANGED <<account, pairs, lapses>>
    BY <1>1, <1>10 DEF Renew
  <2>2. CASE Forget(t) /\ store' = store /\ mem' = [mem EXCEPT ![t] = store[Device[t]]]
    <3>1. RoomIsLeft'
      BY <1>3, <2>1, <2>2 DEF Forget
    <3> QED
      BY <2>1, <2>2, <3>1, Forgets, Holding DEF TypeOK
  <2>3. CASE Refused(t) /\ failed' = [failed EXCEPT ![t] = 0] /\ UNCHANGED <<spare, store, mem>>
    <3>1. RoomIsLeft'
      BY <1>3, <2>1, <2>3 DEF Refused
    <3> QED
      BY <1>0, <2>1, <2>3, <3>1, IsRefused DEF TypeOK
  <2>4. CASE /\ sent' = [sent EXCEPT ![t] = ToPresent(t)]
             /\ spare' = [spare EXCEPT ![t] = store[Device[t]] = 0]
             /\ pc' = [pc EXCEPT ![t] = "read"]
             /\ failed' = [failed EXCEPT ![t] = 0]
             /\ UNCHANGED <<store, mem, saw>>
    <3>1. RoomIsLeft'
      BY <1>4, <2>1, <2>4 DEF Critical, AtServer
    <3>2. spare' \in [Tabs -> BOOLEAN]
      BY <2>4 DEF TypeOK
    <3>3. failed' \in [Tabs -> 0..Len(pairs)] /\ sent' \in [Tabs -> 0..Len(pairs)]
      <4>1. failed \in [Tabs -> 0..Len(pairs)] /\ sent \in [Tabs -> 0..Len(pairs)]
        BY DEF TypeOK
      <4>2. ToPresent(t) \in 0..Len(pairs) /\ 0 \in 0..Len(pairs)
        BY <1>0, Holding DEF ToPresent
      <4> QED
        BY <2>4, <4>1, <4>2
    <3>4. pc' \in [Tabs -> States]
      BY <2>4 DEF TypeOK, Critical, AtServer
    <3> QED
      BY <2>1, <2>4, <3>1, <3>2, <3>3, <3>4 DEF TypeOK
  <2> QED
    BY <1>10, <2>2, <2>3, <2>4 DEF Renew
<1>11. ASSUME NEW t \in Tabs, RefreshRead(t) PROVE TypeOK' /\ RoomIsLeft'
  <2>1. Counts(user) \in Counters
    BY DEF Counts, Counters, TypeOK, Users
  <2>2. Steady /\ pc[t] = "read" /\ UNCHANGED <<account, store, mem, failed, lapses>>
    BY <1>1, <1>11 DEF RefreshRead
  <2>3. PICK s \in {"refused", "claim"} : pc' = [pc EXCEPT ![t] = s]
    BY <1>11 DEF RefreshRead, Refused
  <2>4. RoomIsLeft'
    BY <1>4, <2>2, <2>3 DEF Critical, AtServer
  <2>5. /\ saw' \in [Tabs -> Counters] /\ spare' \in [Tabs -> BOOLEAN]
        /\ sent' \in [Tabs -> 0..Len(pairs)]
    <3>1. spare' \in [Tabs -> BOOLEAN]
      BY <1>11 DEF RefreshRead, TypeOK
    <3>2. CASE Refused(t)
      BY <3>1, <3>2, IsRefused
    <3>3. CASE saw' = [saw EXCEPT ![t] = Counts(user)] /\ sent' = sent
      BY <2>1, <3>1, <3>3 DEF TypeOK
    <3> QED
      BY <1>11, <3>2, <3>3 DEF RefreshRead
  <2>6. pc' \in [Tabs -> States]
    BY <2>3 DEF TypeOK, Critical, AtServer
  <2> QED
    BY <2>2, <2>4, <2>5, <2>6 DEF TypeOK, Pair
<1>12. ASSUME NEW t \in Tabs, RefreshClaim(t) PROVE TypeOK' /\ RoomIsLeft'
  <2>1. sent[t] \in Ids /\ pairs[sent[t]] \in Pair /\ [pairs[sent[t]] EXCEPT !.row = "claimed"] \in Pair
    BY <1>12, SentIsPair, PairKept DEF RefreshClaim
  <2>2. Steady /\ pc[t] = "claim" /\ UNCHANGED <<account, store, mem, failed, spare, lapses>>
    BY <1>1, <1>12, <2>1 DEF RefreshClaim
  <2>3. PICK s \in {"refused", "commit"} : pc' = [pc EXCEPT ![t] = s]
    BY <1>12 DEF RefreshClaim, Refused
  <2>4. RoomIsLeft'
    BY <1>4, <2>2, <2>3 DEF Critical, AtServer
  <2>5. pc' \in [Tabs -> States]
    BY <2>3 DEF TypeOK, Critical, AtServer
  <2>6. saw' \in [Tabs -> Counters] /\ sent' \in [Tabs -> 0..Len(pairs)]
    BY <1>12, IsRefused DEF RefreshClaim, TypeOK
  <2> QED
    BY <2>2, <2>4, <2>5, <2>6 DEF TypeOK, Pair
<1>13. ASSUME NEW t \in Tabs, RefreshCommit(t) PROVE TypeOK' /\ RoomIsLeft'
  <2> DEFINE p == pairs[sent[t]]
  <2>1. sent[t] \in Ids /\ p \in Pair /\ [p EXCEPT !.row = "rotated"] \in Pair
    BY <1>13, SentIsPair, PairKept DEF RefreshCommit
  <2>2. Issued(saw[t], sent[t], p.since, p.late) \in Pair
    <3>1. saw[t] \in Counters /\ sent[t] \in 0..MaxPairs /\ user.revocations \in 0..MaxChanges
      BY <1>0, Holding DEF TypeOK, Users
    <3> QED
      BY <1>0, <2>1, <3>1 DEF Issued, Pair, Counters
  <2>3. [pairs EXCEPT ![sent[t]].row = "rotated"] \in Seq(Pair) /\ Len([pairs EXCEPT ![sent[t]].row = "rotated"]) = Len(pairs)
    BY <1>0, <2>1, ExceptSeq
  <2>4. pairs' \in Seq(Pair) /\ Len(pairs') = Len(pairs) + 1
    BY <1>0, <1>13, <2>2, <2>3, PairIssued DEF RefreshCommit
  <2>5. RoomIsLeft' /\ Len(pairs') <= MaxPairs
    BY <1>6, <1>13, <2>4 DEF RefreshCommit
  <2>6. /\ store' \in [Devices -> 0..Len(pairs')] /\ mem' \in [Tabs -> 0..Len(pairs')]
        /\ failed' \in [Tabs -> 0..Len(pairs')] /\ sent' \in [Tabs -> 0..Len(pairs')]
    BY <1>0, <1>13, <2>4, ClientTypes DEF RefreshCommit
  <2>7. saw' \in [Tabs -> Counters] /\ pc' \in [Tabs -> States]
    <3>1. saw \in [Tabs -> Counters] /\ pc \in [Tabs -> States]
      BY DEF TypeOK
    <3>2. Nothing \in Counters /\ "granted" \in States
      BY <1>0 DEF Nothing, Counters, Critical
    <3> QED
      BY <1>13, <3>1, <3>2 DEF RefreshCommit
  <2> QED
    BY <1>13, <2>4, <2>5, <2>6, <2>7 DEF RefreshCommit, TypeOK, Pair
<1>14. ASSUME NEW t \in Tabs, Receive(t) PROVE TypeOK' /\ RoomIsLeft'
  <2>1. Granted(t) \in 1..Len(pairs)
    BY <1>0, <1>14, GrantedIsOne DEF Receive, Lineage
  <2>2. RoomIsLeft'
    BY <1>1, <1>3, <1>14 DEF Receive, Forget
  <2>3. store' \in [Devices -> 0..Len(pairs)] /\ mem' \in [Tabs -> 0..Len(pairs)]
    <3>1. Keep(t, Granted(t))
      BY <1>14 DEF Receive, Keep
    <3> QED
      BY <1>0, <2>1, <3>1, Stored
  <2> QED
    BY <1>14, <2>2, <2>3, Forgets DEF Receive, TypeOK
<1>15. ASSUME NEW t \in Tabs, ReceiveRefusal(t) PROVE TypeOK' /\ RoomIsLeft'
  <2>1. RoomIsLeft'
    BY <1>1, <1>3, <1>15 DEF ReceiveRefusal, Forget
  <2> QED
    BY <1>15, <2>1, Forgets, Drops DEF ReceiveRefusal, TypeOK
<1>16. ASSUME NEW t \in Tabs, LoseAnswer(t) PROVE TypeOK' /\ RoomIsLeft'
  <2>1. sent[t] \in Ids /\ [pairs[sent[t]] EXCEPT !.lost = TRUE] \in Pair
    BY <1>16, SentIsPair, PairKept DEF LoseAnswer
  <2>2. Steady
    BY <1>1, <1>16, <2>1 DEF LoseAnswer
  <2>3. RoomIsLeft'
    BY <1>3, <1>16, <2>2 DEF LoseAnswer, Forget
  <2>4. mem' \in [Tabs -> 0..Len(pairs)] /\ lapses' \in 0..MaxLapses
    <3>1. store[Device[t]] \in 0..Len(pairs)
      BY Holding
    <3>2. mem \in [Tabs -> 0..Len(pairs)] /\ lapses \in 0..MaxLapses
      BY DEF TypeOK
    <3> QED
      BY <1>0, <1>16, <3>1, <3>2 DEF LoseAnswer
  <2> QED
    BY <1>16, <2>2, <2>3, <2>4, Forgets DEF LoseAnswer, TypeOK, Pair
<1>17. ASSUME NEW t \in Tabs, ChangePassword(t) PROVE TypeOK' /\ RoomIsLeft'
  <2>1. Steady /\ user' \in Users
    BY <1>0, <1>1, <1>17, Changes DEF ChangePassword, TypeOK, Users
  <2>2. RoomIsLeft'
    BY <1>3, <1>17, <2>1 DEF ChangePassword, Forget
  <2> QED
    BY <1>17, <2>1, <2>2, Forgets, Drops DEF ChangePassword, TypeOK, Pair
<1>18. ASSUME NEW t \in Tabs, Logout(t) \/ Reload(t) PROVE TypeOK' /\ RoomIsLeft'
  <2>1. RoomIsLeft'
    BY <1>1, <1>2, <1>18 DEF Logout, Reload
  <2>2. CASE Logout(t)
    BY <2>1, <2>2, Drops DEF Logout, TypeOK
  <2>3. CASE Reload(t)
    <3>1. store[Device[t]] \in 0..Len(pairs)
      BY Holding
    <3> QED
      BY <2>1, <2>3, <3>1 DEF Reload, TypeOK
  <2> QED
    BY <1>18, <2>2, <2>3
<1>19. ASSUME NEW t \in Tabs, VerifyPassword(t) PROVE TypeOK' /\ RoomIsLeft'
  <2>1. RoomIsLeft'
    BY <1>1, <1>3, <1>19 DEF VerifyPassword
  <2> QED
    BY <1>19, <2>1 DEF VerifyPassword, TypeOK
<1>20. ASSUME (\E t \in Tabs : LogoutAll(t)) \/ AdminReset \/ ChangeLogin \/ Disable PROVE TypeOK' /\ RoomIsLeft'
  <2>1. Steady /\ user' \in Users /\ pc' = pc
    BY <1>0, <1>1, <1>20, Changes DEF LogoutAll, AdminReset, ChangeLogin, Disable, TypeOK, Users
  <2>2. RoomIsLeft'
    BY <1>2, <2>1
  <2> QED
    BY <1>20, <2>1, <2>2 DEF LogoutAll, AdminReset, ChangeLogin, Disable, TypeOK, Pair
<1>21. ASSUME NEW i \in Ids, (\E t \in Tabs : RevokeSession(t, i)) \/ Lapse(i) PROVE TypeOK' /\ RoomIsLeft'
  <2>1. [pairs[i] EXCEPT !.row = "revoked"] \in Pair /\ \A a \in {"stale", "expired"} : [pairs[i] EXCEPT !.age = a] \in Pair
    BY <1>0, PairKept
  <2>2. pairs' = [pairs EXCEPT ![i].row = "revoked"] \/ \E a \in {"stale", "expired"} : pairs' = [pairs EXCEPT ![i].age = a]
    BY <1>21 DEF RevokeSession, Lapse
  <2>3. Steady /\ pc' = pc
    BY <1>1, <1>21, <2>1, <2>2 DEF RevokeSession, Lapse
  <2>4. RoomIsLeft' /\ lapses' \in 0..MaxLapses
    <3>1. lapses \in 0..MaxLapses
      BY DEF TypeOK
    <3> QED
      BY <1>0, <1>2, <1>21, <2>3, <3>1 DEF RevokeSession, Lapse
  <2> QED
    BY <1>21, <2>3, <2>4 DEF RevokeSession, Lapse, TypeOK, Pair
<1>22. ASSUME NEW i \in Links, ResetRead(i) \/ LapseReset(i) PROVE TypeOK' /\ RoomIsLeft'
  <2>1. RoomIsLeft' /\ lapses' \in 0..MaxLapses
    <3>1. Steady /\ pc' = pc
      BY <1>1, <1>22 DEF ResetRead, LapseReset
    <3>2. lapses \in 0..MaxLapses
      BY DEF TypeOK
    <3>3. lapses' = lapses \/ (lapses < MaxLapses /\ lapses' = lapses + 1)
      BY <1>22 DEF ResetRead, LapseReset
    <3> QED
      BY <1>0, <1>2, <3>1, <3>2, <3>3
  <2>2. resets' \in [Links -> {"none", "open", "used", "lapsed"}]
    BY <1>22 DEF ResetRead, LapseReset, TypeOK
  <2>3. redeeming' \in [Links -> 0..2]
    <3>1. redeeming \in [Links -> 0..2]
      BY DEF TypeOK
    <3> QED
      BY <1>22, <3>1 DEF ResetRead, LapseReset
  <2> QED
    BY <1>22, <2>1, <2>2, <2>3 DEF ResetRead, LapseReset, TypeOK
<1>23. ASSUME NEW i \in Links, ResetCommit(i) PROVE TypeOK' /\ RoomIsLeft'
  <2>1. Steady /\ user' \in Users /\ pc' = pc
    BY <1>0, <1>1, <1>23, Changes DEF ResetCommit, TypeOK, Users
  <2>2. RoomIsLeft'
    BY <1>2, <2>1
  <2>3. redeeming' \in [Links -> 0..2]
    BY <1>23 DEF ResetCommit, TypeOK
  <2>4. /\ resets' \in [Links -> {"none", "open", "used", "lapsed"}]
        /\ redeemed' \in [Links -> 0..2]
    <3>1. /\ resets \in [Links -> {"none", "open", "used", "lapsed"}]
          /\ redeemed \in [Links -> 0..2]
      BY DEF TypeOK
    <3>2. resets[i] = "open" => redeemed[i] = 0
      BY DEF LinksInv, LinksFollow
    <3> QED
      BY <1>23, <3>1, <3>2 DEF ResetCommit, Claimable
  <2> QED
    BY <1>23, <2>1, <2>2, <2>3, <2>4 DEF ResetCommit, TypeOK, Pair
<1>24. ASSUME ForgotLook \/ \E n \in 0..MaxResets : ForgotMail(n) PROVE TypeOK' /\ RoomIsLeft'
  <2>1. RoomIsLeft'
    BY <1>0, <1>1, <1>2, <1>24 DEF ForgotLook, ForgotMail
  <2>2. CASE ForgotLook
    <3>1. PICK k \in 0..MaxResets : Cardinality(Mailed) = k
      BY <1>0, FS_Interval DEF LinksInv, LinksFollow
    <3>2. asking \in [0..MaxResets -> 0..MaxResets]
      BY DEF TypeOK
    <3>3. /\ asking' = [asking EXCEPT ![k] = @ + 1] /\ k + asking[k] < MaxResets
          /\ UNCHANGED <<locks, user, pairs, client, pc, saw, resets, mailed, redeeming, redeemed, lapses>>
      BY <2>2, <3>1 DEF ForgotLook
    <3>4. asking[k] + 1 \in 0..MaxResets
      <4>1. asking[k] \in 0..MaxResets /\ k \in 0..MaxResets /\ k + asking[k] < MaxResets
        BY <3>2, <3>3
      <4> QED
        BY <4>1, SessionsAssumption
    <3>5. asking' \in [0..MaxResets -> 0..MaxResets]
      BY <3>2, <3>3, <3>4
    <3>6. /\ UNCHANGED <<locks, user, pairs, pc, saw, resets, mailed, redeeming, redeemed, lapses>>
          /\ UNCHANGED <<store, mem, failed, sent, spare>>
      BY <3>3
    <3> QED
      BY <2>1, <3>5, <3>6 DEF TypeOK
  <2>3. ASSUME NEW n \in 0..MaxResets, ForgotMail(n) PROVE TypeOK'
    <3>1. asking' \in [0..MaxResets -> 0..MaxResets]
      <4>1. asking \in [0..MaxResets -> 0..MaxResets]
        BY DEF TypeOK
      <4>2. asking' = [asking EXCEPT ![n] = @ - 1] /\ asking[n] > 0
        BY <2>3 DEF ForgotMail
      <4>3. asking[n] \in 0..MaxResets
        BY <4>1
      <4>4. asking[n] - 1 \in 0..MaxResets
        BY <4>2, <4>3, SessionsAssumption
      <4> QED
        BY <4>1, <4>2, <4>4
    <3>2. resets' \in [Links -> {"none", "open", "used", "lapsed"}]
      BY <2>3 DEF ForgotMail, TypeOK
    <3>3. mailed' \in [Links -> [after : 0..MaxResets, used : SUBSET Links]]
      <4>1. PICK i \in Links : \E k \in n..(i - 1) :
               mailed' = [mailed EXCEPT ![i] = [after |-> k, used |-> {j \in Links : redeemed[j] # 0}]]
        BY <2>3 DEF ForgotMail
      <4>2. PICK k \in n..(i - 1) :
               mailed' = [mailed EXCEPT ![i] = [after |-> k, used |-> {j \in Links : redeemed[j] # 0}]]
        BY <4>1
      <4>3. k \in 0..MaxResets
        BY SessionsAssumption DEF Links
      <4> QED
        BY <4>2, <4>3 DEF TypeOK
    <3> QED
      BY <2>1, <2>3, <3>1, <3>2, <3>3 DEF ForgotMail, TypeOK
  <2> QED
    BY <1>24, <2>1, <2>2, <2>3
<1>25. CASE Reactivate
  <2>1. user' \in Users
    <3>1. user \in Users /\ user.version + 1 \in 0..MaxChanges /\ user' = [user EXCEPT !.status = "ACTIVE", !.version = @ + 1]
      BY <1>0, <1>25 DEF Reactivate, TypeOK, Users
    <3> QED
      BY <3>1 DEF Users
  <2>2. RoomIsLeft'
    BY <1>1, <1>2, <1>25 DEF Reactivate
  <2> QED
    BY <1>25, <2>1, <2>2 DEF Reactivate, TypeOK
<1>26. CASE UNCHANGED vars
  BY <1>1, <1>2, <1>26 DEF vars, TypeOK
<1> QED
  BY <1>7, <1>8, <1>9, <1>10, <1>11, <1>12, <1>13, <1>14, <1>15, <1>16, <1>17, <1>18, <1>19, <1>20, <1>21, <1>22,
     <1>23, <1>24, <1>25, <1>26 DEF Next
-----------------------------------------------------------------------------
\* Rows keep what they were issued with; live ones may be revoked.
RowsEnd ==
    /\ Ids' = Ids
    /\ \A i \in Ids :
          /\ pairs'[i].from = pairs[i].from /\ pairs'[i].since = pairs[i].since
          /\ pairs'[i].late = pairs[i].late /\ pairs'[i].lost = pairs[i].lost
          /\ pairs'[i].row = pairs[i].row \/ (pairs[i].row = "live" /\ pairs'[i].row = "revoked")

\* No request enters the critical section, claims a row or is given a pair; the account is as it
\* was, or a revocation has ended its live sessions; the apps keep what they stored, or less.
NoExchange ==
    /\ locks' = locks
    /\ RowsEnd
    /\ \A t \in Tabs :
          /\ pc'[t] \in Critical => pc[t] \in Critical
          /\ pc'[t] \in Critical <=> sent'[t] # 0
          /\ sent'[t] \in {sent[t], 0}
          /\ pc'[t] \in {"read", "commit", "granted"} => pc'[t] = pc[t]
          /\ pc'[t] = "read" => spare'[t] = spare[t]
          /\ pc'[t] = "commit" => saw'[t] = saw[t]
          /\ pc[t] = "granted" => pc'[t] = "granted"
          /\ saw'[t].revocations <= user'.revocations
    /\ \/ user'.revocations = user.revocations
       \/ user'.revocations = user.revocations + 1 /\ \A i \in Ids : pairs'[i].row # "live"
    /\ user'.revocations <= user'.version
    /\ \A d \in Devices : store'[d] \in {store[d], 0}
    /\ \A t \in Tabs : mem'[t] \in {mem[t], store[Device[t]], 0}

\* What a tab has sent is known to it, and it has sent a pair exactly in the critical section.
LEMMA SentOf ==
    ASSUME TypeOK, Requests, NEW t \in Tabs
    PROVE  /\ pc[t] \in {"read", "claim", "commit", "granted"} <=> sent[t] # 0
           /\ sent[t] # 0 => sent[t] \in Ids /\ sent[t] \in Knows(t)
           /\ Device[t] \in Devices
           /\ user.revocations \in Nat /\ saw[t].revocations \in Nat
<1>1. Device[t] \in Devices /\ (sent[t] # 0 => sent[t] \in Ids) /\ saw[t] \in Counters
  BY Holding
<1>2. user \in Users /\ MaxChanges \in Nat
  BY SessionsAssumption DEF TypeOK
<1>3. user.revocations \in Nat /\ saw[t].revocations \in Nat
  BY <1>1, <1>2 DEF Users, Counters
<1> QED
  BY <1>1, <1>3 DEF Requests, Critical, AtServer, Knows

\* The parts of the invariant that the types and the links are not.
Core == Requests /\ Lineage /\ Reached /\ Apart /\ Unseen /\ Exclusive /\ StoredIsCurrent /\ ReuseIsExplained

\* A step that exchanges nothing keeps them (logins and calls, logouts, the account's changes,
\* refused renewals, tokens that expire).
LEMMA NoExchangeKeeps ==
    ASSUME TypeOK, Core, NoExchange
    PROVE  Core'
<1> USE DEF Core
<1>1. \A t \in Tabs : /\ pc[t] \in Critical <=> sent[t] # 0
                      /\ sent[t] # 0 => sent[t] \in Ids
                      /\ Device[t] \in Devices
                      /\ user.revocations \in Nat /\ saw[t].revocations \in Nat
  BY SentOf, Holding DEF Requests
<1>2. ASSUME NEW t \in Tabs, pc'[t] \in {"read", "commit", "granted"}
      PROVE  pc'[t] = pc[t] /\ sent'[t] = sent[t] /\ sent[t] \in Ids /\ sent[t] # 0
  BY <1>1, <1>2 DEF NoExchange, Critical, AtServer
<1>3. ASSUME NEW i \in Ids, pairs[i].row # "live"
      PROVE  pairs'[i].row = pairs[i].row
  BY <1>3 DEF NoExchange, RowsEnd
<1>4. Requests'
  <2>1. ASSUME NEW t \in Tabs
        PROVE  /\ pc'[t] = "commit" => pairs'[sent'[t]].row = "claimed"
               /\ pc'[t] = "granted" => pairs'[sent'[t]].row = "rotated"
    BY <1>2, <1>3, <2>1 DEF Requests
  <2>2. ASSUME NEW t \in Tabs, NEW o \in Tabs, pc'[t] \in {"commit", "granted"}, pc'[o] \in {"commit", "granted"},
               sent'[t] = sent'[o]
        PROVE  t = o
    BY <1>2, <2>2 DEF Requests
  <2> QED
    BY <2>1, <2>2 DEF Requests, NoExchange
<1>5. Lineage'
  <2>1. OneSuccessor'
    BY DEF Lineage, OneSuccessor, NoExchange, RowsEnd
  <2>2. \A i \in Ids' : pairs'[i].from # 0 => pairs'[i].from \in Ids' /\ pairs'[pairs'[i].from].row = "rotated"
    BY <1>3 DEF Lineage, NoExchange, RowsEnd
  <2>3. \A t \in Tabs : pc'[t] = "granted" => \E i \in Ids' : pairs'[i].from = sent'[t]
    BY <1>2 DEF Lineage, NoExchange, RowsEnd
  <2> QED
    BY <2>1, <2>2, <2>3 DEF Lineage
<1>6. Reached'
  <2>1. RevocationReachesAll'
    BY DEF Reached, RevocationReachesAll, NoExchange, RowsEnd
  <2>2. ASSUME NEW t \in Tabs, pc'[t] = "commit", ~pairs'[sent'[t]].late, saw'[t].revocations = user'.revocations
        PROVE  pairs'[sent'[t]].since = user'.revocations
    <3>1. /\ pc[t] = "commit" /\ sent'[t] = sent[t] /\ sent[t] \in Ids /\ saw'[t] = saw[t]
          /\ ~pairs[sent[t]].late /\ pairs'[sent[t]].since = pairs[sent[t]].since
      BY <1>2, <2>2 DEF NoExchange, RowsEnd
    <3>2. saw[t].revocations <= user.revocations /\ user.revocations \in Nat
      BY <1>1 DEF Reached
    <3>3. user'.revocations = user.revocations
      BY <2>2, <3>1, <3>2 DEF NoExchange
    <3> QED
      BY <2>2, <3>1, <3>3 DEF Reached
  <2> QED
    BY <2>1, <2>2 DEF Reached, NoExchange
<1>7. ASSUME NEW t \in Tabs PROVE Knows(t)' \subseteq Knows(t)
  BY <1>1 DEF Knows, NoExchange
<1>8. Apart'
  BY <1>7 DEF Apart
<1>9. Unseen'
  <2>1. ASSUME NEW t \in Tabs, pc'[t] = "granted", NEW i \in Ids', pairs'[i].from = sent'[t]
        PROVE  pairs'[i].row \in {"live", "revoked"} /\ \A o \in Tabs : i \notin Knows(o)'
    <3>1. pc[t] = "granted" /\ i \in Ids /\ pairs[i].from = sent[t]
      BY <1>2, <2>1 DEF NoExchange, RowsEnd
    <3>2. pairs[i].row \in {"live", "revoked"} /\ \A o \in Tabs : i \notin Knows(o)
      BY <3>1 DEF Unseen
    <3> QED
      BY <1>7, <3>1, <3>2 DEF NoExchange, RowsEnd
  <2> QED
    BY <2>1 DEF Unseen
<1>10. Exclusive'
  BY DEF Exclusive, NoExchange
<1>11. StoredIsCurrent'
  <2>1. ASSUME NEW d \in Devices, store'[d] # 0, pairs'[store'[d]].row = "rotated"
        PROVE  \/ pairs'[store'[d]].lost
               \/ \E t \in Tabs : Device[t] = d /\ pc'[t] = "granted" /\ sent'[t] = store'[d]
    <3>1. store'[d] = store[d] /\ store[d] \in Ids
      <4>1. store[d] \in 0..Len(pairs) /\ Len(pairs) \in Nat /\ Ids = 1..Len(pairs)
        BY Numbered DEF TypeOK
      <4> QED
        BY <2>1, <4>1 DEF NoExchange
    <3>2. pairs[store[d]].row = "rotated"
      BY <2>1, <3>1 DEF NoExchange, RowsEnd
    <3>3. CASE pairs[store[d]].lost
      BY <3>1, <3>3 DEF NoExchange, RowsEnd
    <3>4. ASSUME NEW t \in Tabs, Device[t] = d, pc[t] = "granted", sent[t] = store[d]
          PROVE  pc'[t] = "granted" /\ sent'[t] = store'[d]
      BY <1>2, <3>1, <3>4 DEF NoExchange
    <3> QED
      BY <2>1, <3>1, <3>2, <3>3, <3>4 DEF StoredIsCurrent
  <2> QED
    BY <2>1 DEF StoredIsCurrent, Devices
<1>12. ReuseIsExplained'
  <2>1. ASSUME NEW t \in Tabs, locks', pc'[t] = "read", pairs'[sent'[t]].row = "rotated"
        PROVE  pairs'[sent'[t]].lost \/ spare'[t]
    BY <1>2, <2>1 DEF ReuseIsExplained, NoExchange, RowsEnd
  <2> QED
    BY <2>1 DEF ReuseIsExplained
<1> QED
  BY <1>4, <1>5, <1>6, <1>8, <1>9, <1>10, <1>11, <1>12

\* Requests that stay where they are, and end no session.
LEMMA StayingPut ==
    ASSUME TypeOK, Core, UNCHANGED <<pc, sent, spare, saw, locks>>, RowsEnd,
           \/ user'.revocations = user.revocations
           \/ user'.revocations = user.revocations + 1 /\ \A i \in Ids : pairs'[i].row # "live",
           user'.revocations <= user'.version, user'.revocations \in Nat,
           \A d \in Devices : store'[d] \in {store[d], 0},
           \A t \in Tabs : mem'[t] \in {mem[t], store[Device[t]], 0}
    PROVE  Core'
<1>1. \A t \in Tabs : saw'[t].revocations <= user'.revocations
  BY SentOf DEF Core, Reached
<1>2. NoExchange
  BY <1>1 DEF NoExchange, Core, Requests
<1> QED
  BY <1>2, NoExchangeKeeps

\* The rows after a revocation of all the live ones.
LEMMA RevokedEnd ==
    ASSUME TypeOK, pairs' = Revoked(pairs)
    PROVE  RowsEnd /\ \A i \in Ids : pairs'[i].row # "live"
<1>1. \A i \in Ids : pairs[i] \in Pair
  BY Numbered
<1>2. \A i \in Ids : /\ pairs[i].row = "live" => pairs'[i] = [pairs[i] EXCEPT !.row = "revoked"]
                     /\ pairs[i].row # "live" => pairs'[i] = pairs[i]
  BY AllRevoked
<1>3. ASSUME NEW i \in Ids
      PROVE  /\ pairs'[i].from = pairs[i].from /\ pairs'[i].since = pairs[i].since
             /\ pairs'[i].late = pairs[i].late /\ pairs'[i].lost = pairs[i].lost
             /\ pairs'[i].row = pairs[i].row \/ (pairs[i].row = "live" /\ pairs'[i].row = "revoked")
             /\ pairs'[i].row # "live"
  BY <1>1, <1>2, <1>3, ZenonT(60) DEF Pair
<1> QED
  BY <1>3, AllRevoked DEF RowsEnd

\* A tab that was not at the server, or was refused, forgets its request.
LEMMA ForgetsQuietly ==
    ASSUME TypeOK, Core, NEW t \in Tabs, pc[t] \in {"idle", "login", "renew", "verified", "refused"}, Forget(t), locks' = locks, RowsEnd,
           \/ user'.revocations = user.revocations
           \/ user'.revocations = user.revocations + 1 /\ \A i \in Ids : pairs'[i].row # "live",
           user'.revocations <= user'.version, user'.revocations \in Nat,
           \A d \in Devices : store'[d] \in {store[d], 0},
           \A o \in Tabs : mem'[o] \in {mem[o], store[Device[o]], 0}
    PROVE  Core'
<1>1. \A o \in Tabs : /\ pc'[o] = IF o = t THEN "idle" ELSE pc[o]
                      /\ sent'[o] = IF o = t THEN 0 ELSE sent[o]
                      /\ saw'[o] = IF o = t THEN Nothing ELSE saw[o]
                      /\ spare'[o] = IF o = t THEN FALSE ELSE spare[o]
  BY Forgets
<1>2. \A o \in Tabs : saw'[o].revocations <= user'.revocations
  <2>1. ASSUME NEW o \in Tabs PROVE saw[o].revocations <= user'.revocations
    BY SentOf DEF Core, Reached
  <2>2. Nothing.revocations = 0
    BY DEF Nothing
  <2>3. ASSUME NEW o \in Tabs PROVE saw'[o].revocations <= user'.revocations
    <3>1. saw'[o] = Nothing \/ saw'[o] = saw[o]
      BY <1>1
    <3>2. 0 <= user'.revocations
      OBVIOUS
    <3> QED
      BY <2>1, <2>2, <3>1, <3>2
  <2> QED
    BY <2>3
<1>3. ASSUME NEW o \in Tabs
      PROVE  /\ pc'[o] \in Critical => pc[o] \in Critical
             /\ pc'[o] \in Critical <=> sent'[o] # 0
             /\ sent'[o] \in {sent[o], 0}
             /\ pc'[o] \in {"read", "commit", "granted"} => pc'[o] = pc[o]
             /\ pc'[o] = "read" => spare'[o] = spare[o]
             /\ pc'[o] = "commit" => saw'[o] = saw[o]
             /\ pc[o] = "granted" => pc'[o] = "granted"
  BY <1>1, <1>3 DEF Critical, AtServer, Core, Requests
<1>4. NoExchange
  BY <1>2, <1>3 DEF NoExchange
<1> QED
  BY <1>4, NoExchangeKeeps

\* A tab's request goes on without claiming a row: it begins outside the critical section, or
\* moves in it to claim.
LEMMA MovesQuietly ==
    ASSUME TypeOK, Core, NEW t \in Tabs, NEW s,
           \/ pc[t] = "idle" /\ s \in {"login", "renew", "verified"}
           \/ pc[t] = "read" /\ s = "claim",
           pc' = [pc EXCEPT ![t] = s],
           saw' = saw \/ saw' = [saw EXCEPT ![t] = Counts(user)],
           spare' = spare \/ spare' = [spare EXCEPT ![t] = FALSE],
           UNCHANGED <<locks, user, store, mem, sent>>, RowsEnd
    PROVE  Core'
<1>1. \A o \in Tabs : /\ pc'[o] = IF o = t THEN s ELSE pc[o]
                      /\ saw'[o] = saw[o] \/ (o = t /\ saw'[o] = Counts(user))
                      /\ o # t => spare'[o] = spare[o]
  <2>1. pc \in [Tabs -> {"idle", "login", "renew", "refused", "verified"} \cup Critical] /\ saw \in [Tabs -> Counters]
        /\ spare \in [Tabs -> BOOLEAN]
    BY DEF TypeOK
  <2> QED
    BY <2>1
<1>2. \A o \in Tabs : saw'[o].revocations <= user'.revocations
  BY <1>1, SentOf DEF Core, Reached, Counts
<1>3. ASSUME NEW o \in Tabs
      PROVE  /\ pc'[o] \in Critical => pc[o] \in Critical
             /\ pc'[o] \in Critical <=> sent'[o] # 0
             /\ sent'[o] \in {sent[o], 0}
             /\ pc'[o] \in {"read", "commit", "granted"} => pc'[o] = pc[o]
             /\ pc'[o] = "read" => spare'[o] = spare[o]
             /\ pc'[o] = "commit" => saw'[o] = saw[o]
             /\ pc[o] = "granted" => pc'[o] = "granted"
  BY <1>1, <1>3 DEF Critical, AtServer, Core, Requests
<1>4. NoExchange
  BY <1>2, <1>3 DEF NoExchange, Core, Requests
<1> QED
  BY <1>4, NoExchangeKeeps

\* A request that was not answered yet is refused, or there was nothing to present.
LEMMA RefusedQuietly ==
    ASSUME TypeOK, Core, NEW t \in Tabs, pc[t] \in {"renew", "read", "claim"}, Refused(t),
           spare' = spare \/ spare' = [spare EXCEPT ![t] = FALSE],
           UNCHANGED <<locks, user, store, mem>>, RowsEnd
    PROVE  Core'
<1>1. \A o \in Tabs : /\ pc'[o] = IF o = t THEN "refused" ELSE pc[o]
                      /\ sent'[o] = IF o = t THEN 0 ELSE sent[o]
                      /\ saw'[o] = IF o = t THEN Nothing ELSE saw[o]
                      /\ o # t => spare'[o] = spare[o]
  BY IsRefused DEF TypeOK
<1>2. ASSUME NEW o \in Tabs PROVE saw'[o].revocations <= user'.revocations
  <2>1. saw[o].revocations <= user.revocations /\ user.revocations \in Nat
    BY SentOf DEF Core, Reached
  <2>2. Nothing.revocations = 0
    BY DEF Nothing
  <2>3. saw'[o] = Nothing \/ saw'[o] = saw[o]
    BY <1>1
  <2> QED
    BY <2>1, <2>2, <2>3
<1>3. ASSUME NEW o \in Tabs
      PROVE  /\ pc'[o] \in Critical => pc[o] \in Critical
             /\ pc'[o] \in Critical <=> sent'[o] # 0
             /\ sent'[o] \in {sent[o], 0}
             /\ pc'[o] \in {"read", "commit", "granted"} => pc'[o] = pc[o]
             /\ pc'[o] = "read" => spare'[o] = spare[o]
             /\ pc'[o] = "commit" => saw'[o] = saw[o]
             /\ pc[o] = "granted" => pc'[o] = "granted"
  BY <1>1, <1>3 DEF Critical, AtServer, Core, Requests
<1>4. NoExchange
  BY <1>2, <1>3 DEF NoExchange, Core, Requests
<1> QED
  BY <1>4, NoExchangeKeeps

\* The steps that exchange nothing.
LEMMA QuietSteps ==
    ASSUME TypeOK, Core, NEW t \in Tabs,
           \/ LoginRead(t) \/ CallRefused(t) \/ VerifyPassword(t) \/ RefreshRead(t)
           \/ RefreshClaim(t) /\ pairs[sent[t]].row # "live"
           \/ Renew(t) /\ pc'[t] # "read"
           \/ ReceiveRefusal(t) \/ ChangePassword(t) \/ Logout(t) \/ Reload(t) \/ LogoutAll(t)
           \/ \E i \in Ids : RevokeSession(t, i)
    PROVE  Core'
<1> USE DEF account, client, linkVars
<1>1. /\ user \in Users /\ user.revocations \in Nat /\ user.revocations <= user.version
      /\ \A i \in Ids : pairs[i] \in Pair
  BY SentOf, Numbered DEF TypeOK, Core, Requests
<1>2. ASSUME pairs' = pairs PROVE RowsEnd
  BY <1>2 DEF RowsEnd, Ids
<1>3. CASE LoginRead(t)
  BY <1>2, <1>3, MovesQuietly DEF LoginRead
<1>4. CASE CallRefused(t)
  BY <1>2, <1>4, MovesQuietly DEF CallRefused
<1>5. CASE VerifyPassword(t)
  BY <1>2, <1>5, MovesQuietly DEF VerifyPassword
<1>6. CASE RefreshRead(t)
  <2>1. RowsEnd
    BY <1>2, <1>6, RevokedEnd DEF RefreshRead
  <2>2. pc[t] = "read" /\ UNCHANGED <<locks, user, store, mem>> /\ spare' = [spare EXCEPT ![t] = FALSE]
    BY <1>6 DEF RefreshRead
  <2>3. CASE Refused(t)
    BY <2>1, <2>2, <2>3, RefusedQuietly
  <2>4. CASE pc' = [pc EXCEPT ![t] = "claim"] /\ saw' = [saw EXCEPT ![t] = Counts(user)] /\ sent' = sent
    BY <2>1, <2>2, <2>4, MovesQuietly
  <2> QED
    BY <1>6, <2>3, <2>4 DEF RefreshRead
<1>7. CASE RefreshClaim(t) /\ pairs[sent[t]].row # "live"
  BY <1>2, <1>7, RefusedQuietly DEF RefreshClaim
<1>8. CASE Renew(t) /\ pc'[t] # "read"
  <2>1. pc[t] = "renew" /\ UNCHANGED <<account, pairs, lapses>>
    BY <1>8 DEF Renew
  <2>2. CASE Forget(t) /\ store' = store /\ mem' = [mem EXCEPT ![t] = store[Device[t]]]
    <3>1. \A o \in Tabs : mem'[o] \in {mem[o], store[Device[o]], 0}
      BY <2>2 DEF TypeOK
    <3> QED
      BY <1>1, <1>2, <2>1, <2>2, <3>1, ForgetsQuietly
  <2>3. CASE Refused(t) /\ UNCHANGED <<spare, store, mem>>
    BY <1>2, <2>1, <2>3, RefusedQuietly
  <2> QED
    BY <1>8, <2>2, <2>3 DEF Renew, TypeOK
<1>9. CASE ReceiveRefusal(t)
  BY <1>1, <1>2, <1>9, Drops, ForgetsQuietly DEF ReceiveRefusal
<1>10. CASE ChangePassword(t)
  <2>1. \/ user' = user /\ pairs' = pairs
        \/ RevokeAndChange([user EXCEPT !.force = FALSE])
    BY <1>10 DEF ChangePassword
  <2>2. RevokeAndChange([user EXCEPT !.force = FALSE]) =>
            /\ user'.revocations = user.revocations + 1 /\ user'.version = user.version + 1
            /\ pairs' = Revoked(pairs) /\ user' \in Users
    BY <1>1, Changes DEF Core, Users
  <2>3. CASE user' = user /\ pairs' = pairs
    BY <1>1, <1>2, <1>10, <2>3, Drops, ForgetsQuietly DEF ChangePassword
  <2>4. CASE RevokeAndChange([user EXCEPT !.force = FALSE])
    <3>1. /\ user'.revocations = user.revocations + 1 /\ user'.version = user.version + 1
          /\ user.version \in Nat /\ pairs' = Revoked(pairs)
      BY <1>1, <2>2, <2>4, SessionsAssumption DEF Users
    <3>2. RowsEnd /\ \A i \in Ids : pairs'[i].row # "live"
      BY <3>1, RevokedEnd
    <3>3. user'.revocations <= user'.version /\ user'.revocations \in Nat
      BY <1>1, <3>1
    <3>4. /\ pc[t] = "verified" /\ Forget(t) /\ locks' = locks
          /\ \A d \in Devices : store'[d] \in {store[d], 0}
          /\ \A o \in Tabs : mem'[o] \in {mem[o], store[Device[o]], 0}
      BY <1>10, Drops DEF ChangePassword
    <3> QED
      BY <3>1, <3>2, <3>3, <3>4, ForgetsQuietly
  <2> QED
    BY <2>1, <2>3, <2>4
<1>11. CASE Logout(t)
  BY <1>1, <1>2, <1>11, Drops, StayingPut DEF Logout
<1>12. CASE Reload(t)
  <2>1. \A o \in Tabs : mem'[o] \in {mem[o], store[Device[o]], 0}
    BY <1>12 DEF Reload, TypeOK
  <2> QED
    BY <1>1, <1>2, <1>12, <2>1, StayingPut DEF Reload
<1>13. CASE LogoutAll(t)
  <2>1. /\ user'.revocations = user.revocations + 1 /\ user'.version = user.version + 1
        /\ pairs' = Revoked(pairs) /\ user' \in Users
    BY <1>1, <1>13, Changes DEF Core, LogoutAll
  <2> QED
    BY <1>1, <1>13, <2>1, RevokedEnd, StayingPut, SessionsAssumption DEF LogoutAll, Users
<1>14. ASSUME NEW i \in Ids, RevokeSession(t, i) PROVE Core'
  <2>1. [pairs[i] EXCEPT !.row = "revoked"] \in Pair
    BY <1>1 DEF Pair
  <2>2. /\ Ids' = Ids
        /\ \A j \in Ids : pairs'[j] = IF j = i THEN [pairs[i] EXCEPT !.row = "revoked"] ELSE pairs[j]
    BY <1>14, <2>1, RowUpdated, ZenonT(60) DEF RevokeSession
  <2>3. RowsEnd
    BY <1>1, <1>14, <2>2 DEF RowsEnd, RevokeSession, Pair
  <2> QED
    BY <1>1, <1>14, <2>3, StayingPut DEF RevokeSession
<1> QED
  BY <1>3, <1>4, <1>5, <1>6, <1>7, <1>8, <1>9, <1>10, <1>11, <1>12, <1>13, <1>14

\* The account's changes by its staff and by reset links, and tokens that expire, exchange nothing.
LEMMA AccountSteps ==
    ASSUME TypeOK, Core,
           \/ ForgotLook \/ (\E n \in 0..MaxResets : ForgotMail(n)) \/ AdminReset \/ ChangeLogin \/ Disable \/ Reactivate
           \/ \E i \in Links : ResetRead(i) \/ ResetCommit(i) \/ LapseReset(i)
           \/ \E i \in Ids : Lapse(i)
           \/ UNCHANGED vars
    PROVE  Core'
<1> USE DEF account, client, linkVars
<1>1. /\ user \in Users /\ user.revocations \in Nat /\ user.revocations <= user.version
      /\ user.version \in Nat /\ \A i \in Ids : pairs[i] \in Pair
  BY SessionsAssumption, Numbered DEF TypeOK, Core, Requests, Users
<1>2. ASSUME pairs' = pairs PROVE RowsEnd
  BY <1>2 DEF RowsEnd, Ids
<1>3. ASSUME NEW u \in Users, u.revocations = user.revocations, u.version = user.version, RevokeAndChange(u),
             UNCHANGED <<locks, client, pc, saw>>
      PROVE  Core'
  <2>1. /\ user'.revocations = user.revocations + 1 /\ user'.version = user.version + 1
        /\ pairs' = Revoked(pairs)
    BY <1>3, Changes DEF Core
  <2> QED
    BY <1>1, <1>3, <2>1, RevokedEnd, StayingPut
<1>4. CASE AdminReset \/ ChangeLogin \/ Disable
  BY <1>1, <1>3, <1>4 DEF AdminReset, ChangeLogin, Disable, Users
<1>5. ASSUME NEW i \in Links, ResetCommit(i) PROVE Core'
  <2>1. CASE Claimable(i)
    BY <1>1, <1>3, <1>5, <2>1 DEF ResetCommit, Users
  <2>2. CASE ~Claimable(i)
    BY <1>1, <1>2, <1>5, <2>2, StayingPut DEF ResetCommit
  <2> QED
    BY <2>1, <2>2
<1>6. CASE ForgotLook \/ (\E n \in 0..MaxResets : ForgotMail(n)) \/ (\E i \in Links : ResetRead(i) \/ LapseReset(i)) \/ UNCHANGED vars
  BY <1>1, <1>2, <1>6, StayingPut DEF ForgotLook, ForgotMail, ResetRead, LapseReset, vars
<1>7. CASE Reactivate
  <2>1. user'.revocations = user.revocations /\ user'.version = user.version + 1
    BY <1>1, <1>7 DEF Reactivate, Users
  <2> QED
    BY <1>1, <1>2, <1>7, <2>1, StayingPut DEF Reactivate
<1>8. ASSUME NEW i \in Ids, Lapse(i) PROVE Core'
  <2>1. PICK a \in {"stale", "expired"} : pairs' = [pairs EXCEPT ![i].age = a]
    BY <1>8 DEF Lapse
  <2>2. [pairs[i] EXCEPT !.age = a] \in Pair
    BY <1>1 DEF Pair
  <2>3. /\ Ids' = Ids
        /\ \A j \in Ids : pairs'[j] = IF j = i THEN [pairs[i] EXCEPT !.age = a] ELSE pairs[j]
    BY <2>1, <2>2, RowUpdated
  <2>4. RowsEnd
    BY <1>1, <2>3 DEF RowsEnd, Pair
  <2> QED
    BY <1>1, <1>8, <2>4, StayingPut DEF Lapse
<1> QED
  BY <1>4, <1>5, <1>6, <1>7, <1>8
-----------------------------------------------------------------------------
\* A login's pair is new, and no one presents it before it is answered (AuthService.login).
LEMMA LoginKeeps ==
    ASSUME TypeOK, TypeOK', Core, NEW t \in Tabs, LoginIssue(t)
    PROVE  Core'
<1> USE DEF Core, account, client, linkVars
<1> DEFINE n == Len(pairs) + 1
<1>1. /\ n \notin Ids /\ Ids' = Ids \cup {n} /\ n # 0 /\ Len(pairs') = n
      /\ pairs'[n] = LoginPair(t) /\ \A j \in Ids : pairs'[j] = pairs[j]
  <2>1. LoginPair(t) \in Pair
    <3>1. saw[t] \in Counters /\ user \in Users /\ MaxChanges \in Nat /\ MaxPairs \in Nat
      BY Holding, SessionsAssumption DEF TypeOK
    <3> QED
      BY <3>1 DEF LoginPair, Issued, Pair, Counters, Users
  <2> QED
    BY <2>1, PairIssued, Numbered DEF LoginIssue
<1>2. /\ pairs'[n].row = "live" /\ pairs'[n].from = 0 /\ pairs'[n].since = saw[t].revocations
      /\ pairs'[n].late <=> saw[t].revocations # user.revocations
  <2> DEFINE r == saw[t].revocations
             p == [row |-> "live", age |-> "fresh", version |-> saw[t].version, since |-> r,
                   from |-> 0, late |-> FALSE \/ r # user.revocations, lost |-> FALSE]
  <2>1. p.row = "live" /\ p.from = 0 /\ p.since = r /\ (p.late <=> r # user.revocations)
    BY Zenon
  <2>2. pairs'[n] = p
    BY <1>1 DEF LoginPair, Issued
  <2> QED
    BY <2>1, <2>2
<1>3. /\ pc[t] = "login" /\ UNCHANGED <<locks, user, sent, spare>>
      /\ \A o \in Tabs : pc'[o] = IF o = t THEN "idle" ELSE pc[o]
      /\ \A o \in Tabs : saw'[o] = IF o = t THEN Nothing ELSE saw[o]
      /\ \A d \in Devices : store'[d] = IF d = Device[t] THEN n ELSE store[d]
      /\ \A o \in Tabs : mem'[o] = IF o = t THEN n ELSE mem[o]
  <2>1. Keep(t, n) /\ n \in Nat /\ Len(pairs) <= n /\ n \in 0..n
    BY <1>1, Numbered DEF LoginIssue, Keep
  <2> QED
    BY <2>1, Stored DEF LoginIssue, TypeOK
<1>4. \A o \in Tabs : /\ pc[o] \in Critical <=> sent[o] # 0
                      /\ sent[o] # 0 => sent[o] \in Ids
                      /\ Device[o] \in Devices
                      /\ user.revocations \in Nat /\ saw[o].revocations \in Nat
  BY SentOf DEF Requests
<1>5. ASSUME NEW o \in Tabs, pc'[o] # "idle"
      PROVE  pc'[o] = pc[o] /\ o # t /\ saw'[o] = saw[o] /\ (sent[o] # 0 => pairs'[sent[o]] = pairs[sent[o]])
  BY <1>1, <1>3, <1>4, <1>5
<1>6. Requests'
  <2>1. \A o \in Tabs : pc'[o] \in Critical <=> sent'[o] # 0
    BY <1>3, <1>4 DEF Critical, AtServer
  <2>2. ASSUME NEW o \in Tabs
        PROVE  /\ pc'[o] = "commit" => pairs'[sent'[o]].row = "claimed"
               /\ pc'[o] = "granted" => pairs'[sent'[o]].row = "rotated"
    BY <1>3, <1>4, <1>5, <2>2 DEF Requests, Critical, AtServer
  <2> QED
    BY <1>3, <1>5, <2>1, <2>2 DEF Requests
<1>7. Lineage'
  <2>1. OneSuccessor'
    BY <1>1, <1>2 DEF Lineage, OneSuccessor
  <2>2. ASSUME NEW i \in Ids', pairs'[i].from # 0
        PROVE  pairs'[i].from \in Ids' /\ pairs'[pairs'[i].from].row = "rotated"
    BY <1>1, <1>2, <2>2 DEF Lineage
  <2>3. ASSUME NEW o \in Tabs, pc'[o] = "granted" PROVE \E i \in Ids' : pairs'[i].from = sent'[o]
    <3>1. PICK i \in Ids : pairs[i].from = sent[o]
      BY <1>5, <2>3 DEF Lineage
    <3> QED
      BY <1>1, <1>3, <3>1
  <2> QED
    BY <2>1, <2>2, <2>3 DEF Lineage
<1>8. Reached'
  <2>1. RevocationReachesAll'
    BY <1>1, <1>2, <1>3 DEF Reached, RevocationReachesAll
  <2>2. \A o \in Tabs : saw'[o].revocations <= user'.revocations
    BY <1>3, <1>4 DEF Reached, Nothing
  <2>3. ASSUME NEW o \in Tabs, pc'[o] = "commit", ~pairs'[sent'[o]].late, saw'[o].revocations = user'.revocations
        PROVE  pairs'[sent'[o]].since = user'.revocations
    BY <1>3, <1>4, <1>5, <2>3 DEF Reached, Critical, AtServer
  <2> QED
    BY <2>2, <2>1, <2>3 DEF Reached
<1>9. ASSUME NEW o \in Tabs
      PROVE  /\ Knows(o)' \subseteq Knows(o) \cup {n}
             /\ n \in Knows(o)' => Device[o] = Device[t]
             /\ n \notin Knows(o)
  <2>1. store[Device[o]] \in 0..Len(pairs) /\ mem[o] \in 0..Len(pairs) /\ sent[o] \in 0..Len(pairs) /\ Len(pairs) \in Nat
    BY Holding, Numbered
  <2> QED
    BY <1>3, <1>4, <2>1 DEF Knows
<1>10. Apart'
  BY <1>9 DEF Apart
<1>11. Unseen'
  <2>1. ASSUME NEW o \in Tabs, pc'[o] = "granted", NEW i \in Ids', pairs'[i].from = sent'[o]
        PROVE  pairs'[i].row \in {"live", "revoked"} /\ \A k \in Tabs : i \notin Knows(k)'
    <3>1. pc[o] = "granted" /\ i \in Ids /\ i # n /\ pairs[i].from = sent[o]
      BY <1>1, <1>2, <1>3, <1>4, <1>5, <2>1 DEF Critical
    <3>2. pairs[i].row \in {"live", "revoked"} /\ \A k \in Tabs : i \notin Knows(k)
      BY <3>1 DEF Unseen
    <3> QED
      BY <1>1, <1>9, <3>1, <3>2
  <2> QED
    BY <2>1 DEF Unseen
<1>12. Exclusive'
  BY <1>3 DEF Exclusive, Critical, AtServer
<1>13. StoredIsCurrent'
  <2>1. ASSUME NEW d \in Devices, store'[d] # 0, pairs'[store'[d]].row = "rotated"
        PROVE  \/ pairs'[store'[d]].lost
               \/ \E o \in Tabs : Device[o] = d /\ pc'[o] = "granted" /\ sent'[o] = store'[d]
    <3>1. store'[d] = store[d] /\ store[d] \in Ids
      <4>1. store[d] \in 0..Len(pairs) /\ Len(pairs) \in Nat /\ Ids = 1..Len(pairs)
        BY Numbered DEF TypeOK
      <4> QED
        BY <1>2, <1>3, <2>1, <4>1
    <3>2. pairs'[store[d]] = pairs[store[d]]
      BY <1>1, <3>1
    <3> QED
      BY <1>3, <2>1, <3>1, <3>2 DEF StoredIsCurrent
  <2> QED
    BY <2>1 DEF StoredIsCurrent, Devices
<1>14. ReuseIsExplained'
  BY <1>3, <1>4, <1>5 DEF ReuseIsExplained, Critical, AtServer
<1> QED
  BY <1>6, <1>7, <1>8, <1>10, <1>11, <1>12, <1>13, <1>14

\* A renewal presents what the device stores, or the tab's own copy; under the lock no other tab of
\* the device has anything under way (refreshWebSession).
LEMMA RenewKeeps ==
    ASSUME TypeOK, Core, NEW t \in Tabs, Renew(t), pc'[t] = "read"
    PROVE  Core'
<1> USE DEF Core, account, client, linkVars
<1>1. /\ pc[t] = "renew" /\ LockFree(t) /\ UNCHANGED <<locks, user, pairs, store, mem, saw>>
      /\ sent' = [sent EXCEPT ![t] = ToPresent(t)] /\ ToPresent(t) # 0
      /\ spare' = [spare EXCEPT ![t] = store[Device[t]] = 0]
      /\ pc' = [pc EXCEPT ![t] = "read"]
  <2>1. ~Forget(t)
    BY Forgets
  <2>2. ~Refused(t)
    BY IsRefused
  <2> QED
    BY <2>1, <2>2 DEF Renew
<1>2. /\ ToPresent(t) \in Ids /\ ToPresent(t) \in Knows(t)
      /\ store[Device[t]] # 0 => ToPresent(t) = store[Device[t]]
      /\ Device[t] \in Devices
  BY <1>1, Holding DEF ToPresent, Held, Knows
<1>3. /\ \A o \in Tabs : pc'[o] = IF o = t THEN "read" ELSE pc[o]
      /\ \A o \in Tabs : sent'[o] = IF o = t THEN ToPresent(t) ELSE sent[o]
      /\ \A o \in Tabs : o # t => spare'[o] = spare[o]
      /\ spare'[t] <=> store[Device[t]] = 0
      /\ Ids' = Ids
  BY <1>1 DEF TypeOK, Ids
<1>4. \A o \in Tabs : pc[o] \in Critical <=> sent[o] # 0
  BY DEF Requests
<1>5. ASSUME NEW o \in Tabs, pc'[o] \in {"commit", "granted"} PROVE o # t /\ pc'[o] = pc[o] /\ sent'[o] = sent[o]
  BY <1>3, <1>5
<1>6. Requests'
  <2>1. \A o \in Tabs : pc'[o] \in Critical <=> sent'[o] # 0
    BY <1>1, <1>3, <1>4 DEF Critical, AtServer
  <2> QED
    BY <1>1, <1>5, <2>1 DEF Requests
<1>7. Lineage'
  BY <1>1, <1>3, <1>5 DEF Lineage, OneSuccessor
<1>8. Reached'
  BY <1>1, <1>3, <1>5 DEF Reached, RevocationReachesAll
<1>9. ASSUME NEW o \in Tabs PROVE Knows(o)' \subseteq Knows(o)
  BY <1>1, <1>2, <1>3 DEF Knows
<1>10. Apart'
  BY <1>9 DEF Apart
<1>11. Unseen'
  BY <1>1, <1>3, <1>5, <1>9 DEF Unseen
<1>12. Exclusive'
  BY <1>1, <1>3 DEF Exclusive, LockFree
<1>13. StoredIsCurrent'
  <2>1. ASSUME NEW o \in Tabs, pc[o] = "granted" PROVE pc'[o] = "granted" /\ sent'[o] = sent[o]
    BY <1>1, <1>3, <2>1
  <2> QED
    BY <1>1, <2>1 DEF StoredIsCurrent
<1>14. ReuseIsExplained'
  <2>1. ASSUME locks, pairs[ToPresent(t)].row = "rotated", store[Device[t]] # 0
        PROVE  pairs[ToPresent(t)].lost
    <3>1. \/ pairs[store[Device[t]]].lost
          \/ \E o \in Tabs : Device[o] = Device[t] /\ pc[o] = "granted"
      BY <1>2, <2>1 DEF StoredIsCurrent
    <3>2. ASSUME NEW o \in Tabs, Device[o] = Device[t] PROVE pc[o] # "granted"
      BY <1>1, <2>1, <3>2 DEF LockFree, Critical
    <3> QED
      BY <1>2, <2>1, <3>1, <3>2
  <2> QED
    BY <1>1, <1>3, <2>1 DEF ReuseIsExplained
<1> QED
  BY <1>6, <1>7, <1>8, <1>10, <1>11, <1>12, <1>13, <1>14

\* A live row is claimed by one transaction (the updateMany of AuthService.refresh).
LEMMA ClaimKeeps ==
    ASSUME TypeOK, Core, NEW t \in Tabs, RefreshClaim(t), pairs[sent[t]].row = "live"
    PROVE  Core'
<1> USE DEF Core, account, client, linkVars
<1> DEFINE s == sent[t]
<1>1. /\ pc[t] = "claim" /\ s \in Ids /\ s # 0
      /\ UNCHANGED <<locks, user, store, mem, sent, spare, saw>>
      /\ pc' = [pc EXCEPT ![t] = "commit"] /\ pairs' = [pairs EXCEPT ![s].row = "claimed"]
  BY SentOf DEF RefreshClaim
<1>2. pairs[s] \in Pair /\ [pairs[s] EXCEPT !.row = "claimed"] \in Pair
  <2>1. pairs[s] \in Pair
    BY <1>1, Numbered
  <2> QED
    BY <2>1 DEF Pair
<1>3. /\ Ids' = Ids
      /\ \A i \in Ids : i # s => pairs'[i] = pairs[i]
      /\ \A i \in Ids : /\ pairs'[i].from = pairs[i].from /\ pairs'[i].since = pairs[i].since
                        /\ pairs'[i].late = pairs[i].late /\ pairs'[i].lost = pairs[i].lost
      /\ pairs'[s].row = "claimed"
  <2>1. Ids' = Ids /\ \A i \in Ids : pairs'[i] = IF i = s THEN [pairs[s] EXCEPT !.row = "claimed"] ELSE pairs[i]
    BY <1>1, <1>2, RowUpdated
  <2> QED
    BY <1>1, <1>2, <2>1 DEF Pair
<1>4. \A o \in Tabs : pc'[o] = IF o = t THEN "commit" ELSE pc[o]
  BY <1>1 DEF TypeOK
<1>5. \A o \in Tabs : /\ pc[o] \in Critical <=> sent[o] # 0
                      /\ sent[o] # 0 => sent[o] \in Ids /\ sent[o] \in Knows(o)
                      /\ Device[o] \in Devices
  BY SentOf DEF Requests
<1>6. ASSUME NEW o \in Tabs, pc[o] \in {"commit", "granted"}
      PROVE  o # t /\ pc'[o] = pc[o] /\ sent[o] # s /\ sent[o] \in Ids
  BY <1>1, <1>4, <1>5, <1>6 DEF Requests, Critical, AtServer
<1>7. Requests'
  <2>1. \A o \in Tabs : pc'[o] \in Critical <=> sent'[o] # 0
    BY <1>1, <1>4, <1>5 DEF Critical, AtServer
  <2>2. ASSUME NEW o \in Tabs
        PROVE  /\ pc'[o] = "commit" => pairs'[sent'[o]].row = "claimed"
               /\ pc'[o] = "granted" => pairs'[sent'[o]].row = "rotated"
    BY <1>1, <1>3, <1>4, <1>6, <2>2 DEF Requests
  <2> QED
    BY <1>1, <1>4, <1>6, <2>1, <2>2 DEF Requests
<1>8. Lineage'
  <2>1. OneSuccessor'
    BY <1>3 DEF Lineage, OneSuccessor
  <2>2. \A i \in Ids : pairs'[i].from # 0 => pairs'[i].from \in Ids /\ pairs'[pairs'[i].from].row = "rotated"
    BY <1>3 DEF Lineage
  <2>3. \A o \in Tabs : pc'[o] = "granted" => \E i \in Ids : pairs'[i].from = sent'[o]
    BY <1>1, <1>3, <1>4 DEF Lineage
  <2> QED
    BY <1>3, <2>1, <2>2, <2>3 DEF Lineage
<1>9. Reached'
  <2>1. RevocationReachesAll'
    BY <1>1, <1>3 DEF Reached, RevocationReachesAll
  <2>2. ASSUME NEW o \in Tabs, pc'[o] = "commit", ~pairs'[sent[o]].late, saw[o].revocations = user.revocations
        PROVE  pairs'[sent[o]].since = user.revocations
    <3>1. CASE o = t
      BY <1>1, <1>3, <2>2, <3>1 DEF Reached, RevocationReachesAll
    <3>2. CASE o # t
      BY <1>3, <1>4, <1>6, <2>2, <3>2 DEF Reached
    <3> QED
      BY <3>1, <3>2
  <2> QED
    BY <1>1, <2>1, <2>2 DEF Reached
<1>10. \A o \in Tabs : Knows(o)' = Knows(o)
  BY <1>1 DEF Knows
<1>11. Apart'
  BY <1>10 DEF Apart
<1>12. Unseen'
  <2>1. ASSUME NEW o \in Tabs, pc'[o] = "granted", NEW i \in Ids, pairs'[i].from = sent[o]
        PROVE  pairs'[i].row \in {"live", "revoked"} /\ \A k \in Tabs : i \notin Knows(k)
    <3>1. pc[o] = "granted" /\ pairs[i].from = sent[o]
      BY <1>3, <1>4, <2>1
    <3>2. pairs[i].row \in {"live", "revoked"} /\ \A k \in Tabs : i \notin Knows(k)
      BY <3>1 DEF Unseen
    <3>3. i # s
      BY <1>1, <1>5, <3>2
    <3> QED
      BY <1>3, <3>2, <3>3
  <2> QED
    BY <1>1, <1>3, <1>10, <2>1 DEF Unseen
<1>13. Exclusive'
  BY <1>1, <1>4 DEF Exclusive, Critical, AtServer
<1>14. StoredIsCurrent'
  <2>1. ASSUME NEW d \in Devices, store[d] # 0, pairs'[store[d]].row = "rotated"
        PROVE  \/ pairs'[store[d]].lost
               \/ \E o \in Tabs : Device[o] = d /\ pc'[o] = "granted" /\ sent[o] = store[d]
    <3>1. store[d] \in Ids /\ store[d] # s
      <4>1. store[d] \in 0..Len(pairs) /\ Len(pairs) \in Nat /\ Ids = 1..Len(pairs)
        BY Numbered DEF TypeOK
      <4> QED
        BY <1>3, <2>1, <4>1
    <3> QED
      BY <1>3, <1>6, <2>1, <3>1 DEF StoredIsCurrent
  <2> QED
    BY <1>1, <2>1 DEF StoredIsCurrent
<1>15. ReuseIsExplained'
  BY <1>1, <1>3, <1>4, <1>5 DEF ReuseIsExplained, Critical, AtServer
<1> QED
  BY <1>7, <1>8, <1>9, <1>11, <1>12, <1>13, <1>14, <1>15

\* The claimed row is exchanged: it is rotated, and one pair descends from it (AuthService.refresh).
LEMMA CommitKeeps ==
    ASSUME TypeOK, TypeOK', Core, NEW t \in Tabs, RefreshCommit(t)
    PROVE  Core'
<1> USE DEF Core, account, client, linkVars
<1> DEFINE n == Len(pairs) + 1
           s == sent[t]
<1>1. /\ pc[t] = "commit" /\ s \in Ids /\ s # 0 /\ pairs[s].row = "claimed"
      /\ UNCHANGED <<locks, user, store, mem, sent, spare>>
      /\ pc' = [pc EXCEPT ![t] = "granted"] /\ saw' = [saw EXCEPT ![t] = Nothing]
  BY SentOf DEF RefreshCommit, Requests
<1>2. /\ Len(pairs) \in Nat /\ Ids = 1..Len(pairs) /\ \A i \in Ids : pairs[i] \in Pair
      /\ saw[t] \in Counters /\ user \in Users /\ MaxChanges \in Nat /\ MaxPairs \in Nat /\ s \in 0..MaxPairs
  <2>1. s \in 0..Len(pairs) /\ Len(pairs) <= MaxPairs /\ Len(pairs) \in Nat /\ MaxPairs \in Nat
    BY Holding, Numbered
  <2>2. s \in 0..MaxPairs
    BY <2>1
  <2>3. user \in Users
    BY DEF TypeOK
  <2> QED
    BY <2>1, <2>2, <2>3, Holding, Numbered
<1>3. /\ n \notin Ids /\ Ids' = Ids \cup {n} /\ n # 0 /\ n # s
      /\ \A i \in Ids : i # s => pairs'[i] = pairs[i]
      /\ pairs'[s] = [pairs[s] EXCEPT !.row = "rotated"]
      /\ pairs'[n] = Issued(saw[t], s, pairs[s].since, pairs[s].late)
  <2>1. [pairs[s] EXCEPT !.row = "rotated"] \in Pair /\ pairs[s] \in Pair
    <3>1. pairs[s] \in Pair
      BY <1>1, <1>2
    <3> QED
      BY <3>1 DEF Pair
  <2>2. Issued(saw[t], s, pairs[s].since, pairs[s].late) \in Pair
    BY <1>2, <2>1 DEF Issued, Pair, Counters, Users
  <2>3. /\ [pairs EXCEPT ![s].row = "rotated"] \in Seq(Pair)
        /\ Len([pairs EXCEPT ![s].row = "rotated"]) = Len(pairs)
        /\ \A i \in Ids : [pairs EXCEPT ![s].row = "rotated"][i] =
                              IF i = s THEN [pairs[s] EXCEPT !.row = "rotated"] ELSE pairs[i]
    BY <1>1, <1>2, <2>1, Numbered, ExceptSeq
  <2>4. pairs' = Append([pairs EXCEPT ![s].row = "rotated"], Issued(saw[t], s, pairs[s].since, pairs[s].late))
    BY DEF RefreshCommit
  <2>5. /\ Ids' = Ids \cup {n} /\ n \notin Ids /\ pairs'[n] = Issued(saw[t], s, pairs[s].since, pairs[s].late)
        /\ \A i \in Ids : pairs'[i] = [pairs EXCEPT ![s].row = "rotated"][i]
    BY <2>2, <2>3, <2>4, PairIssued
  <2> QED
    BY <1>1, <1>2, <2>3, <2>5
<1>4. /\ \A i \in Ids : /\ pairs'[i].from = pairs[i].from /\ pairs'[i].since = pairs[i].since
                        /\ pairs'[i].late = pairs[i].late /\ pairs'[i].lost = pairs[i].lost
      /\ pairs'[s].row = "rotated"
      /\ \A i \in Ids : pairs[i].row # "claimed" => pairs'[i].row = pairs[i].row
  <2>1. pairs[s] \in Pair
    BY <1>1, <1>2
  <2>2. /\ pairs'[s].row = "rotated" /\ pairs'[s].from = pairs[s].from /\ pairs'[s].since = pairs[s].since
        /\ pairs'[s].late = pairs[s].late /\ pairs'[s].lost = pairs[s].lost
    BY <1>3, <2>1 DEF Pair
  <2> QED
    BY <1>1, <1>3, <2>2
<1>5. /\ pairs'[n].row = "live" /\ pairs'[n].from = s /\ pairs'[n].since = pairs[s].since
      /\ pairs'[n].late <=> pairs[s].late \/ saw[t].revocations # user.revocations
  <2> DEFINE p == [row |-> "live", age |-> "fresh", version |-> saw[t].version, since |-> pairs[s].since,
                   from |-> s, late |-> pairs[s].late \/ saw[t].revocations # user.revocations, lost |-> FALSE]
  <2>1. /\ p.row = "live" /\ p.from = s /\ p.since = pairs[s].since
        /\ p.late <=> pairs[s].late \/ saw[t].revocations # user.revocations
    BY Zenon
  <2>2. pairs'[n] = p
    BY <1>3 DEF Issued
  <2> QED
    BY <2>1, <2>2
<1>6. /\ \A o \in Tabs : pc'[o] = IF o = t THEN "granted" ELSE pc[o]
      /\ \A o \in Tabs : saw'[o] = IF o = t THEN Nothing ELSE saw[o]
  BY <1>1 DEF TypeOK
<1>7. \A o \in Tabs : /\ pc[o] \in Critical <=> sent[o] # 0
                      /\ sent[o] # 0 => sent[o] \in Ids /\ sent[o] \in Knows(o)
                      /\ Device[o] \in Devices
                      /\ user.revocations \in Nat /\ saw[o].revocations \in Nat
  BY SentOf DEF Requests
<1>8. ASSUME NEW o \in Tabs, o # t, pc[o] \in {"commit", "granted"}
      PROVE  sent[o] # s /\ sent[o] \in Ids /\ pairs'[sent[o]] = pairs[sent[o]]
  BY <1>1, <1>3, <1>7, <1>8 DEF Requests, Critical, AtServer
<1>9. Requests'
  <2>1. \A o \in Tabs : pc'[o] \in Critical <=> sent'[o] # 0
    BY <1>1, <1>6, <1>7 DEF Critical, AtServer
  <2>2. ASSUME NEW o \in Tabs
        PROVE  /\ pc'[o] = "commit" => pairs'[sent'[o]].row = "claimed"
               /\ pc'[o] = "granted" => pairs'[sent'[o]].row = "rotated"
    BY <1>1, <1>4, <1>6, <1>8, <2>2 DEF Requests
  <2> QED
    BY <1>1, <1>6, <1>8, <2>1, <2>2 DEF Requests
<1>10. \A i \in Ids : pairs[i].from # s
  BY <1>1 DEF Lineage
<1>11. Lineage'
  <2>1. OneSuccessor'
    BY <1>3, <1>4, <1>5, <1>10 DEF Lineage, OneSuccessor
  <2>2. ASSUME NEW i \in Ids', pairs'[i].from # 0
        PROVE  pairs'[i].from \in Ids' /\ pairs'[pairs'[i].from].row = "rotated"
    <3>1. CASE i = n
      BY <1>1, <1>3, <1>4, <1>5, <3>1
    <3>2. CASE i \in Ids
      BY <1>3, <1>4, <2>2, <3>2 DEF Lineage
    <3> QED
      BY <1>3, <3>1, <3>2
  <2>3. ASSUME NEW o \in Tabs, pc'[o] = "granted" PROVE \E i \in Ids' : pairs'[i].from = sent'[o]
    <3>1. CASE o = t
      BY <1>1, <1>3, <1>5, <3>1
    <3>2. CASE o # t
      <4>1. PICK i \in Ids : pairs[i].from = sent[o]
        BY <1>6, <2>3, <3>2 DEF Lineage
      <4> QED
        BY <1>1, <1>3, <1>4, <4>1
    <3> QED
      BY <3>1, <3>2
  <2> QED
    BY <2>1, <2>2, <2>3 DEF Lineage
<1>12. Reached'
  <2>1. ASSUME NEW i \in Ids', pairs'[i].row = "live", ~pairs'[i].late PROVE pairs'[i].since = user.revocations
    <3>1. CASE i = n
      BY <1>1, <1>5, <2>1, <3>1 DEF Reached
    <3>2. CASE i \in Ids
      BY <1>1, <1>3, <1>4, <2>1, <3>2 DEF Reached, RevocationReachesAll
    <3> QED
      BY <1>3, <3>1, <3>2
  <2>2. \A o \in Tabs : saw'[o].revocations <= user.revocations
    BY <1>6, <1>7 DEF Reached, Nothing
  <2>3. ASSUME NEW o \in Tabs, pc'[o] = "commit", ~pairs'[sent[o]].late, saw'[o].revocations = user.revocations
        PROVE  pairs'[sent[o]].since = user.revocations
    BY <1>6, <1>8, <2>3 DEF Reached
  <2> QED
    BY <1>1, <2>1, <2>2, <2>3 DEF Reached, RevocationReachesAll
<1>13. ASSUME NEW o \in Tabs PROVE Knows(o)' = Knows(o) /\ n \notin Knows(o)
  <2>1. store[Device[o]] \in 0..Len(pairs) /\ mem[o] \in 0..Len(pairs) /\ sent[o] \in 0..Len(pairs)
    BY Holding
  <2> QED
    BY <1>1, <1>2, <2>1 DEF Knows
<1>14. Apart'
  BY <1>13 DEF Apart
<1>15. Unseen'
  <2>1. ASSUME NEW o \in Tabs, pc'[o] = "granted", NEW i \in Ids', pairs'[i].from = sent[o]
        PROVE  pairs'[i].row \in {"live", "revoked"} /\ \A k \in Tabs : i \notin Knows(k)
    <3>1. CASE i = n
      BY <1>5, <1>13, <3>1
    <3>2. CASE i \in Ids
      <4>1. o # t /\ pc[o] = "granted" /\ pairs[i].from = sent[o]
        BY <1>4, <1>6, <1>10, <2>1, <3>2
      <4>2. pairs[i].row \in {"live", "revoked"} /\ \A k \in Tabs : i \notin Knows(k)
        BY <3>2, <4>1 DEF Unseen
      <4> QED
        BY <1>4, <3>2, <4>2
    <3> QED
      BY <1>3, <2>1, <3>1, <3>2
  <2> QED
    BY <1>1, <1>13, <2>1 DEF Unseen
<1>16. Exclusive'
  BY <1>1, <1>6 DEF Exclusive, Critical, AtServer
<1>17. StoredIsCurrent'
  <2>1. ASSUME NEW d \in Devices, store[d] # 0, pairs'[store[d]].row = "rotated"
        PROVE  \/ pairs'[store[d]].lost
               \/ \E o \in Tabs : Device[o] = d /\ pc'[o] = "granted" /\ sent[o] = store[d]
    <3>1. store[d] \in Ids
      <4>1. store[d] \in 0..Len(pairs)
        BY DEF TypeOK
      <4> QED
        BY <1>2, <2>1, <4>1
    <3>2. CASE store[d] = s
      <4>1. PICK o \in Tabs : Device[o] = d
        BY DEF Devices
      <4>2. s \in Knows(o) /\ s \in Knows(t)
        BY <1>1, <1>7, <3>2, <4>1 DEF Knows
      <4>3. Device[t] = d
        BY <4>1, <4>2 DEF Apart
      <4> QED
        BY <1>6, <3>2, <4>3
    <3>3. CASE store[d] # s
      BY <1>3, <1>6, <2>1, <3>1, <3>3 DEF StoredIsCurrent
    <3> QED
      BY <3>2, <3>3
  <2> QED
    BY <1>1, <2>1 DEF StoredIsCurrent
<1>18. ReuseIsExplained'
  <2>1. ASSUME locks, NEW o \in Tabs, pc'[o] = "read", pairs'[sent[o]].row = "rotated"
        PROVE  pairs'[sent[o]].lost \/ spare[o]
    <3>1. o # t /\ pc[o] = "read" /\ sent[o] \in Ids
      BY <1>6, <1>7, <2>1 DEF Critical, AtServer
    <3>2. CASE sent[o] = s
      <4>1. Device[o] = Device[t]
        BY <1>1, <1>7, <3>1, <3>2 DEF Apart
      <4> QED
        BY <1>1, <2>1, <3>1, <4>1 DEF Exclusive, Critical, AtServer
    <3>3. CASE sent[o] # s
      BY <1>3, <2>1, <3>1, <3>3 DEF ReuseIsExplained
    <3> QED
      BY <3>2, <3>3
  <2> QED
    BY <1>1, <2>1 DEF ReuseIsExplained
<1> QED
  BY <1>9, <1>11, <1>12, <1>14, <1>15, <1>16, <1>17, <1>18

\* The answer arrives: its pair, nobody's until now, is stored and kept (refreshWebSession).
LEMMA ReceiveKeeps ==
    ASSUME TypeOK, TypeOK', Core, NEW t \in Tabs, Receive(t)
    PROVE  Core'
<1> USE DEF Core, account, client, linkVars
<1> DEFINE g == Granted(t)
<1>1. /\ pc[t] = "granted" /\ g \in Ids /\ pairs[g].from = sent[t] /\ Forget(t) /\ Keep(t, g)
      /\ UNCHANGED <<locks, user, pairs>> /\ Ids' = Ids
  BY GrantedIsOne DEF Receive, Lineage, Keep, Ids
<1>2. pairs[g].row \in {"live", "revoked"} /\ \A o \in Tabs : g \notin Knows(o)
  BY <1>1 DEF Unseen
<1>3. /\ \A o \in Tabs : /\ pc'[o] = IF o = t THEN "idle" ELSE pc[o]
                         /\ sent'[o] = IF o = t THEN 0 ELSE sent[o]
                         /\ saw'[o] = IF o = t THEN Nothing ELSE saw[o]
                         /\ spare'[o] = IF o = t THEN FALSE ELSE spare[o]
      /\ \A d \in Devices : store'[d] = IF d = Device[t] THEN g ELSE store[d]
      /\ \A o \in Tabs : mem'[o] = IF o = t THEN g ELSE mem[o]
  <2>1. Len(pairs) \in Nat /\ g \in 0..Len(pairs) /\ Len(pairs) <= Len(pairs)
    BY <1>1, Numbered
  <2>2. /\ \A d \in Devices : store'[d] = IF d = Device[t] THEN g ELSE store[d]
        /\ \A o \in Tabs : mem'[o] = IF o = t THEN g ELSE mem[o]
    BY <1>1, <2>1, Stored
  <2>3. Forget(t)
    BY <1>1
  <2> QED
    BY <2>2, <2>3, Forgets
<1>4. \A o \in Tabs : /\ pc[o] \in Critical <=> sent[o] # 0
                      /\ sent[o] # 0 => sent[o] \in Ids /\ sent[o] \in Knows(o)
                      /\ Device[o] \in Devices
                      /\ user.revocations \in Nat /\ saw[o].revocations \in Nat
  BY SentOf DEF Requests
<1>5. ASSUME NEW o \in Tabs, pc'[o] # "idle" PROVE o # t /\ pc'[o] = pc[o] /\ sent'[o] = sent[o] /\ saw'[o] = saw[o] /\ spare'[o] = spare[o]
  BY <1>3, <1>5
<1>6. Requests'
  <2>1. \A o \in Tabs : pc'[o] \in Critical <=> sent'[o] # 0
    BY <1>3, <1>4 DEF Critical, AtServer
  <2> QED
    BY <1>1, <1>5, <2>1 DEF Requests
<1>7. Lineage'
  BY <1>1, <1>5 DEF Lineage, OneSuccessor
<1>8. Reached'
  <2>1. \A o \in Tabs : saw'[o].revocations <= user.revocations
    <3>1. ASSUME NEW o \in Tabs PROVE saw'[o] = Nothing \/ saw'[o] = saw[o]
      BY <1>3
    <3>2. Nothing.revocations = 0
      BY DEF Nothing
    <3> QED
      BY <1>4, <3>1, <3>2 DEF Reached
  <2> QED
    BY <1>1, <1>5, <2>1 DEF Reached, RevocationReachesAll
<1>9. ASSUME NEW o \in Tabs
      PROVE  /\ Knows(o)' \subseteq Knows(o) \cup {g}
             /\ g \in Knows(o)' => Device[o] = Device[t]
  BY <1>2, <1>3, <1>4 DEF Knows
<1>10. Apart'
  BY <1>2, <1>9 DEF Apart
<1>11. Unseen'
  <2>1. ASSUME NEW o \in Tabs, pc'[o] = "granted", NEW i \in Ids, pairs[i].from = sent'[o]
        PROVE  pairs[i].row \in {"live", "revoked"} /\ \A k \in Tabs : i \notin Knows(k)'
    <3>1. o # t /\ pc[o] = "granted" /\ sent'[o] = sent[o]
      BY <1>5, <2>1
    <3>2. pairs[i].row \in {"live", "revoked"} /\ \A k \in Tabs : i \notin Knows(k)
      BY <2>1, <3>1 DEF Unseen
    <3>3. i # g
      BY <1>1, <2>1, <3>1 DEF Requests
    <3> QED
      BY <1>9, <3>2, <3>3
  <2> QED
    BY <1>1, <2>1 DEF Unseen
<1>12. Exclusive'
  BY <1>1, <1>3 DEF Exclusive, Critical, AtServer
<1>13. StoredIsCurrent'
  <2>1. ASSUME NEW d \in Devices, store'[d] # 0, pairs[store'[d]].row = "rotated"
        PROVE  \/ pairs[store'[d]].lost
               \/ \E o \in Tabs : Device[o] = d /\ pc'[o] = "granted" /\ sent'[o] = store'[d]
    <3>1. d # Device[t] /\ store'[d] = store[d]
      BY <1>2, <1>3, <2>1
    <3>2. ASSUME NEW o \in Tabs, Device[o] = d, pc[o] = "granted" PROVE pc'[o] = "granted" /\ sent'[o] = sent[o]
      BY <1>3, <3>1, <3>2
    <3> QED
      BY <2>1, <3>1, <3>2 DEF StoredIsCurrent
  <2> QED
    BY <1>1, <2>1 DEF StoredIsCurrent
<1>14. ReuseIsExplained'
  BY <1>1, <1>5 DEF ReuseIsExplained
<1> QED
  BY <1>6, <1>7, <1>8, <1>10, <1>11, <1>12, <1>13, <1>14

\* The answer is lost: its pair stays nobody's, and the one it was to replace is marked.
LEMMA LoseKeeps ==
    ASSUME TypeOK, TypeOK', Core, NEW t \in Tabs, LoseAnswer(t)
    PROVE  Core'
<1> USE DEF Core, account, client, linkVars
<1> DEFINE s == sent[t]
<1>1. /\ pc[t] = "granted" /\ s \in Ids /\ Forget(t) /\ UNCHANGED <<locks, user, store>>
      /\ pairs' = [pairs EXCEPT ![s].lost = TRUE]
  BY SentOf DEF LoseAnswer
<1>2. /\ Ids' = Ids
      /\ \A i \in Ids : i # s => pairs'[i] = pairs[i]
      /\ \A i \in Ids : /\ pairs'[i].from = pairs[i].from /\ pairs'[i].since = pairs[i].since
                        /\ pairs'[i].late = pairs[i].late /\ pairs'[i].row = pairs[i].row
      /\ pairs'[s].lost
  <2>1. pairs[s] \in Pair
    BY <1>1, Numbered
  <2>2. [pairs[s] EXCEPT !.lost = TRUE] \in Pair
    BY <2>1 DEF Pair
  <2>3. Ids' = Ids /\ \A i \in Ids : pairs'[i] = IF i = s THEN [pairs[s] EXCEPT !.lost = TRUE] ELSE pairs[i]
    BY <1>1, <2>2, RowUpdated
  <2> QED
    BY <1>1, <2>1, <2>3 DEF Pair
<1>3. /\ \A o \in Tabs : /\ pc'[o] = IF o = t THEN "idle" ELSE pc[o]
                         /\ sent'[o] = IF o = t THEN 0 ELSE sent[o]
                         /\ saw'[o] = IF o = t THEN Nothing ELSE saw[o]
                         /\ spare'[o] = IF o = t THEN FALSE ELSE spare[o]
  BY <1>1, Forgets
<1>4. \A o \in Tabs : mem'[o] \in {mem[o], store[Device[o]]}
  BY ZenonT(60) DEF LoseAnswer, TypeOK
<1>5. \A o \in Tabs : /\ pc[o] \in Critical <=> sent[o] # 0
                      /\ sent[o] # 0 => sent[o] \in Ids
                      /\ Device[o] \in Devices
                      /\ user.revocations \in Nat /\ saw[o].revocations \in Nat
  BY SentOf DEF Requests
<1>6. ASSUME NEW o \in Tabs, pc'[o] # "idle" PROVE o # t /\ pc'[o] = pc[o] /\ sent'[o] = sent[o] /\ saw'[o] = saw[o] /\ spare'[o] = spare[o]
  BY <1>3, <1>6
<1>7. Requests'
  <2>1. \A o \in Tabs : pc'[o] \in Critical <=> sent'[o] # 0
    BY <1>3, <1>5 DEF Critical, AtServer
  <2>2. ASSUME NEW o \in Tabs
        PROVE  /\ pc'[o] = "commit" => pairs'[sent'[o]].row = "claimed"
               /\ pc'[o] = "granted" => pairs'[sent'[o]].row = "rotated"
    BY <1>2, <1>5, <1>6, <2>2 DEF Requests, Critical, AtServer
  <2> QED
    BY <1>1, <1>6, <2>1, <2>2 DEF Requests
<1>8. Lineage'
  <2>1. OneSuccessor'
    BY <1>2 DEF Lineage, OneSuccessor
  <2>2. \A i \in Ids : pairs'[i].from # 0 => pairs'[i].from \in Ids /\ pairs'[pairs'[i].from].row = "rotated"
    BY <1>2 DEF Lineage
  <2>3. \A o \in Tabs : pc'[o] = "granted" => \E i \in Ids : pairs'[i].from = sent'[o]
    BY <1>2, <1>6 DEF Lineage
  <2> QED
    BY <1>2, <2>1, <2>2, <2>3 DEF Lineage
<1>9. Reached'
  <2>1. \A o \in Tabs : saw'[o].revocations <= user.revocations
    <3>1. ASSUME NEW o \in Tabs PROVE saw'[o] = Nothing \/ saw'[o] = saw[o]
      BY <1>3
    <3>2. Nothing.revocations = 0
      BY DEF Nothing
    <3> QED
      BY <1>5, <3>1, <3>2 DEF Reached
  <2>2. RevocationReachesAll'
    BY <1>1, <1>2 DEF Reached, RevocationReachesAll
  <2>3. ASSUME NEW o \in Tabs, pc'[o] = "commit", ~pairs'[sent'[o]].late, saw'[o].revocations = user.revocations
        PROVE  pairs'[sent'[o]].since = user.revocations
    BY <1>2, <1>5, <1>6, <2>3 DEF Reached, Critical, AtServer
  <2> QED
    BY <1>1, <2>1, <2>2, <2>3 DEF Reached
<1>10. ASSUME NEW o \in Tabs PROVE Knows(o)' \subseteq Knows(o)
  BY <1>1, <1>3, <1>4 DEF Knows
<1>11. Apart'
  BY <1>10 DEF Apart
<1>12. Unseen'
  <2>1. ASSUME NEW o \in Tabs, pc'[o] = "granted", NEW i \in Ids, pairs'[i].from = sent'[o]
        PROVE  pairs'[i].row \in {"live", "revoked"} /\ \A k \in Tabs : i \notin Knows(k)'
    BY <1>2, <1>6, <1>10, <2>1 DEF Unseen
  <2> QED
    BY <1>2, <2>1 DEF Unseen
<1>13. Exclusive'
  BY <1>1, <1>3 DEF Exclusive, Critical, AtServer
<1>14. StoredIsCurrent'
  <2>1. ASSUME NEW d \in Devices, store[d] # 0, pairs'[store[d]].row = "rotated"
        PROVE  \/ pairs'[store[d]].lost
               \/ \E o \in Tabs : Device[o] = d /\ pc'[o] = "granted" /\ sent'[o] = store[d]
    <3>1. store[d] \in Ids
      <4>1. store[d] \in 0..Len(pairs) /\ Len(pairs) \in Nat /\ Ids = 1..Len(pairs)
        BY Numbered DEF TypeOK
      <4> QED
        BY <2>1, <4>1
    <3>2. CASE store[d] = s
      BY <1>2, <3>2
    <3>3. CASE store[d] # s
      <4>1. ASSUME NEW o \in Tabs, pc[o] = "granted", sent[o] = store[d] PROVE pc'[o] = "granted" /\ sent'[o] = store[d]
        BY <1>3, <3>3, <4>1
      <4> QED
        BY <1>2, <2>1, <3>1, <3>3, <4>1 DEF StoredIsCurrent
    <3> QED
      BY <3>2, <3>3
  <2> QED
    BY <1>1, <2>1 DEF StoredIsCurrent
<1>15. ReuseIsExplained'
  <2>1. ASSUME locks, NEW o \in Tabs, pc'[o] = "read", pairs'[sent'[o]].row = "rotated"
        PROVE  pairs'[sent'[o]].lost \/ spare'[o]
    <3>1. o # t /\ pc[o] = "read" /\ sent'[o] = sent[o] /\ spare'[o] = spare[o] /\ sent[o] \in Ids
      BY <1>5, <1>6, <2>1 DEF Critical, AtServer
    <3>2. CASE sent[o] = s
      BY <1>2, <3>1, <3>2
    <3>3. CASE sent[o] # s
      BY <1>2, <2>1, <3>1, <3>3 DEF ReuseIsExplained
    <3> QED
      BY <3>2, <3>3
  <2> QED
    BY <1>1, <2>1 DEF ReuseIsExplained
<1> QED
  BY <1>7, <1>8, <1>9, <1>11, <1>12, <1>13, <1>14, <1>15

\* A step that neither looks at the links nor changes them.
LEMMA LinksUntouched ==
    ASSUME LinksInv, UNCHANGED <<resets, asking, mailed, redeemed>>
    PROVE  LinksInv'
  BY DEF LinksInv, LinksFollow, OpenIsLast, Mailed

\* A handler that looks at the links sees those there are (forgotPassword's transaction).
LEMMA LookKeepsLinks ==
    ASSUME TypeOK, LinksInv, ForgotLook
    PROVE  LinksInv'
<1>1. PICK k \in 0..MaxResets : Mailed = 1..k /\ Cardinality(Mailed) = k
  BY SessionsAssumption, FS_Interval DEF LinksInv, LinksFollow
<1>2. /\ UNCHANGED <<resets, mailed, redeemed>> /\ Mailed' = Mailed
      /\ \A n \in 0..MaxResets : n # k => asking'[n] = asking[n]
  BY <1>1 DEF ForgotLook, Mailed, TypeOK
<1>3. \A j \in Links : j <= k => j \in Mailed
  BY <1>1, SessionsAssumption DEF Links
<1>4. LinksFollow'
  BY <1>2, <1>3 DEF LinksInv, LinksFollow
<1>5. OpenIsLast'
  BY <1>2 DEF LinksInv, OpenIsLast
<1> QED
  BY <1>4, <1>5 DEF LinksInv

\* The link a handler mails is the last one, and the links it saw are used up (forgotPassword).
LEMMA MailKeepsLinks ==
    ASSUME TypeOK, LinksInv, NEW n \in 0..MaxResets, ForgotMail(n)
    PROVE  LinksInv'
<1>0. PICK i \in Links : \E k \in n..(i - 1) :
         /\ Mailed = 1..(i - 1)
         /\ resets' = [j \in Links |->
                          IF j = i THEN "open" ELSE IF j <= k /\ resets[j] = "open" THEN "used" ELSE resets[j]]
         /\ mailed' = [mailed EXCEPT ![i] = [after |-> k, used |-> {j \in Links : redeemed[j] # 0}]]
  BY DEF ForgotMail
<1>1. PICK k \in n..(i - 1) :
         /\ Mailed = 1..(i - 1)
         /\ resets' = [j \in Links |->
                          IF j = i THEN "open" ELSE IF j <= k /\ resets[j] = "open" THEN "used" ELSE resets[j]]
         /\ mailed' = [mailed EXCEPT ![i] = [after |-> k, used |-> {j \in Links : redeemed[j] # 0}]]
  BY <1>0
<1>2. i \in Nat /\ n \in Nat /\ MaxResets \in Nat /\ \A j \in Links : j \in Nat
  BY SessionsAssumption DEF Links
<1>3. asking[n] > 0 /\ redeemed' = redeemed /\ \A m \in 0..MaxResets : m # n => asking'[m] = asking[m]
  BY DEF ForgotMail, TypeOK
<1>4. k \in Nat /\ k < i
  BY <1>2
<1>5. Mailed' = Mailed \cup {i} /\ i \notin Mailed
  BY <1>1, <1>2 DEF Mailed
<1>6. Mailed' = 1..i /\ i \in 0..MaxResets
  BY <1>1, <1>2, <1>5 DEF Links
<1>7. /\ mailed'[i].after = k /\ mailed'[i].used = {j \in Links : redeemed[j] # 0}
      /\ \A j \in Links : j # i => mailed'[j] = mailed[j]
  BY <1>1 DEF TypeOK
<1>8. /\ \A j \in Mailed : mailed[j].after < j
      /\ \A j \in Links : mailed[j].after \in Nat
  BY <1>2 DEF LinksInv, LinksFollow, TypeOK
<1>9. LinksFollow'
  <2>1. ASSUME NEW m \in 0..MaxResets, asking'[m] > 0, NEW j \in Links, j <= m PROVE j \in Mailed'
    <3>1. asking[m] > 0
      BY <1>3, <2>1
    <3> QED
      BY <1>5, <2>1, <3>1 DEF LinksInv, LinksFollow
  <2>2. \A j \in Mailed' : mailed'[j].after < j
    BY <1>4, <1>5, <1>7, <1>8 DEF Mailed
  <2>3. ASSUME NEW j \in Links, redeemed[j] # 0 PROVE redeemed[j] = 1 /\ resets'[j] = "used"
    <3>1. redeemed[j] = 1 /\ resets[j] = "used" /\ j # i
      BY <1>5, <2>3 DEF LinksInv, LinksFollow, Mailed
    <3> QED
      BY <1>1, <3>1
  <2> QED
    BY <1>3, <1>6, <2>1, <2>2, <2>3 DEF LinksFollow
<1>10. OpenIsLast'
  <2>1. ASSUME NEW j \in Links, resets'[j] = "open"
        PROVE  /\ {l \in Links : redeemed[l] # 0} = mailed'[j].used
               /\ \A l \in Mailed' : mailed'[l].after < j
    <3>1. CASE j = i
      <4>1. ASSUME NEW l \in Mailed PROVE mailed[l].after < i /\ l # i /\ l \in Links
        <5>1. l \in Links /\ l \in 1..(i - 1) /\ mailed[l].after < l /\ mailed[l].after \in Nat
          BY <1>1, <1>8 DEF Mailed
        <5> QED
          BY <1>2, <5>1
      <4> QED
        BY <1>4, <1>5, <1>7, <3>1, <4>1
    <3>2. CASE j # i
      <4>1. resets[j] = "open" /\ ~(j <= k)
        BY <1>1, <2>1, <3>2
      <4>2. /\ {l \in Links : redeemed[l] # 0} = mailed[j].used
            /\ \A l \in Mailed : mailed[l].after < j
        BY <4>1 DEF LinksInv, OpenIsLast
      <4>3. k < j
        BY <1>2, <1>4, <4>1
      <4> QED
        BY <1>5, <1>7, <3>2, <4>2, <4>3 DEF Mailed
    <3> QED
      BY <3>1, <3>2
  <2> QED
    BY <1>3, <2>1 DEF OpenIsLast
<1> QED
  BY <1>9, <1>10 DEF LinksInv

\* The claim of an open link uses up all that are open (resetPassword's transaction).
LEMMA ResetKeepsLinks ==
    ASSUME TypeOK, LinksInv, NEW i \in Links, ResetCommit(i)
    PROVE  LinksInv'
<1>1. CASE Claimable(i)
  <2>1. /\ resets[i] = "open" /\ redeemed[i] \in 0..2 /\ UNCHANGED <<asking, mailed>>
        /\ \A j \in Links : redeemed'[j] = IF j = i THEN redeemed[i] + 1 ELSE redeemed[j]
        /\ \A j \in Links : resets'[j] = IF resets[j] = "open" THEN "used" ELSE resets[j]
    BY <1>1 DEF ResetCommit, Claimable, TypeOK
  <2>2. Mailed' = Mailed /\ \A j \in Links : resets'[j] # "open"
    BY <2>1 DEF Mailed
  <2>3. redeemed[i] = 0
    BY <2>1 DEF LinksInv, LinksFollow
  <2>4. \A j \in Links : redeemed'[j] # 0 => redeemed'[j] = 1 /\ resets'[j] = "used"
    BY <2>1, <2>3 DEF LinksInv, LinksFollow
  <2> QED
    BY <2>1, <2>2, <2>4 DEF LinksInv, LinksFollow, OpenIsLast
<1>2. CASE ~Claimable(i)
  BY <1>2, LinksUntouched DEF ResetCommit
<1> QED
  BY <1>1, <1>2

\* A link lapses unused.
LEMMA LapseKeepsLinks ==
    ASSUME TypeOK, LinksInv, NEW i \in Links, LapseReset(i)
    PROVE  LinksInv'
<1>1. /\ resets[i] = "open" /\ UNCHANGED <<asking, mailed, redeemed>>
      /\ \A j \in Links : resets'[j] = IF j = i THEN "lapsed" ELSE resets[j]
  BY DEF LapseReset, TypeOK
<1>2. Mailed' = Mailed
  BY <1>1 DEF Mailed
<1>3. LinksFollow'
  BY <1>1, <1>2 DEF LinksInv, LinksFollow
<1>4. OpenIsLast'
  BY <1>1, <1>2 DEF LinksInv, OpenIsLast
<1> QED
  BY <1>3, <1>4 DEF LinksInv

\* Steps that keep the links and the passwords they set as they are.
LEMMA OthersKeepLinks ==
    ASSUME [Next]_vars,
           \A n \in 0..MaxResets : ~ForgotMail(n),
           \A i \in Links : ~ResetCommit(i) /\ ~LapseReset(i),
           ~ForgotLook
    PROVE  UNCHANGED <<resets, asking, mailed, redeemed>>
<1> USE DEF account, client, linkVars
<1>1. ASSUME NEW i \in Links, ResetRead(i) PROVE UNCHANGED <<resets, asking, mailed, redeemed>>
  BY <1>1 DEF ResetRead
<1>2. ASSUME AdminReset \/ ChangeLogin \/ Disable \/ Reactivate \/ (\E i \in Ids : Lapse(i)) \/ UNCHANGED vars
      PROVE UNCHANGED <<resets, asking, mailed, redeemed>>
  BY <1>2 DEF AdminReset, ChangeLogin, Disable, Reactivate, Lapse, vars
<1>3. ASSUME NEW t \in Tabs,
             \/ LoginRead(t) \/ LoginIssue(t) \/ CallRefused(t) \/ Renew(t) \/ RefreshRead(t) \/ RefreshClaim(t)
             \/ RefreshCommit(t) \/ Receive(t) \/ ReceiveRefusal(t) \/ LoseAnswer(t) \/ ChangePassword(t)
             \/ Logout(t) \/ Reload(t) \/ VerifyPassword(t) \/ LogoutAll(t) \/ \E i \in Ids : RevokeSession(t, i)
      PROVE UNCHANGED <<resets, asking, mailed, redeemed>>
  BY <1>3 DEF LoginRead, LoginIssue, CallRefused, Renew, RefreshRead, RefreshClaim, RefreshCommit, Receive,
     ReceiveRefusal, LoseAnswer, ChangePassword, Logout, Reload, VerifyPassword, LogoutAll, RevokeSession
<1> QED
  BY <1>1, <1>2, <1>3 DEF Next

\* Every step keeps the links in their order.
LEMMA LinksKept ==
    ASSUME TypeOK, LinksInv, [Next]_vars
    PROVE  LinksInv'
  BY LinksUntouched, LookKeepsLinks, MailKeepsLinks, ResetKeepsLinks, LapseKeepsLinks, OthersKeepLinks

\* A link that sets a password was open, and so the last one to count.
LEMMA SetsAsTheLastLink ==
    ASSUME TypeOK, LinksInv, [Next]_vars, NEW i \in Links
    PROVE  SetsAsTheLast(i)
<1>1. CASE redeemed' = redeemed
  BY <1>1 DEF SetsAsTheLast
<1>2. ASSUME NEW j \in Links, ResetCommit(j) PROVE SetsAsTheLast(i)
  <2>1. CASE Claimable(j)
    <3>1. resets[j] = "open" /\ (redeemed'[i] # redeemed[i] => i = j)
      BY <1>2, <2>1 DEF ResetCommit, Claimable, TypeOK
    <3> QED
      BY <3>1 DEF SetsAsTheLast, LinksInv, OpenIsLast
  <2>2. CASE ~Claimable(j)
    BY <1>1, <1>2, <2>2 DEF ResetCommit
  <2> QED
    BY <2>1, <2>2
<1>3. ASSUME NEW j \in Links, LapseReset(j) PROVE SetsAsTheLast(i)
  BY <1>1, <1>3 DEF LapseReset
<1>4. ASSUME ForgotLook \/ \E n \in 0..MaxResets : ForgotMail(n) PROVE SetsAsTheLast(i)
  BY <1>1, <1>4 DEF ForgotLook, ForgotMail
<1> QED
  BY <1>1, <1>2, <1>3, <1>4, OthersKeepLinks
-----------------------------------------------------------------------------
\* The invariant holds of a fresh account without sessions.
LEMMA SessionsStart == Init => SessionsInv
<1> SUFFICES ASSUME Init PROVE SessionsInv
  OBVIOUS
<1> USE SessionsAssumption DEF Init
<1>1. Len(pairs) = 0 /\ Ids = {} /\ pairs \in Seq(Pair)
  BY EmptySeq DEF Ids
<1>2. Nothing \in Counters /\ NewUser \in Users
  BY DEF Nothing, Counters, NewUser, Users
<1>3. /\ \A d \in Devices : store[d] = 0
      /\ \A t \in Tabs : pc[t] = "idle" /\ sent[t] = 0 /\ mem[t] = 0 /\ saw[t].revocations = 0
      /\ user.revocations = 0 /\ user.version = 0
      /\ \A t \in Tabs : Device[t] \in Devices
  BY DEF Nothing, NewUser, Devices
<1>4. TypeOK
  BY <1>1, <1>2 DEF TypeOK, Pair
<1>5. RoomIsLeft
  <2>1. Waiting = {}
    BY DEF Waiting
  <2> QED
    BY <1>1, <2>1, FS_EmptySet DEF RoomIsLeft
<1>6. Requests /\ Lineage /\ Reached
  BY <1>1, <1>3 DEF Requests, Critical, AtServer, Lineage, OneSuccessor, Reached, RevocationReachesAll
<1>8. LinksInv
  <2>1. Mailed = {} /\ Mailed = 1..0 /\ 0 \in 0..MaxResets
    BY DEF Mailed
  <2> QED
    BY <2>1 DEF LinksInv, LinksFollow, OpenIsLast, Mailed
<1>7. Apart /\ Unseen /\ Exclusive /\ StoredIsCurrent /\ ReuseIsExplained
  BY <1>1, <1>3 DEF Apart, Knows, Unseen, Exclusive, StoredIsCurrent, ReuseIsExplained, Critical, AtServer
<1> QED
  BY <1>4, <1>5, <1>6, <1>7, <1>8 DEF SessionsInv

\* SessionsInv is inductive.
LEMMA SessionsStep == SessionsInv /\ [Next]_vars => SessionsInv'
<1> SUFFICES ASSUME SessionsInv, [Next]_vars PROVE SessionsInv'
  OBVIOUS
<1>1. TypeOK /\ Core /\ RoomIsLeft /\ Requests /\ Lineage /\ LinksInv
  BY DEF SessionsInv, Core
<1>2. TypeOK' /\ RoomIsLeft'
  BY <1>1, TypesKept
<1>3. LinksInv'
  BY <1>1, LinksKept
<1>4. ASSUME NEW t \in Tabs,
             \/ LoginRead(t) \/ LoginIssue(t) \/ CallRefused(t) \/ Renew(t) \/ RefreshRead(t) \/ RefreshClaim(t)
             \/ RefreshCommit(t) \/ Receive(t) \/ ReceiveRefusal(t) \/ LoseAnswer(t) \/ ChangePassword(t)
             \/ Logout(t) \/ Reload(t) \/ VerifyPassword(t) \/ LogoutAll(t) \/ \E i \in Ids : RevokeSession(t, i)
      PROVE Core'
  BY <1>1, <1>2, <1>4, QuietSteps, LoginKeeps, RenewKeeps, ClaimKeeps, CommitKeeps, ReceiveKeeps, LoseKeeps
<1>5. ASSUME \/ ForgotLook \/ (\E n \in 0..MaxResets : ForgotMail(n)) \/ AdminReset \/ ChangeLogin \/ Disable \/ Reactivate
             \/ \E i \in Links : ResetRead(i) \/ ResetCommit(i) \/ LapseReset(i)
             \/ \E i \in Ids : Lapse(i)
             \/ UNCHANGED vars
      PROVE Core'
  BY <1>1, <1>5, AccountSteps
<1>6. Core'
  BY <1>4, <1>5 DEF Next
<1> QED
  BY <1>2, <1>3, <1>6 DEF SessionsInv, Core

\* The invariant of the account's sessions, for any tabs, devices and bounds.
THEOREM SessionsInvariant == Spec => []SessionsInv
  BY SessionsStart, SessionsStep, PTL DEF Spec

\* Every variable keeps its type.
THEOREM SessionTypes == Spec => []TypeOK
<1>1. SessionsInv => TypeOK
  BY DEF SessionsInv
<1> QED
  BY <1>1, SessionsInvariant, PTL

\* A refresh token is exchanged at most once (AuthService.refresh, whose row is claimed where it is live).
THEOREM ExchangedAtMostOnce == Spec => []OneSuccessor
<1>1. SessionsInv => OneSuccessor
  BY DEF SessionsInv, Lineage
<1> QED
  BY <1>1, SessionsInvariant, PTL

\* A revocation leaves no older session, but for the requests it met on their way (revokeSessions).
THEOREM RevocationIsComplete == Spec => []RevocationReachesAll
<1>1. SessionsInv => RevocationReachesAll
  BY DEF SessionsInv, Reached
<1> QED
  BY <1>1, SessionsInvariant, PTL

\* With Web Locks, an app presents an exchanged token only after a lost answer or from its own copy.
THEOREM AlarmIsExplained == Spec => []ReuseIsExplained
<1>1. SessionsInv => ReuseIsExplained
  BY DEF SessionsInv
<1> QED
  BY <1>1, SessionsInvariant, PTL

\* A link sets a password only if no link did since it was mailed and no newer one was asked for
\* (forgotPassword, resetPassword): an open link is the last (OpenIsLast), and only an open one is claimed.
THEOREM LinkSetsOnePassword == Spec => ResetOnce
<1>1. SessionsInv /\ [Next]_vars => [\A i \in Links : SetsAsTheLast(i)]_vars
  <2> SUFFICES ASSUME SessionsInv, [Next]_vars PROVE \A i \in Links : SetsAsTheLast(i)
    OBVIOUS
  <2> QED
    BY SetsAsTheLastLink DEF SessionsInv
<1> QED
  BY <1>1, SessionsInvariant, PTL DEF Spec, ResetOnce
=============================================================================
