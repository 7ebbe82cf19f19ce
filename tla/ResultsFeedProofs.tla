-------------------------- MODULE ResultsFeedProofs --------------------------
(***************************************************************************)
(* The results feed for any tenants, replicas, lotteries and numbers, and  *)
(* any number of announcements.  FeedInv is inductive: while ticks do not  *)
(* overlap, every result the feed stored is at least as new as every event *)
(* marked applied, and the one job that runs never carries a result older  *)
(* than one it may replace.                                                *)
(***************************************************************************)
EXTENDS ResultsFeed, FiniteSetTheorems, TLAPS

Statuses == {"PENDING", "PROCESSING", "FAILED", "APPLIED", "WAITING"}
Winning(P) == {k \in [P -> UNION {Numbers[p] : p \in P}] : \A p \in P : k[p] \in Numbers[p]}

\* The events of P that the keys k were put together from are in the table e.
Known(P, e, k) == k \in Winning(P) /\ \A p \in P : <<p, k[p]>> \in DOMAIN e

\* The age of the event that gave k its number of the lottery p.
Stamp(e, k, p) == e[<<p, k[p]>>].stamp
IsAge(P, e, k, a) == (\E p \in P : a = Stamp(e, k, p)) /\ \A p \in P : Stamp(e, k, p) <= a

\* Lottery by lottery, k is at least as new as l, or as every event that was applied.
Above(P, e, k, l) == \A p \in P : Stamp(e, l, p) <= Stamp(e, k, p)
Covers(e, k) == \A id \in DOMAIN e : e[id].status = "APPLIED" => e[id].stamp <= Stamp(e, k, id[1])
-----------------------------------------------------------------------------
\* The table of events and what was announced.
TableOK ==
  /\ parts \in Bindings
  /\ said \in Seq(Ids) /\ Len(said) <= MaxSaid
  /\ queue \in Seq(Ids) /\ IsInjective(queue) /\ DOMAIN events = ToSet(queue)
  /\ \A id \in DOMAIN events : events[id] \in [status : Statuses, tries : Nat, stamp : 1..MaxSaid]

\* The draws; a result of the feed knows its age.
DrawsOK ==
  /\ status \in [Tenants -> {"OPEN", "CLOSED", "RESULT_PUBLISHED"}]
  /\ result \in [Tenants -> [source : {"NONE", "STAFF", "EDITED", "FEED"},
                             keys : Winning(parts) \cup {<<>>}, at : Nat]]
  /\ paid \in [Tenants -> BOOLEAN]
  /\ \A t \in Tenants : /\ (status[t] = "RESULT_PUBLISHED" <=> result[t].source # "NONE")
                        /\ (status[t] = "RESULT_PUBLISHED" <=> result[t].keys # <<>>)
                        /\ paid[t] => status[t] = "RESULT_PUBLISHED"
                        /\ result[t].source = "FEED" =>
                              /\ Known(parts, events, result[t].keys)
                              /\ IsAge(parts, events, result[t].keys, result[t].at)

\* The publications of platform staff under way.
PlatformOK ==
  /\ platform \in [Staff -> [seen : SUBSET Tenants, left : SUBSET Tenants, keys : Winning(parts) \cup {<<>>}]]
  /\ \A s \in Staff : platform[s].left # {} => platform[s].keys # <<>>

\* A job and the list it works through: events to claim, or events to reconcile.
JobOK(P, e, j) ==
  /\ j \in [at : {"idle", "events", "again", "resolve", "draws", "write"},
            todo : Seq(DOMAIN e) \cup Seq((DOMAIN e) \X Statuses), id : DOMAIN e \cup {<<>>},
            claimed : BOOLEAN, keys : Winning(P) \cup {<<>>}, stamp : Nat,
            left : SUBSET Tenants, draw : SUBSET Tenants, edit : BOOLEAN]
  /\ j.claimed => j.at \in {"resolve", "draws", "write"}
  /\ j.claimed \/ j.at = "events" => j.todo \in Seq((DOMAIN e) \X Statuses)
  /\ ~(j.claimed \/ j.at = "events") => j.todo \in Seq(DOMAIN e)
  /\ j.at = "resolve" => j.claimed
  /\ j.at \in {"resolve", "draws", "write"} => j.id \in DOMAIN e
  /\ j.at # "write" => j.draw = {}
  /\ j.at = "write" => \E t \in Tenants : j.draw = {t}
  /\ j.at \in {"draws", "write"} => Known(P, e, j.keys) /\ IsAge(P, e, j.keys, j.stamp)

JobsOK == DOMAIN job = Replicas /\ \A r \in Replicas : JobOK(parts, events, job[r])

\* What the feed stored covers what was applied, and once something was, every draw has a result.
DrawsInOrder(e, st, re) ==
  /\ \A t \in Tenants : re[t].source = "FEED" => Covers(e, re[t].keys)
  /\ (\E id \in DOMAIN e : e[id].status = "APPLIED") =>
        \A t \in Tenants : st[t] = "RESULT_PUBLISHED"

\* A job that has its keys: they are as new as its event, and so is every draw it is done with;
\* what it is about to write covers what was applied; the keys of a pair are the newest of both.
JobInOrder(P, e, st, re, j) ==
  j.at \in {"draws", "write"} =>
     /\ e[j.id].stamp <= Stamp(e, j.keys, j.id[1])
     /\ \A t \in Tenants \ (j.left \cup j.draw) :
           st[t] = "RESULT_PUBLISHED" /\ (re[t].source = "FEED" => Above(P, e, re[t].keys, j.keys))
     /\ j.at = "write" => Covers(e, j.keys)
     /\ Cardinality(P) # 1 =>
           /\ Covers(e, j.keys)
           /\ \A t \in Tenants : re[t].source = "FEED" => Above(P, e, j.keys, re[t].keys)

Ordered ==
  ~overlapped =>
     /\ \A r, s \in Replicas : job[r] # Idle /\ job[s] # Idle => r = s
     /\ DrawsInOrder(events, status, result)
     /\ \A r \in Replicas : JobInOrder(parts, events, status, result, job[r])

FeedInv == TableOK /\ DrawsOK /\ PlatformOK /\ JobsOK /\ Ordered
-----------------------------------------------------------------------------
\* A table that holds the rows it held with their stamps, and one where nothing is newly applied.
Kept(e, f) == DOMAIN e \subseteq DOMAIN f /\ \A id \in DOMAIN e : f[id].stamp = e[id].stamp
Later(e, f) ==
  Kept(e, f) /\ \A id \in DOMAIN f : f[id].status = "APPLIED" => id \in DOMAIN e /\ e[id].status = "APPLIED"

\* The lotteries bound are one or two.
LEMMA PartsAreFew ==
  ASSUME NEW P \in Bindings
  PROVE  /\ IsFiniteSet(P) /\ <<>> \notin Winning(P)
         /\ Cardinality(P) = 1 => \E p \in P : P = {p}
<1>1. PICK p \in P, q \in P : P = {p, q}
  BY FeedAssumption
<1>2. IsFiniteSet(P)
  <2>1. IsFiniteSet({p})
    BY FS_Singleton
  <2>2. IsFiniteSet({p} \cup {q})
    BY <2>1, FS_AddElement
  <2> QED
    BY <1>1, <2>2
<1>3. <<>> \notin Winning(P)
  BY <1>1 DEF Winning
<1>4. ASSUME Cardinality(P) = 1 PROVE \E x \in P : P = {x}
  BY <1>2, <1>4, FS_Singleton
<1> QED
  BY <1>2, <1>3, <1>4

\* The greatest of the stamps of one or two lotteries.
LEMMA GreatestOfParts ==
  ASSUME NEW P \in Bindings, NEW f, \A p \in P : f[p] \in Nat
  PROVE  /\ Max({f[p] : p \in P}) \in Nat
         /\ \E p \in P : Max({f[x] : x \in P}) = f[p]
         /\ \A p \in P : f[p] <= Max({f[x] : x \in P})
<1>1. PICK p \in P, q \in P : P = {p, q}
  BY FeedAssumption
<1> DEFINE S == {f[x] : x \in P}
<1>2. S = {f[p], f[q]} /\ f[p] \in Nat /\ f[q] \in Nat
  BY <1>1
<1>3. \E m \in S : \A y \in S : m >= y
  <2>1. CASE f[p] >= f[q]
    BY <1>2, <2>1
  <2>2. CASE f[q] >= f[p]
    BY <1>2, <2>2
  <2> QED
    BY <1>2, <2>1, <2>2
<1>4. Max(S) \in S /\ \A y \in S : Max(S) >= y
  BY <1>3 DEF Max
<1> QED
  BY <1>2, <1>4

\* An event's key is a lottery bound and a number it may draw.
LEMMA IdsArePairs ==
  ASSUME NEW id \in Ids
  PROVE  id[1] \in parts /\ id[2] \in Numbers[id[1]] /\ id = <<id[1], id[2]>>
  BY DEF Ids

LEMMA EventsArePairs ==
  ASSUME TableOK, NEW id \in DOMAIN events
  PROVE  id \in Ids /\ id[1] \in parts /\ id[2] \in Numbers[id[1]] /\ id = <<id[1], id[2]>>
<1>1. id \in Ids
  BY DEF TableOK, ToSet
<1> QED
  BY <1>1, IdsArePairs

\* Keys put together from events stay so, and keep their age, as long as the events are kept.
LEMMA KnownStaysKnown ==
  ASSUME NEW P, NEW e, NEW f, NEW k, Kept(e, f), Known(P, e, k)
  PROVE  /\ Known(P, f, k)
         /\ \A p \in P : Stamp(f, k, p) = Stamp(e, k, p)
         /\ \A a : IsAge(P, e, k, a) => IsAge(P, f, k, a)
  BY DEF Kept, Known, Stamp, IsAge

LEMMA JobStaysOK ==
  ASSUME NEW P, NEW e, NEW f, NEW j, Kept(e, f), JobOK(P, e, j)
  PROVE  JobOK(P, f, j)
<1>1. DOMAIN e \subseteq DOMAIN f
  BY DEF Kept
<1>2. /\ \A s \in Seq(DOMAIN e) : s \in Seq(DOMAIN f)
      /\ \A s \in Seq((DOMAIN e) \X Statuses) : s \in Seq((DOMAIN f) \X Statuses)
  BY <1>1
<1>3. j.at \in {"draws", "write"} => Known(P, f, j.keys) /\ IsAge(P, f, j.keys, j.stamp)
  BY KnownStaysKnown DEF JobOK
<1> QED
  BY <1>1, <1>2, <1>3 DEF JobOK

\* The order is kept when nothing is newly applied.
LEMMA OrderOutlivesEvents ==
  ASSUME NEW P, NEW e, NEW f, NEW st, NEW re, Later(e, f),
         \A id \in DOMAIN e : id[1] \in P,
         \A t \in Tenants : re[t].source = "FEED" => Known(P, e, re[t].keys)
  PROVE  /\ DrawsInOrder(e, st, re) => DrawsInOrder(f, st, re)
         /\ \A j : JobOK(P, e, j) /\ JobInOrder(P, e, st, re, j) => JobInOrder(P, f, st, re, j)
<1>1. \A k : Known(P, e, k) => \A p \in P : Stamp(f, k, p) = Stamp(e, k, p)
  BY DEF Later, Kept, Known, Stamp
<1>2. \A k : Known(P, e, k) /\ Covers(e, k) => Covers(f, k)
  BY <1>1 DEF Covers, Later, Kept
<1>3. \A k, l : Known(P, e, k) /\ Known(P, e, l) /\ Above(P, e, k, l) => Above(P, f, k, l)
  BY <1>1 DEF Above
<1>4. DrawsInOrder(e, st, re) => DrawsInOrder(f, st, re)
  BY <1>2 DEF DrawsInOrder, Later
<1>5. ASSUME NEW j, JobOK(P, e, j), JobInOrder(P, e, st, re, j)
      PROVE  JobInOrder(P, f, st, re, j)
  <2> SUFFICES ASSUME j.at \in {"draws", "write"}
               PROVE  JobInOrder(P, f, st, re, j)
    BY DEF JobInOrder
  <2>1. Known(P, e, j.keys) /\ j.id \in DOMAIN e
    BY <1>5 DEF JobOK
  <2>2. f[j.id].stamp <= Stamp(f, j.keys, j.id[1])
    BY <1>1, <1>5, <2>1 DEF JobInOrder, Later, Kept
  <2> QED
    BY <1>2, <1>3, <1>5, <2>1, <2>2 DEF JobInOrder
<1> QED
  BY <1>4, <1>5

\* The order is kept when others than the feed publish or edit.
LEMMA OrderOutlivesStaff ==
  ASSUME NEW P, NEW e, NEW st, NEW re, NEW stn, NEW ren,
         \A t \in Tenants : /\ st[t] = "RESULT_PUBLISHED" => stn[t] = "RESULT_PUBLISHED"
                            /\ ren[t].source = "FEED" => ren[t] = re[t]
  PROVE  /\ DrawsInOrder(e, st, re) => DrawsInOrder(e, stn, ren)
         /\ \A j : JobInOrder(P, e, st, re, j) => JobInOrder(P, e, stn, ren, j)
<1>1. DrawsInOrder(e, st, re) => DrawsInOrder(e, stn, ren)
  BY DEF DrawsInOrder
<1>2. \A j : JobInOrder(P, e, st, re, j) => JobInOrder(P, e, stn, ren, j)
  BY DEF JobInOrder
<1> QED
  BY <1>1, <1>2
-----------------------------------------------------------------------------
\* A step that leaves the draws alone, where nothing is newly applied and no job goes wrong.
LEMMA EventStep ==
  ASSUME FeedInv, TableOK', Later(events, events'), UNCHANGED <<parts, draws, platform>>,
         DOMAIN job' = Replicas, overlapped => overlapped',
         \A s \in Replicas : \/ job'[s] = job[s]
                             \/ /\ JobOK(parts, events', job'[s])
                                /\ ~overlapped' => JobInOrder(parts, events', status, result, job'[s]),
         ~overlapped' => \A r, s \in Replicas : job'[r] # Idle /\ job'[s] # Idle => r = s
  PROVE  FeedInv'
<1>1. Kept(events, events')
  BY DEF Later
<1>2. DrawsOK'
  <2>1. \A t \in Tenants : result[t].source = "FEED" =>
           /\ Known(parts, events', result[t].keys)
           /\ IsAge(parts, events', result[t].keys, result[t].at)
    BY <1>1, KnownStaysKnown DEF FeedInv, DrawsOK
  <2> QED
    BY <2>1 DEF FeedInv, DrawsOK, draws
<1>3. PlatformOK'
  BY DEF FeedInv, PlatformOK, draws
<1>4. JobsOK'
  <2>1. \A s \in Replicas : JobOK(parts, events', job[s])
    BY <1>1, JobStaysOK DEF FeedInv, JobsOK
  <2>2. \A s \in Replicas : JobOK(parts, events', job'[s])
    BY <2>1
  <2> QED
    BY <2>2 DEF JobsOK
<1>5. Ordered'
  <2> SUFFICES ASSUME ~overlapped'
               PROVE  /\ DrawsInOrder(events', status, result)
                      /\ \A s \in Replicas : JobInOrder(parts, events', status, result, job'[s])
    BY DEF Ordered, draws
  <2>1. /\ \A id \in DOMAIN events : id[1] \in parts
        /\ \A t \in Tenants : result[t].source = "FEED" => Known(parts, events, result[t].keys)
    BY EventsArePairs DEF FeedInv, DrawsOK
  <2>2. /\ DrawsInOrder(events, status, result) => DrawsInOrder(events', status, result)
        /\ \A j : JobOK(parts, events, j) /\ JobInOrder(parts, events, status, result, j) =>
                      JobInOrder(parts, events', status, result, j)
    BY <2>1, OrderOutlivesEvents
  <2>3. \A s \in Replicas : JobInOrder(parts, events', status, result, job[s])
    BY <2>2 DEF FeedInv, Ordered, JobsOK
  <2>4. DrawsInOrder(events', status, result)
    BY <2>2 DEF FeedInv, Ordered
  <2> QED
    BY <2>3, <2>4
<1> QED
  BY <1>2, <1>3, <1>4, <1>5 DEF FeedInv

\* A step of one job that leaves the draws alone, where nothing is newly applied.
LEMMA JobStep ==
  ASSUME FeedInv, TableOK', Later(events, events'), UNCHANGED <<parts, draws, platform, overlapped>>,
         NEW r \in Replicas, NEW j, Job(r, j), job[r] # Idle, JobOK(parts, events', j),
         ~overlapped => JobInOrder(parts, events', status, result, j)
  PROVE  FeedInv'
<1>1. DOMAIN job' = Replicas /\ \A s \in Replicas : job'[s] = IF s = r THEN j ELSE job[s]
  BY DEF Job, FeedInv, JobsOK
<1>2. ~overlapped' => \A s, u \in Replicas : job'[s] # Idle /\ job'[u] # Idle => s = u
  BY <1>1 DEF FeedInv, Ordered
<1> QED
  BY <1>1, <1>2, EventStep

\* A step of others than the feed on the draws.
LEMMA StaffStep ==
  ASSUME FeedInv, UNCHANGED <<feed, job, overlapped>>, DrawsOK', PlatformOK',
         \A t \in Tenants : /\ status[t] = "RESULT_PUBLISHED" => status'[t] = "RESULT_PUBLISHED"
                            /\ result'[t].source = "FEED" => result'[t] = result[t]
  PROVE  FeedInv'
<1>1. TableOK' /\ JobsOK'
  BY DEF FeedInv, TableOK, JobsOK, feed, table, Ids
<1>2. Ordered'
  <2> SUFFICES ASSUME ~overlapped'
               PROVE  /\ DrawsInOrder(events, status', result')
                      /\ \A s \in Replicas : JobInOrder(parts, events, status', result', job[s])
    BY DEF FeedInv, Ordered, feed, table
  <2>1. /\ DrawsInOrder(events, status, result)
        /\ \A s \in Replicas : JobInOrder(parts, events, status, result, job[s])
    BY DEF FeedInv, Ordered
  <2> QED
    BY <2>1, OrderOutlivesStaff
<1> QED
  BY <1>1, <1>2 DEF FeedInv
-----------------------------------------------------------------------------
\* A listing of a finite set has its elements, each once.
LEMMA Listings ==
  ASSUME NEW S, IsFiniteSet(S), NEW f \in SetToSeqs(S)
  PROVE  f \in Seq(S) /\ \A i, j \in DOMAIN f : f[i] = f[j] => i = j
<1>1. Cardinality(S) \in Nat
  BY FS_CardinalityType
<1>2. f \in [1..Cardinality(S) -> S] /\ \A i, j \in 1..Cardinality(S) : i # j => f[i] # f[j]
  BY DEF SetToSeqs
<1> QED
  BY <1>1, <1>2

LEMMA PlacesAreFinite ==
  ASSUME NEW n \in Nat, NEW S, S \subseteq 1..n
  PROVE  IsFiniteSet(S)
<1>1. IsFiniteSet(1..n)
  BY FS_Interval
<1> QED
  BY <1>1, FS_Subset

\* What is new goes to the end of the queue, and what is known is kept.
LEMMA Enqueued ==
  ASSUME TableOK, UNCHANGED <<parts, said>>, NEW news \in Seq(DOMAIN said), Enqueue(news),
         \A k \in DOMAIN news : said[news[k]] \notin DOMAIN events,
         \A k, l \in DOMAIN news : said[news[k]] = said[news[l]] => k = l
  PROVE  TableOK' /\ Later(events, events')
<1> DEFINE ids == [k \in DOMAIN news |-> said[news[k]]]
<1>1. /\ DOMAIN news = 1..Len(news) /\ Len(news) \in Nat
      /\ DOMAIN said = 1..Len(said) /\ Len(said) \in Nat /\ Len(said) <= MaxSaid /\ MaxSaid \in Nat
      /\ Len(queue) \in Nat /\ DOMAIN queue = 1..Len(queue)
      /\ \A k \in DOMAIN news : news[k] \in DOMAIN said
  BY FeedAssumption DEF TableOK
<1>2. \A i \in DOMAIN said : said[i] \in Ids
  BY DEF TableOK
<1>3. ids \in Seq(Ids) /\ Len(ids) = Len(news) /\ DOMAIN ids = DOMAIN news
  BY <1>1, <1>2
<1>4. queue' = queue \o ids
  BY DEF Enqueue
<1>5. /\ DOMAIN events' = DOMAIN events \cup ToSet(ids)
      /\ \A id \in DOMAIN events : events'[id] = events[id]
      /\ \A id \in ToSet(ids) \ DOMAIN events :
            events'[id] = [status |-> "PENDING", tries |-> 0,
                           stamp |-> CHOOSE i \in ToSet(news) : said[i] = id]
  BY DEF Enqueue
<1>6. \A k \in DOMAIN news : ids[k] = said[news[k]] /\ ids[k] \notin DOMAIN events
  OBVIOUS
<1> HIDE DEF ids
<1>7. queue' \in Seq(Ids) /\ Len(queue') = Len(queue) + Len(ids)
  <2>1. queue \in Seq(Ids) /\ ids \in Seq(Ids)
    BY <1>3 DEF TableOK
  <2>2. queue \o ids \in Seq(Ids) /\ Len(queue \o ids) = Len(queue) + Len(ids)
    BY <2>1
  <2> QED
    BY <1>4, <2>2
<1>8. \A i \in DOMAIN queue' : \/ i \in DOMAIN queue /\ queue'[i] = queue[i]
                               \/ i - Len(queue) \in DOMAIN ids /\ queue'[i] = ids[i - Len(queue)]
  BY <1>1, <1>3, <1>4, <1>7 DEF TableOK
<1>9. /\ \A i \in DOMAIN queue : i \in DOMAIN queue' /\ queue'[i] = queue[i]
      /\ \A i \in DOMAIN ids : Len(queue) + i \in DOMAIN queue' /\ queue'[Len(queue) + i] = ids[i]
  BY <1>1, <1>3, <1>4, <1>7, SMTT(30) DEF TableOK
<1>10. ToSet(queue') = ToSet(queue) \cup ToSet(ids)
  BY <1>8, <1>9 DEF ToSet
<1>11. IsInjective(queue')
  <2> SUFFICES ASSUME NEW i \in DOMAIN queue', NEW j \in DOMAIN queue', queue'[i] = queue'[j]
               PROVE  i = j
    BY DEF IsInjective
  <2>1. CASE i \in DOMAIN queue /\ j \in DOMAIN queue
    BY <1>9, <2>1 DEF TableOK, IsInjective
  <2>2. CASE i \notin DOMAIN queue /\ j \notin DOMAIN queue
    <3>1. /\ i - Len(queue) \in DOMAIN ids /\ queue'[i] = ids[i - Len(queue)]
          /\ j - Len(queue) \in DOMAIN ids /\ queue'[j] = ids[j - Len(queue)]
      BY <1>8, <2>2
    <3>2. PICK k \in DOMAIN news, l \in DOMAIN news :
             k = i - Len(queue) /\ l = j - Len(queue) /\ ids[k] = ids[l]
      BY <1>3, <3>1
    <3>3. k = l
      BY <1>6, <3>2
    <3> QED
      BY <1>1, <1>7, <3>2, <3>3
  <2>3. \A k \in DOMAIN queue' : k \in DOMAIN queue <=> queue'[k] \in DOMAIN events
    BY <1>3, <1>6, <1>8 DEF TableOK, ToSet
  <2> QED
    BY <2>1, <2>2, <2>3
<1>12. ASSUME NEW id \in ToSet(ids) \ DOMAIN events
       PROVE  events'[id] \in [status : {"PENDING"}, tries : Nat, stamp : 1..MaxSaid]
  <2>1. \E i \in ToSet(news) : said[i] = id
    BY <1>3, <1>6 DEF ToSet
  <2>2. (CHOOSE i \in ToSet(news) : said[i] = id) \in ToSet(news)
    BY <2>1
  <2>3. ToSet(news) \subseteq 1..MaxSaid
    BY <1>1 DEF ToSet
  <2>4. PICK i \in 1..MaxSaid : events'[id] = [status |-> "PENDING", tries |-> 0, stamp |-> i]
    BY <1>5, <2>2, <2>3
  <2> QED
    BY <2>4
<1>13. TableOK'
  <2>1. Ids' = Ids
    BY DEF Ids
  <2>2. \A id \in DOMAIN events' :
           events'[id] \in [status : Statuses, tries : Nat, stamp : 1..MaxSaid]
    BY <1>5, <1>12 DEF TableOK, Statuses
  <2> QED
    BY <1>5, <1>7, <1>10, <1>11, <2>1, <2>2 DEF TableOK
<1>14. \A id \in DOMAIN events' : events'[id].status = "APPLIED" => id \in DOMAIN events
  BY <1>5
<1> QED
  BY <1>5, <1>13, <1>14 DEF Later, Kept

\* A row of the table changes its status and its tries.
LEMMA RowChanged ==
  ASSUME TableOK, UNCHANGED <<parts, said, queue>>, NEW id \in DOMAIN events, NEW row,
         DOMAIN events' = DOMAIN events, events'[id] = row,
         \A x \in DOMAIN events : x # id => events'[x] = events[x],
         row \in [status : Statuses, tries : Nat, stamp : {events[id].stamp}]
  PROVE  /\ TableOK' /\ Kept(events, events')
         /\ row.status # "APPLIED" => Later(events, events')
<1>1. Ids' = Ids
  BY DEF Ids
<1>2. row.stamp = events[id].stamp /\ row.stamp \in 1..MaxSaid
  BY DEF TableOK
<1>3. \A x \in DOMAIN events' : events'[x] \in [status : Statuses, tries : Nat, stamp : 1..MaxSaid]
  <2>1. row \in [status : Statuses, tries : Nat, stamp : 1..MaxSaid]
    BY <1>2
  <2> QED
    BY <2>1 DEF TableOK
<1>4. TableOK'
  BY <1>1, <1>3 DEF TableOK
<1>5. Kept(events, events')
  BY <1>2 DEF Kept
<1> QED
  BY <1>4, <1>5 DEF Later

\* A job at the head of a list.
LEMMA FreshIsOK ==
  ASSUME NEW P, NEW e, NEW at \in {"events", "again"}, NEW todo,
         at = "events" => todo \in Seq((DOMAIN e) \X Statuses),
         at = "again" => todo \in Seq(DOMAIN e)
  PROVE  /\ JobOK(P, e, [Idle EXCEPT !.at = at, !.todo = todo])
         /\ [Idle EXCEPT !.at = at, !.todo = todo].at = at
<1> DEFINE j == [Idle EXCEPT !.at = at, !.todo = todo]
<1> SUFFICES JobOK(P, e, j) /\ j.at = at
  OBVIOUS
<1>1. /\ j.at = at /\ j.todo = todo /\ j.id = <<>> /\ j.claimed = FALSE /\ j.keys = <<>>
      /\ j.stamp = 0 /\ j.left = {} /\ j.draw = {} /\ j.edit = FALSE
  BY DEF Idle
<1>2. todo \in Seq(DOMAIN e) \cup Seq((DOMAIN e) \X Statuses)
  OBVIOUS
<1>3. at \in {"idle", "events", "again", "resolve", "draws", "write"}
  OBVIOUS
<1>4. j \in [at : {"idle", "events", "again", "resolve", "draws", "write"},
             todo : Seq(DOMAIN e) \cup Seq((DOMAIN e) \X Statuses), id : DOMAIN e \cup {<<>>},
             claimed : BOOLEAN, keys : Winning(P) \cup {<<>>}, stamp : Nat,
             left : SUBSET Tenants, draw : SUBSET Tenants, edit : BOOLEAN]
  BY <1>2, <1>3 DEF Idle
<1> HIDE DEF j
<1> QED
  BY <1>1, <1>4 DEF JobOK

\* The job that a job turns to when it is done with an event.
Turned(j) == [Idle EXCEPT !.at = IF j.claimed THEN "events" ELSE "again",
                          !.todo = IF j.at = "again" THEN Tail(j.todo) ELSE j.todo]

LEMMA TurnedIsOK ==
  ASSUME NEW P, NEW e, NEW j, JobOK(P, e, j),
         j.at \in {"resolve", "draws", "write"} \/ (j.at = "again" /\ j.todo # <<>>)
  PROVE  JobOK(P, e, Turned(j)) /\ Turned(j).at \in {"events", "again"}
<1>1. j.claimed => j.at # "again"
  BY DEF JobOK
<1>2. j.claimed => j.todo \in Seq((DOMAIN e) \X Statuses)
  BY DEF JobOK
<1>3. ~j.claimed => j.todo \in Seq(DOMAIN e) /\ (j.at = "again" => Tail(j.todo) \in Seq(DOMAIN e))
  BY DEF JobOK
<1> DEFINE at == IF j.claimed THEN "events" ELSE "again"
           todo == IF j.at = "again" THEN Tail(j.todo) ELSE j.todo
<1>4. at \in {"events", "again"}
  OBVIOUS
<1>5. at = "events" => todo \in Seq((DOMAIN e) \X Statuses)
  BY <1>1, <1>2
<1>6. at = "again" => todo \in Seq(DOMAIN e)
  BY <1>3
<1>7. Turned(j) = [Idle EXCEPT !.at = at, !.todo = todo]
  BY DEF Turned
<1> HIDE DEF at, todo
<1>8. /\ JobOK(P, e, [Idle EXCEPT !.at = at, !.todo = todo])
      /\ [Idle EXCEPT !.at = at, !.todo = todo].at = at
  BY <1>4, <1>5, <1>6, FreshIsOK
<1> QED
  BY <1>4, <1>7, <1>8
-----------------------------------------------------------------------------
\* The outcome of an event is written down, or left as it was.
LEMMA OutcomeWritten ==
  ASSUME TableOK, UNCHANGED <<parts, said, queue>>, NEW id \in DOMAIN events, NEW outcome \in Statuses,
         events' = [events EXCEPT ![id].status = outcome] \/ events' = events
  PROVE  TableOK' /\ Kept(events, events') /\ (outcome # "APPLIED" => Later(events, events'))
<1>1. CASE events' = events
  <2>1. TableOK'
    BY <1>1 DEF TableOK, Ids
  <2> QED
    BY <1>1, <2>1 DEF Later, Kept
<1>2. CASE events' = [events EXCEPT ![id].status = outcome]
  <2>1. events[id] \in [status : Statuses, tries : Nat, stamp : 1..MaxSaid]
    BY DEF TableOK
  <2> DEFINE row == [events[id] EXCEPT !.status = outcome]
  <2>2. row \in [status : Statuses, tries : Nat, stamp : {events[id].stamp}] /\ row.status = outcome
    BY <2>1
  <2>3. /\ DOMAIN events' = DOMAIN events /\ events'[id] = row
        /\ \A x \in DOMAIN events : x # id => events'[x] = events[x]
    BY <1>2
  <2> HIDE DEF row
  <2> QED
    BY <2>2, <2>3, RowChanged
<1> QED
  BY <1>1, <1>2

\* A job that is at work is not idle.
LEMMA AtWork == \A j : j.at # "idle" => j # Idle
  BY DEF Idle

\* A job is done with an event that could not be applied.
LEMMA NotApplied ==
  ASSUME FeedInv, UNCHANGED <<parts, said, queue, draws, platform, overlapped>>,
         NEW r \in Replicas, NEW id \in DOMAIN events, NEW outcome \in {"FAILED", "WAITING"},
         job[r].at \in {"resolve", "draws", "write"} \/ (job[r].at = "again" /\ job[r].todo # <<>>),
         Onward(r, id, outcome)
  PROVE  FeedInv'
<1>1. TableOK' /\ Later(events, events')
  <2>1. events' = [events EXCEPT ![id].status = outcome] \/ events' = events
    BY DEF Onward
  <2> QED
    BY <2>1, OutcomeWritten DEF FeedInv, Statuses
<1>2. Job(r, Turned(job[r]))
  BY DEF Onward, Turned
<1>3. JobOK(parts, events', Turned(job[r])) /\ Turned(job[r]).at \in {"events", "again"}
  BY <1>1, TurnedIsOK, JobStaysOK DEF FeedInv, JobsOK, Later
<1>4. JobInOrder(parts, events', status, result, Turned(job[r]))
  BY <1>3 DEF JobInOrder
<1>5. job[r] # Idle
  BY AtWork
<1> QED
  BY <1>1, <1>2, <1>3, <1>4, <1>5, JobStep

\* The keys worked out for an event are at least as new as it; those of a pair, than any.
LEMMA KeysWorkedOut ==
  ASSUME FeedInv, NEW id \in DOMAIN events, NEW ids \in [parts -> DOMAIN events],
         \A p \in parts : ids[p] \in Sources(id, p), NEW keys, keys = [p \in parts |-> ids[p][2]],
         NEW age, age = Max({events[ids[p]].stamp : p \in parts})
  PROVE  /\ Known(parts, events, keys) /\ age \in Nat /\ IsAge(parts, events, keys, age)
         /\ events[id].stamp <= Stamp(events, keys, id[1])
         /\ Cardinality(parts) # 1 =>
               /\ Covers(events, keys)
               /\ \A k : Known(parts, events, k) => Above(parts, events, keys, k)
<1>0. TableOK /\ parts \in Bindings
  BY DEF FeedInv, TableOK
<1>1. \A x \in DOMAIN events : /\ x[1] \in parts /\ x[2] \in Numbers[x[1]] /\ x = <<x[1], x[2]>>
                               /\ events[x].stamp \in Nat
  <2>1. \A x \in DOMAIN events : events[x].stamp \in Nat
    BY <1>0 DEF TableOK
  <2> QED
    BY <1>0, <2>1, EventsArePairs
<1>2. \A p \in parts : ids[p][1] = p
  <2>1. CASE Cardinality(parts) = 1
    <3>1. PICK q \in parts : parts = {q}
      BY <1>0, <2>1, PartsAreFew
    <3> QED
      BY <1>1, <3>1
  <2>2. CASE Cardinality(parts) # 1
    BY <2>2 DEF Sources, Latest
  <2> QED
    BY <2>1, <2>2
<1>3. \A p \in parts : <<p, keys[p]>> = ids[p] /\ keys[p] \in Numbers[p]
  BY <1>1, <1>2
<1>4. Known(parts, events, keys)
  <2>1. keys \in Winning(parts)
    BY <1>3 DEF Winning
  <2> QED
    BY <1>3, <2>1 DEF Known
<1>5. \A p \in parts : Stamp(events, keys, p) = events[ids[p]].stamp
  BY <1>3 DEF Stamp
<1>6. age \in Nat /\ IsAge(parts, events, keys, age)
  <2> DEFINE f == [p \in parts |-> events[ids[p]].stamp]
  <2>1. \A p \in parts : f[p] \in Nat /\ f[p] = Stamp(events, keys, p)
    BY <1>1, <1>5
  <2>2. {events[ids[p]].stamp : p \in parts} = {f[p] : p \in parts}
    OBVIOUS
  <2> HIDE DEF f
  <2>3. age = Max({f[p] : p \in parts})
    BY <2>2
  <2>4. \A p \in parts : f[p] \in Nat
    BY <2>1
  <2>5. /\ Max({f[p] : p \in parts}) \in Nat
        /\ \E p \in parts : Max({f[x] : x \in parts}) = f[p]
        /\ \A p \in parts : f[p] <= Max({f[x] : x \in parts})
    BY <1>0, <2>4, GreatestOfParts, Zenon
  <2> QED
    BY <2>1, <2>3, <2>5 DEF IsAge
<1>7. events[id].stamp <= Stamp(events, keys, id[1])
  <2>1. CASE Cardinality(parts) = 1
    <3>1. ids[id[1]] = id
      BY <1>1, <2>1 DEF Sources
    <3> QED
      BY <1>1, <1>5, <3>1
  <2>2. CASE Cardinality(parts) # 1
    <3>1. ids[id[1]] \in Latest(id[1])
      BY <1>1, <2>2 DEF Sources
    <3>2. events[id].stamp <= events[ids[id[1]]].stamp
      BY <3>1 DEF Latest
    <3> QED
      BY <1>1, <1>5, <3>2
  <2> QED
    BY <2>1, <2>2
<1>8. ASSUME Cardinality(parts) # 1
      PROVE  /\ Covers(events, keys)
             /\ \A k : Known(parts, events, k) => Above(parts, events, keys, k)
  <2>1. \A x \in DOMAIN events : events[x].stamp <= Stamp(events, keys, x[1])
    <3>1. \A p \in parts : ids[p] \in Latest(p)
      BY <1>8 DEF Sources
    <3>2. \A x \in DOMAIN events : events[x].stamp <= events[ids[x[1]]].stamp
      BY <1>1, <3>1 DEF Latest
    <3> QED
      BY <1>1, <1>5, <3>2
  <2>2. \A k : Known(parts, events, k) => \A p \in parts : Stamp(events, k, p) <= Stamp(events, keys, p)
    <3> SUFFICES ASSUME NEW k, Known(parts, events, k), NEW p \in parts
                 PROVE  Stamp(events, k, p) <= Stamp(events, keys, p)
      OBVIOUS
    <3>1. <<p, k[p]>> \in DOMAIN events
      BY DEF Known
    <3>2. events[<<p, k[p]>>].stamp <= Stamp(events, keys, <<p, k[p]>>[1])
      BY <2>1, <3>1
    <3> QED
      BY <3>2 DEF Stamp
  <2> QED
    BY <2>1, <2>2 DEF Covers, Above
<1> QED
  BY <1>4, <1>6, <1>7, <1>8
-----------------------------------------------------------------------------
LEMMA NothingNew == ASSUME events' = events PROVE Later(events, events')
  BY DEF Later, Kept

LEMMA AnnounceKeeps ==
  ASSUME FeedInv, NEW id \in Ids, Announce(id[1], id[2])
  PROVE  FeedInv'
<1>1. id = <<id[1], id[2]>>
  BY IdsArePairs
<1>2. said' = Append(said, id) /\ Len(said) < MaxSaid
  BY <1>1 DEF Announce
<1>3. UNCHANGED <<parts, table, draws, job, platform, overlapped>>
  BY DEF Announce
<1>4. said' \in Seq(Ids) /\ Len(said') <= MaxSaid
  <2>1. said \in Seq(Ids) /\ MaxSaid \in Nat
    BY FeedAssumption DEF FeedInv, TableOK
  <2> QED
    BY <1>2, <2>1
<1>5. TableOK'
  <2>1. Ids' = Ids
    BY <1>3 DEF Ids
  <2> QED
    BY <1>3, <1>4, <2>1 DEF FeedInv, TableOK, table
<1>6. Later(events, events')
  BY <1>3, NothingNew DEF table
<1>7. DOMAIN job' = Replicas
  BY <1>3 DEF FeedInv, JobsOK
<1>8. ~overlapped' => \A r, s \in Replicas : job'[r] # Idle /\ job'[s] # Idle => r = s
  BY <1>3 DEF FeedInv, Ordered
<1> QED
  BY <1>3, <1>5, <1>6, <1>7, <1>8, EventStep

LEMMA WebhookKeeps ==
  ASSUME FeedInv, NEW i \in Nat, Webhook(i)
  PROVE  FeedInv'
<1>1. UNCHANGED <<parts, said, draws, job, platform, overlapped>>
  BY DEF Webhook
<1>2. TableOK' /\ Later(events, events')
  <2>1. i \in DOMAIN said /\ said[i] \notin DOMAIN events /\ Enqueue(<<i>>)
    BY DEF Webhook
  <2> DEFINE news == <<i>>
  <2>2. /\ news \in Seq(DOMAIN said) /\ Enqueue(news)
        /\ DOMAIN news = {1} /\ news[1] = i
    BY <2>1
  <2> HIDE DEF news
  <2> QED
    BY <1>1, <2>1, <2>2, Enqueued DEF FeedInv
<1>3. DOMAIN job' = Replicas
  BY <1>1 DEF FeedInv, JobsOK
<1>4. ~overlapped' => \A r, s \in Replicas : job'[r] # Idle /\ job'[s] # Idle => r = s
  BY <1>1 DEF FeedInv, Ordered
<1> QED
  BY <1>1, <1>2, <1>3, <1>4, EventStep

\* What a poll asks for is announced once, and each listing of it has each once.
LEMMA NewsOfATick ==
  ASSUME TableOK,
         NEW news \in SetToSeqs({i \in UNION {Current(p) : p \in parts} : said[i] \notin DOMAIN events})
  PROVE  /\ news \in Seq(DOMAIN said)
         /\ \A k \in DOMAIN news : said[news[k]] \notin DOMAIN events
         /\ \A k, l \in DOMAIN news : said[news[k]] = said[news[l]] => k = l
<1> DEFINE S == {i \in UNION {Current(p) : p \in parts} : said[i] \notin DOMAIN events}
<1>1. S \subseteq DOMAIN said /\ DOMAIN said = 1..Len(said) /\ Len(said) \in Nat
  BY DEF TableOK, Current
<1>2. \A i, j \in S : said[i] = said[j] => i = j
  <2>1. ASSUME NEW i \in S, NEW j \in S, said[i] = said[j], i < j PROVE FALSE
    <3>1. PICK p \in parts : i \in Current(p)
      OBVIOUS
    <3>2. PICK q \in parts : j \in Current(q)
      OBVIOUS
    <3>3. said[i][1] = p /\ said[j][1] # p
      BY <1>1, <2>1, <3>1 DEF Current
    <3> QED
      BY <2>1, <3>3
  <2> QED
    BY <1>1, <2>1
<1>3. \A i \in S : said[i] \notin DOMAIN events
  OBVIOUS
<1>4. news \in SetToSeqs(S)
  OBVIOUS
<1> HIDE DEF S
<1>5. IsFiniteSet(S)
  BY <1>1, PlacesAreFinite
<1>6. news \in Seq(S) /\ \A k, l \in DOMAIN news : news[k] = news[l] => k = l
  BY <1>4, <1>5, Listings
<1>7. news \in Seq(DOMAIN said) /\ \A k \in DOMAIN news : news[k] \in S
  BY <1>1, <1>6
<1> QED
  BY <1>2, <1>3, <1>6, <1>7

\* A listing of places in the queue.
LEMMA PlacesListed ==
  ASSUME NEW Q, NEW q \in Seq(Q), NEW S, S \subseteq DOMAIN q, NEW f \in InOrder(S)
  PROVE  f \in Seq(DOMAIN q)
<1>1. IsFiniteSet(S)
  BY PlacesAreFinite
<1>2. f \in Seq(S)
  BY <1>1, Listings DEF InOrder
<1> QED
  BY <1>2

LEMMA TickKeeps ==
  ASSUME FeedInv, NEW r \in Replicas, Tick(r)
  PROVE  FeedInv'
<1>1. UNCHANGED <<parts, said, draws, platform>> /\ job[r] = Idle
  BY DEF Tick
<1>2. overlapped' = (overlapped \/ \E s \in Replicas : job[s] # Idle)
  BY DEF Tick
<1>3. PICK news \in SetToSeqs({i \in UNION {Current(p) : p \in parts} : said[i] \notin DOMAIN events}) :
         /\ Enqueue(news)
         /\ \E due \in InOrder({i \in DOMAIN queue' : Due(events'[queue'[i]])}) :
               Job(r, [Idle EXCEPT !.at = "events",
                             !.todo = [k \in DOMAIN due |-> <<queue'[due[k]], events'[queue'[due[k]]].status>>]])
  BY DEF Tick
<1>4. TableOK' /\ Later(events, events')
  BY <1>1, <1>3, NewsOfATick, Enqueued DEF FeedInv
<1>5. PICK due \in InOrder({i \in DOMAIN queue' : Due(events'[queue'[i]])}) :
         Job(r, [Idle EXCEPT !.at = "events",
                       !.todo = [k \in DOMAIN due |-> <<queue'[due[k]], events'[queue'[due[k]]].status>>]])
  BY <1>3
<1> DEFINE todo == [k \in DOMAIN due |-> <<queue'[due[k]], events'[queue'[due[k]]].status>>]
           j == [Idle EXCEPT !.at = "events", !.todo = todo]
<1>6. todo \in Seq((DOMAIN events') \X Statuses)
  <2>1. queue' \in Seq(Ids') /\ DOMAIN events' = ToSet(queue')
    BY <1>4 DEF TableOK
  <2>2. due \in Seq(DOMAIN queue')
    BY <2>1, PlacesListed
  <2>3. \A k \in DOMAIN due : due[k] \in DOMAIN queue'
    BY <2>2
  <2>4. \A k \in DOMAIN due : queue'[due[k]] \in DOMAIN events'
    BY <2>1, <2>3 DEF ToSet
  <2>5. \A k \in DOMAIN due : events'[queue'[due[k]]].status \in Statuses
    BY <1>4, <2>4 DEF TableOK
  <2> QED
    BY <2>2, <2>4, <2>5
<1>7. Job(r, j)
  BY <1>5
<1> HIDE DEF todo
<1>8. JobOK(parts, events', j) /\ j.at = "events"
  BY <1>6, FreshIsOK
<1> HIDE DEF j
<1>9. JobInOrder(parts, events', status, result, j)
  BY <1>8 DEF JobInOrder
<1>10. DOMAIN job' = Replicas /\ \A s \in Replicas : job'[s] = IF s = r THEN j ELSE job[s]
  BY <1>7 DEF Job, FeedInv, JobsOK
<1>11. ~overlapped' => \A s, u \in Replicas : job'[s] # Idle /\ job'[u] # Idle => s = u
  BY <1>2, <1>10
<1> QED
  BY <1>1, <1>2, <1>4, <1>8, <1>9, <1>10, <1>11, EventStep
-----------------------------------------------------------------------------
LEMMA SameTable ==
  ASSUME FeedInv, UNCHANGED feed
  PROVE  TableOK' /\ Later(events, events') /\ UNCHANGED <<parts, events>>
<1>1. UNCHANGED <<parts, said, events, queue>>
  BY DEF feed, table
<1>2. TableOK'
  BY <1>1 DEF FeedInv, TableOK, Ids
<1> QED
  BY <1>1, <1>2, NothingNew

LEMMA ClaimKeeps ==
  ASSUME FeedInv, NEW r \in Replicas, Claim(r)
  PROVE  FeedInv'
<1> DEFINE id == Head(job[r].todo)[1]
<1>1. /\ UNCHANGED <<parts, said, queue, draws, platform, overlapped>>
      /\ job[r].at = "events" /\ job[r].todo # <<>> /\ JobOK(parts, events, job[r]) /\ TableOK
  BY DEF Claim, FeedInv, JobsOK
<1>2. job[r].todo \in Seq((DOMAIN events) \X Statuses)
  BY <1>1 DEF JobOK
<1>3. id \in DOMAIN events /\ Tail(job[r].todo) \in Seq((DOMAIN events) \X Statuses)
  BY <1>1, <1>2
<1>4. job[r] # Idle
  BY <1>1, AtWork
<1>5. CASE events[id].status = Head(job[r].todo)[2]
  <2> DEFINE row == [events[id] EXCEPT !.status = "PROCESSING", !.tries = @ + 1]
             j == [job[r] EXCEPT !.at = "resolve", !.id = id, !.claimed = TRUE, !.todo = Tail(@)]
  <2>1. events' = [events EXCEPT ![id].status = "PROCESSING", ![id].tries = @ + 1] /\ Job(r, j)
    BY <1>5 DEF Claim
  <2>2. events[id] \in [status : Statuses, tries : Nat, stamp : 1..MaxSaid]
    BY <1>1, <1>3 DEF TableOK
  <2>3. row \in [status : Statuses, tries : Nat, stamp : {events[id].stamp}] /\ row.status # "APPLIED"
    <3>1. "PROCESSING" \in Statuses
      BY DEF Statuses
    <3>2. PICK row0 \in [status : Statuses, tries : Nat, stamp : 1..MaxSaid] : row0 = events[id]
      BY <2>2
    <3>3. events[id].tries + 1 \in Nat /\ events[id].stamp = row0.stamp
      BY <3>2
    <3> QED
      BY <3>1, <3>2, <3>3
  <2>4. /\ DOMAIN events' = DOMAIN events /\ events'[id] = row
        /\ \A x \in DOMAIN events : x # id => events'[x] = events[x]
    BY <1>3, <2>1, <2>2
  <2>5. TableOK' /\ Later(events, events')
    <3> HIDE DEF row, id
    <3> QED
      BY <1>1, <1>3, <2>3, <2>4, RowChanged
  <2>6. JobOK(parts, events, j) /\ j.at = "resolve"
    <3>1. /\ j.at = "resolve" /\ j.id = id /\ j.claimed = TRUE /\ j.todo = Tail(job[r].todo)
          /\ j.draw = job[r].draw
      BY <1>1 DEF JobOK
    <3>2. j \in [at : {"idle", "events", "again", "resolve", "draws", "write"},
                 todo : Seq(DOMAIN events) \cup Seq((DOMAIN events) \X Statuses),
                 id : DOMAIN events \cup {<<>>}, claimed : BOOLEAN,
                 keys : Winning(parts) \cup {<<>>}, stamp : Nat,
                 left : SUBSET Tenants, draw : SUBSET Tenants, edit : BOOLEAN]
      BY <1>1, <1>3 DEF JobOK
    <3>3. job[r].draw = {}
      BY <1>1 DEF JobOK
    <3> HIDE DEF j, id
    <3> QED
      BY <1>3, <3>1, <3>2, <3>3 DEF JobOK
  <2> HIDE DEF j
  <2>7. JobOK(parts, events', j) /\ JobInOrder(parts, events', status, result, j)
    BY <2>5, <2>6, JobStaysOK DEF Later, JobInOrder
  <2> QED
    BY <1>1, <1>4, <2>1, <2>5, <2>7, JobStep
<1>6. CASE events[id].status # Head(job[r].todo)[2]
  <2> DEFINE j == [job[r] EXCEPT !.todo = Tail(@)]
  <2>1. events' = events /\ Job(r, j)
    BY <1>6 DEF Claim
  <2>2. TableOK' /\ Later(events, events')
    BY <1>1, <2>1, SameTable DEF feed, table
  <2>3. JobOK(parts, events, j) /\ j.at = "events"
    <3>1. /\ j.at = "events" /\ j.claimed = job[r].claimed /\ j.todo = Tail(job[r].todo)
          /\ j.draw = job[r].draw
      BY <1>1 DEF JobOK
    <3>2. j \in [at : {"idle", "events", "again", "resolve", "draws", "write"},
                 todo : Seq(DOMAIN events) \cup Seq((DOMAIN events) \X Statuses),
                 id : DOMAIN events \cup {<<>>}, claimed : BOOLEAN,
                 keys : Winning(parts) \cup {<<>>}, stamp : Nat,
                 left : SUBSET Tenants, draw : SUBSET Tenants, edit : BOOLEAN]
      BY <1>1, <1>3 DEF JobOK
    <3> HIDE DEF j, id
    <3> QED
      BY <1>1, <1>3, <3>1, <3>2 DEF JobOK
  <2> HIDE DEF j
  <2>4. JobOK(parts, events', j) /\ JobInOrder(parts, events', status, result, j)
    BY <2>1, <2>3 DEF JobInOrder
  <2> QED
    BY <1>1, <1>4, <2>1, <2>2, <2>4, JobStep
<1> QED
  BY <1>5, <1>6

LEMMA ReconcileKeeps ==
  ASSUME FeedInv, NEW r \in Replicas, Reconcile(r)
  PROVE  FeedInv'
<1> DEFINE S == {i \in DOMAIN queue : /\ queue[i][1] = "PICK3"
                                      /\ events[queue[i]].status \in {"APPLIED", "WAITING"}}
<1>1. /\ UNCHANGED <<feed, draws, platform, overlapped>>
      /\ job[r].at = "events"
      /\ \E again \in InOrder(S) :
            Job(r, [Idle EXCEPT !.at = "again",
                          !.todo = Reverse([k \in DOMAIN again |-> queue[again[k]]])])
  BY DEF Reconcile
<1>2. PICK again \in InOrder(S) :
         Job(r, [Idle EXCEPT !.at = "again",
                       !.todo = Reverse([k \in DOMAIN again |-> queue[again[k]]])])
  BY <1>1
<1> DEFINE list == [k \in DOMAIN again |-> queue[again[k]]]
           j == [Idle EXCEPT !.at = "again", !.todo = Reverse(list)]
<1>3. Reverse(list) \in Seq(DOMAIN events)
  <2>1. queue \in Seq(Ids) /\ DOMAIN events = ToSet(queue) /\ S \subseteq DOMAIN queue
    BY DEF FeedInv, TableOK
  <2> HIDE DEF S
  <2>2. again \in Seq(DOMAIN queue)
    BY <2>1, PlacesListed
  <2>3. \A k \in DOMAIN again : queue[again[k]] \in DOMAIN events
    BY <2>1, <2>2 DEF ToSet
  <2>4. list \in Seq(DOMAIN events)
    BY <2>2, <2>3
  <2> HIDE DEF list
  <2> QED
    BY <2>4 DEF Reverse
<1>4. Job(r, j)
  BY <1>2
<1>5. TableOK' /\ Later(events, events') /\ UNCHANGED <<parts, events>>
  BY <1>1, SameTable
<1> HIDE DEF list
<1>6. JobOK(parts, events', j) /\ j.at = "again"
  BY <1>3, <1>5, FreshIsOK
<1> HIDE DEF j
<1>7. JobInOrder(parts, events', status, result, j)
  BY <1>6 DEF JobInOrder
<1>8. job[r] # Idle
  BY <1>1, AtWork
<1> QED
  BY <1>1, <1>4, <1>5, <1>6, <1>7, <1>8, JobStep

LEMMA IdleIsOK ==
  ASSUME NEW P, NEW e
  PROVE  JobOK(P, e, Idle) /\ Idle.at = "idle"
<1>1. /\ Idle.at = "idle" /\ Idle.todo = <<>> /\ Idle.claimed = FALSE /\ Idle.draw = {}
  BY DEF Idle
<1>2. Idle \in [at : {"idle", "events", "again", "resolve", "draws", "write"},
                todo : Seq(DOMAIN e) \cup Seq((DOMAIN e) \X Statuses), id : DOMAIN e \cup {<<>>},
                claimed : BOOLEAN, keys : Winning(P) \cup {<<>>}, stamp : Nat,
                left : SUBSET Tenants, draw : SUBSET Tenants, edit : BOOLEAN]
  BY DEF Idle
<1> QED
  BY <1>1, <1>2 DEF JobOK

LEMMA JobDropped ==
  ASSUME FeedInv, NEW r \in Replicas, EndTick(r) \/ BreakOff(r)
  PROVE  FeedInv'
<1>1. UNCHANGED <<feed, draws, platform, overlapped>> /\ Job(r, Idle) /\ job[r] # Idle
  BY AtWork DEF EndTick, BreakOff
<1>2. TableOK' /\ Later(events, events') /\ UNCHANGED <<parts, events>>
  BY <1>1, SameTable
<1>3. JobOK(parts, events', Idle) /\ JobInOrder(parts, events', status, result, Idle)
  BY IdleIsOK DEF JobInOrder
<1> QED
  BY <1>1, <1>2, <1>3, JobStep
-----------------------------------------------------------------------------
LEMMA ApplyKeeps ==
  ASSUME FeedInv, UNCHANGED <<parts, said, queue, draws, platform, overlapped>>,
         NEW r \in Replicas, NEW id \in DOMAIN events, NEW rest, Apply(r, id, rest),
         job[r].at = "resolve" \/ (job[r].at = "again" /\ job[r].todo # <<>>),
         job[r].claimed => rest \in Seq((DOMAIN events) \X Statuses),
         ~job[r].claimed => rest \in Seq(DOMAIN events)
  PROVE  FeedInv'
<1>1. CASE \E p \in parts : Sources(id, p) = {}
  <2>1. Onward(r, id, "WAITING")
    BY <1>1 DEF Apply
  <2> QED
    BY <2>1, NotApplied
<1>2. CASE ~\E p \in parts : Sources(id, p) = {}
  <2>1. PICK ids \in [parts -> DOMAIN events] :
           /\ \A p \in parts : ids[p] \in Sources(id, p)
           /\ Job(r, [job[r] EXCEPT !.at = "draws", !.id = id, !.todo = rest, !.left = Tenants,
                        !.keys = [p \in parts |-> ids[p][2]],
                        !.stamp = Max({events[ids[p]].stamp : p \in parts})])
    BY <1>2 DEF Apply
  <2>2. events' = events
    BY <1>2 DEF Apply
  <2> DEFINE keys == [p \in parts |-> ids[p][2]]
             age == Max({events[ids[p]].stamp : p \in parts})
             j == [job[r] EXCEPT !.at = "draws", !.id = id, !.todo = rest, !.left = Tenants,
                     !.keys = keys, !.stamp = age]
  <2>3. Job(r, j)
    BY <2>1
  <2>4. keys = [p \in parts |-> ids[p][2]] /\ age = Max({events[ids[p]].stamp : p \in parts})
    OBVIOUS
  <2> HIDE DEF keys, age
  <2>5. /\ Known(parts, events, keys) /\ age \in Nat /\ IsAge(parts, events, keys, age)
        /\ events[id].stamp <= Stamp(events, keys, id[1])
        /\ Cardinality(parts) # 1 =>
              /\ Covers(events, keys)
              /\ \A k : Known(parts, events, k) => Above(parts, events, keys, k)
    BY <2>1, <2>4, KeysWorkedOut
  <2>6. JobOK(parts, events, job[r])
    BY DEF FeedInv, JobsOK
  <2>7. /\ j.at = "draws" /\ j.id = id /\ j.todo = rest /\ j.left = Tenants /\ j.keys = keys
        /\ j.stamp = age /\ j.claimed = job[r].claimed /\ j.draw = {}
    BY <2>6 DEF JobOK
  <2>8. JobOK(parts, events, j)
    <3>1. keys \in Winning(parts)
      BY <2>5 DEF Known
    <3>2. rest \in Seq(DOMAIN events) \cup Seq((DOMAIN events) \X Statuses)
      OBVIOUS
    <3>3. j \in [at : {"idle", "events", "again", "resolve", "draws", "write"},
                 todo : Seq(DOMAIN events) \cup Seq((DOMAIN events) \X Statuses),
                 id : DOMAIN events \cup {<<>>}, claimed : BOOLEAN,
                 keys : Winning(parts) \cup {<<>>}, stamp : Nat,
                 left : SUBSET Tenants, draw : SUBSET Tenants, edit : BOOLEAN]
      BY <2>5, <2>6, <3>1, <3>2 DEF JobOK
    <3> HIDE DEF j
    <3> QED
      BY <2>5, <2>7, <3>3 DEF JobOK
  <2> HIDE DEF j
  <2>9. JobInOrder(parts, events, status, result, j)
    <3>1. \A t \in Tenants : result[t].source = "FEED" => Known(parts, events, result[t].keys)
      BY DEF FeedInv, DrawsOK
    <3> QED
      BY <2>5, <2>7, <3>1 DEF JobInOrder
  <2>10. TableOK' /\ Later(events, events')
    BY <2>2, SameTable DEF feed, table
  <2>11. job[r] # Idle
    BY AtWork
  <2> QED
    BY <2>2, <2>3, <2>8, <2>9, <2>10, <2>11, JobStep
<1> QED
  BY <1>1, <1>2

LEMMA HeadAndTail ==
  ASSUME NEW S, NEW s \in Seq(S), s # <<>>
  PROVE  Head(s) \in S /\ Tail(s) \in Seq(S)
  OBVIOUS

LEMMA ResolveKeeps ==
  ASSUME FeedInv, NEW r \in Replicas, Resolve(r)
  PROVE  FeedInv'
<1>1. UNCHANGED <<parts, said, queue, draws, platform, overlapped>> /\ JobOK(parts, events, job[r])
  BY DEF Resolve, FeedInv, JobsOK
<1>2. CASE job[r].at = "resolve" /\ Apply(r, job[r].id, job[r].todo)
  <2>1. job[r].claimed /\ job[r].id \in DOMAIN events /\ job[r].todo \in Seq((DOMAIN events) \X Statuses)
    BY <1>1, <1>2 DEF JobOK
  <2> QED
    BY <1>1, <1>2, <2>1, ApplyKeeps
<1>3. CASE job[r].at = "again" /\ job[r].todo # <<>> /\ Apply(r, Head(job[r].todo), Tail(job[r].todo))
  <2>1. ~job[r].claimed /\ job[r].todo \in Seq(DOMAIN events) /\ job[r].todo # <<>>
    BY <1>1, <1>3 DEF JobOK
  <2>2. Head(job[r].todo) \in DOMAIN events /\ Tail(job[r].todo) \in Seq(DOMAIN events)
    BY <2>1, HeadAndTail
  <2> QED
    BY <1>1, <1>3, <2>1, <2>2, ApplyKeeps
<1> QED
  BY <1>2, <1>3 DEF Resolve

\* With one lottery the newer of two results is the one of the greater age.
LEMMA AgeOfOne ==
  ASSUME NEW P \in Bindings, Cardinality(P) = 1, NEW e, NEW k, NEW l, NEW a, NEW b,
         IsAge(P, e, k, a), IsAge(P, e, l, b), a <= b
  PROVE  Above(P, e, l, k)
<1>1. PICK p \in P : P = {p}
  BY PartsAreFew
<1>2. a = Stamp(e, k, p) /\ b = Stamp(e, l, p)
  BY <1>1 DEF IsAge
<1> QED
  BY <1>1, <1>2 DEF Above

\* Stamps are numbers.
LEMMA StampsAreNumbers ==
  ASSUME TableOK, NEW k, Known(parts, events, k)
  PROVE  \A p \in parts : Stamp(events, k, p) \in Nat
  BY DEF TableOK, Known, Stamp

\* Of two results the one above is no younger, lottery by lottery nor in all.
LEMMA AboveIsOlder ==
  ASSUME TableOK, NEW k, NEW l, NEW a, NEW b, Known(parts, events, k), Known(parts, events, l),
         IsAge(parts, events, k, a), IsAge(parts, events, l, b), Above(parts, events, l, k)
  PROVE  a <= b
<1>1. PICK p \in parts : a = Stamp(events, k, p)
  BY DEF IsAge
<1>2. Stamp(events, k, p) <= Stamp(events, l, p) /\ Stamp(events, l, p) <= b
  BY DEF IsAge, Above
<1>3. PICK q \in parts : b = Stamp(events, l, q)
  BY DEF IsAge
<1>4. /\ Stamp(events, k, p) \in Nat /\ Stamp(events, l, p) \in Nat /\ Stamp(events, l, q) \in Nat
  BY StampsAreNumbers
<1> QED
  BY <1>1, <1>2, <1>3, <1>4

\* What is above a result that covers what was applied covers it too.
LEMMA AboveCovers ==
  ASSUME TableOK, NEW k, NEW l, Known(parts, events, k), Known(parts, events, l),
         Above(parts, events, l, k), Covers(events, k)
  PROVE  Covers(events, l)
<1> SUFFICES ASSUME NEW id \in DOMAIN events, events[id].status = "APPLIED"
             PROVE  events[id].stamp <= Stamp(events, l, id[1])
  BY DEF Covers
<1>1. id[1] \in parts
  BY EventsArePairs
<1>2. events[id].stamp <= Stamp(events, k, id[1]) /\ Stamp(events, k, id[1]) <= Stamp(events, l, id[1])
  BY <1>1 DEF Covers, Above
<1>3. events[id].stamp \in Nat /\ Stamp(events, k, id[1]) \in Nat /\ Stamp(events, l, id[1]) \in Nat
  BY <1>1, StampsAreNumbers DEF TableOK
<1> QED
  BY <1>2, <1>3
-----------------------------------------------------------------------------
\* A draw that a job leaves as it is has a result as new as the job's keys.
LEMMA LeftAsItIs ==
  ASSUME FeedInv, ~overlapped, NEW r \in Replicas, job[r].at = "draws", NEW t \in Tenants,
         ~Corrects(result[t], job[r].keys, job[r].stamp), result[t].source = "FEED"
  PROVE  Above(parts, events, result[t].keys, job[r].keys)
<1>1. /\ TableOK /\ parts \in Bindings
      /\ Known(parts, events, result[t].keys)
      /\ IsAge(parts, events, result[t].keys, result[t].at) /\ result[t].at \in Nat
  BY DEF FeedInv, TableOK, DrawsOK
<1>2. /\ Known(parts, events, job[r].keys)
      /\ IsAge(parts, events, job[r].keys, job[r].stamp) /\ job[r].stamp \in Nat
  BY DEF FeedInv, JobsOK, JobOK
<1>3. CASE result[t].keys = job[r].keys
  <2>1. \A p \in parts : Stamp(events, job[r].keys, p) \in Nat
    BY <1>1, <1>2, StampsAreNumbers
  <2> QED
    BY <1>3, <2>1 DEF Above
<1>4. CASE result[t].keys # job[r].keys
  <2>1. ~(result[t].at <= job[r].stamp)
    BY <1>4 DEF Corrects
  <2>2. CASE Cardinality(parts) = 1
    <3>1. job[r].stamp <= result[t].at
      BY <1>1, <1>2, <2>1
    <3> QED
      BY <1>1, <1>2, <2>2, <3>1, AgeOfOne
  <2>3. CASE Cardinality(parts) # 1
    <3>1. Above(parts, events, job[r].keys, result[t].keys)
      BY <2>3 DEF FeedInv, Ordered, JobInOrder
    <3>2. result[t].at <= job[r].stamp
      BY <1>1, <1>2, <3>1, AboveIsOlder
    <3> QED
      BY <2>1, <3>2
  <2> QED
    BY <2>2, <2>3
<1> QED
  BY <1>3, <1>4

\* What a job is about to write covers what was applied.
LEMMA WrittenCovers ==
  ASSUME FeedInv, ~overlapped, NEW r \in Replicas, job[r].at = "draws", NEW t \in Tenants,
         status[t] = "RESULT_PUBLISHED" => Corrects(result[t], job[r].keys, job[r].stamp)
  PROVE  Covers(events, job[r].keys)
<1>1. CASE Cardinality(parts) # 1
  BY <1>1 DEF FeedInv, Ordered, JobInOrder
<1>2. CASE status[t] # "RESULT_PUBLISHED"
  <2>1. \A id \in DOMAIN events : events[id].status # "APPLIED"
    BY <1>2 DEF FeedInv, Ordered, DrawsInOrder
  <2> QED
    BY <2>1 DEF Covers
<1>3. CASE Cardinality(parts) = 1 /\ status[t] = "RESULT_PUBLISHED"
  <2>1. result[t].source = "FEED" /\ result[t].at <= job[r].stamp
    BY <1>3 DEF Corrects
  <2>2. /\ TableOK /\ parts \in Bindings
        /\ Known(parts, events, result[t].keys)
        /\ IsAge(parts, events, result[t].keys, result[t].at)
    BY <2>1 DEF FeedInv, TableOK, DrawsOK
  <2>3. Known(parts, events, job[r].keys) /\ IsAge(parts, events, job[r].keys, job[r].stamp)
    BY DEF FeedInv, JobsOK, JobOK
  <2>4. Above(parts, events, job[r].keys, result[t].keys)
    BY <1>3, <2>1, <2>2, <2>3, AgeOfOne
  <2>5. Covers(events, result[t].keys)
    BY <2>1 DEF FeedInv, Ordered, DrawsInOrder
  <2> QED
    BY <2>2, <2>3, <2>4, <2>5, AboveCovers
<1> QED
  BY <1>1, <1>2, <1>3

LEMMA ReadDrawKeeps ==
  ASSUME FeedInv, NEW r \in Replicas, ReadDraw(r)
  PROVE  FeedInv'
<1>1. /\ UNCHANGED <<feed, draws, platform, overlapped>> /\ job[r].at = "draws" /\ job[r] # Idle
      /\ JobOK(parts, events, job[r])
  BY AtWork DEF ReadDraw, FeedInv, JobsOK
<1>2. TableOK' /\ Later(events, events') /\ UNCHANGED <<parts, events>>
  BY <1>1, SameTable
<1>3. PICK t \in job[r].left :
         Job(r, IF status[t] = "RESULT_PUBLISHED" /\ ~Corrects(result[t], job[r].keys, job[r].stamp)
                THEN [job[r] EXCEPT !.left = @ \ {t}]
                ELSE [job[r] EXCEPT !.at = "write", !.left = @ \ {t}, !.draw = {t},
                                    !.edit = (status[t] = "RESULT_PUBLISHED")])
  BY DEF ReadDraw
<1>4. t \in Tenants /\ job[r].draw = {}
  BY <1>1 DEF JobOK
<1>5. CASE status[t] = "RESULT_PUBLISHED" /\ ~Corrects(result[t], job[r].keys, job[r].stamp)
  <2> DEFINE j == [job[r] EXCEPT !.left = @ \ {t}]
  <2>1. Job(r, j)
    BY <1>3, <1>5
  <2>2. /\ j.at = "draws" /\ j.left = job[r].left \ {t} /\ j.draw = {} /\ j.id = job[r].id
        /\ j.keys = job[r].keys /\ j.stamp = job[r].stamp /\ j.claimed = job[r].claimed
        /\ j.todo = job[r].todo
    BY <1>1, <1>4 DEF JobOK
  <2>3. JobOK(parts, events, j)
    <3>1. j \in [at : {"idle", "events", "again", "resolve", "draws", "write"},
                 todo : Seq(DOMAIN events) \cup Seq((DOMAIN events) \X Statuses),
                 id : DOMAIN events \cup {<<>>}, claimed : BOOLEAN,
                 keys : Winning(parts) \cup {<<>>}, stamp : Nat,
                 left : SUBSET Tenants, draw : SUBSET Tenants, edit : BOOLEAN]
      BY <1>1 DEF JobOK
    <3> HIDE DEF j
    <3> QED
      BY <1>1, <2>2, <3>1 DEF JobOK
  <2> HIDE DEF j
  <2>4. ~overlapped => JobInOrder(parts, events, status, result, j)
    <3> SUFFICES ASSUME ~overlapped PROVE JobInOrder(parts, events, status, result, j)
      OBVIOUS
    <3>1. result[t].source = "FEED" => Above(parts, events, result[t].keys, job[r].keys)
      BY <1>1, <1>4, <1>5, LeftAsItIs
    <3>2. JobInOrder(parts, events, status, result, job[r])
      BY DEF FeedInv, Ordered
    <3>3. \A u \in Tenants \ (j.left \cup j.draw) : u = t \/ u \in Tenants \ (job[r].left \cup job[r].draw)
      BY <1>4, <2>2
    <3> QED
      BY <1>1, <1>5, <2>2, <3>1, <3>2, <3>3 DEF JobInOrder
  <2> QED
    BY <1>1, <1>2, <2>1, <2>3, <2>4, JobStep
<1>6. CASE ~(status[t] = "RESULT_PUBLISHED" /\ ~Corrects(result[t], job[r].keys, job[r].stamp))
  <2> DEFINE edit == (status[t] = "RESULT_PUBLISHED")
             j == [job[r] EXCEPT !.at = "write", !.left = @ \ {t}, !.draw = {t}, !.edit = edit]
  <2>1. Job(r, j)
    BY <1>3, <1>6
  <2>2. /\ j.at = "write" /\ j.left = job[r].left \ {t} /\ j.draw = {t} /\ j.id = job[r].id
        /\ j.keys = job[r].keys /\ j.stamp = job[r].stamp /\ j.claimed = job[r].claimed
        /\ j.todo = job[r].todo
    BY <1>1, <1>4 DEF JobOK
  <2>3. JobOK(parts, events, j)
    <3>0. edit \in BOOLEAN
      OBVIOUS
    <3> HIDE DEF edit
    <3>1. j \in [at : {"idle", "events", "again", "resolve", "draws", "write"},
                 todo : Seq(DOMAIN events) \cup Seq((DOMAIN events) \X Statuses),
                 id : DOMAIN events \cup {<<>>}, claimed : BOOLEAN,
                 keys : Winning(parts) \cup {<<>>}, stamp : Nat,
                 left : SUBSET Tenants, draw : SUBSET Tenants, edit : BOOLEAN]
      BY <1>1, <1>4, <3>0 DEF JobOK
    <3> HIDE DEF j
    <3> QED
      BY <1>1, <1>4, <2>2, <3>1 DEF JobOK
  <2> HIDE DEF j
  <2>4. ~overlapped => JobInOrder(parts, events, status, result, j)
    <3> SUFFICES ASSUME ~overlapped PROVE JobInOrder(parts, events, status, result, j)
      OBVIOUS
    <3>1. Covers(events, job[r].keys)
      BY <1>1, <1>4, <1>6, WrittenCovers
    <3>2. JobInOrder(parts, events, status, result, job[r])
      BY DEF FeedInv, Ordered
    <3>3. \A u \in Tenants \ (j.left \cup j.draw) : u \in Tenants \ (job[r].left \cup job[r].draw)
      BY <1>4, <2>2
    <3> QED
      BY <1>1, <2>2, <3>1, <3>2, <3>3 DEF JobInOrder
  <2> QED
    BY <1>1, <1>2, <2>1, <2>3, <2>4, JobStep
<1> QED
  BY <1>5, <1>6

LEMMA ApplyThrowsKeeps ==
  ASSUME FeedInv, NEW r \in Replicas, ApplyThrows(r)
  PROVE  FeedInv'
<1>1. /\ UNCHANGED <<parts, said, queue, draws, platform, overlapped>> /\ job[r].at = "write"
      /\ Onward(r, job[r].id, "FAILED")
  BY DEF ApplyThrows
<1>2. job[r].id \in DOMAIN events
  BY <1>1 DEF FeedInv, JobsOK, JobOK
<1> QED
  BY <1>1, <1>2, NotApplied

LEMMA AppliedKeeps ==
  ASSUME FeedInv, NEW r \in Replicas, Applied(r)
  PROVE  FeedInv'
<1> DEFINE id == job[r].id
<1>1. /\ UNCHANGED <<parts, said, queue, draws, platform, overlapped>> /\ job[r].at = "draws"
      /\ job[r].left = {} /\ Onward(r, id, "APPLIED") /\ JobOK(parts, events, job[r]) /\ TableOK
  BY DEF Applied, FeedInv, JobsOK
<1>2. id \in DOMAIN events /\ job[r].draw = {} /\ Known(parts, events, job[r].keys)
  BY <1>1 DEF JobOK
<1>3. events' = [events EXCEPT ![id].status = "APPLIED"] /\ Job(r, Turned(job[r]))
  BY <1>1 DEF Onward, Turned
<1>4. TableOK' /\ Kept(events, events')
  BY <1>1, <1>2, <1>3, OutcomeWritten DEF Statuses
<1>5. JobOK(parts, events', Turned(job[r])) /\ Turned(job[r]).at \in {"events", "again"}
  BY <1>1, <1>4, TurnedIsOK, JobStaysOK
<1>6. DOMAIN job' = Replicas /\ \A s \in Replicas : job'[s] = IF s = r THEN Turned(job[r]) ELSE job[s]
  BY <1>3 DEF Job, FeedInv, JobsOK
<1>7. \A t \in Tenants : result[t].source = "FEED" =>
         /\ Known(parts, events, result[t].keys) /\ Known(parts, events', result[t].keys)
         /\ IsAge(parts, events', result[t].keys, result[t].at)
         /\ \A p \in parts : Stamp(events', result[t].keys, p) = Stamp(events, result[t].keys, p)
  BY <1>4 DEF FeedInv, DrawsOK, Kept, Known, Stamp, IsAge
<1>8. DrawsOK'
  BY <1>1, <1>7 DEF FeedInv, DrawsOK, draws
<1>9. PlatformOK'
  BY <1>1 DEF FeedInv, PlatformOK, draws
<1>10. JobsOK'
  <2>1. \A s \in Replicas : JobOK(parts, events', job[s])
    BY <1>4, JobStaysOK DEF FeedInv, JobsOK
  <2> QED
    BY <1>1, <1>5, <1>6, <2>1 DEF JobsOK
<1>11. Ordered'
  <2> SUFFICES ASSUME ~overlapped
               PROVE  /\ \A s, u \in Replicas : job'[s] # Idle /\ job'[u] # Idle => s = u
                      /\ DrawsInOrder(events', status, result)
                      /\ \A s \in Replicas : JobInOrder(parts, events', status, result, job'[s])
    BY <1>1 DEF Ordered, draws
  <2>1. job[r] # Idle /\ \A s \in Replicas : s # r => job[s] = Idle
    BY <1>1, AtWork DEF FeedInv, Ordered
  <2>2. \A s, u \in Replicas : job'[s] # Idle /\ job'[u] # Idle => s = u
    BY <1>6, <2>1
  <2>3. \A s \in Replicas : job'[s].at \notin {"draws", "write"}
    BY <1>5, <1>6, <2>1, IdleIsOK
  <2>4. /\ DrawsInOrder(events, status, result)
        /\ JobInOrder(parts, events, status, result, job[r])
    BY DEF FeedInv, Ordered
  <2>5. /\ events[id].stamp <= Stamp(events, job[r].keys, id[1])
        /\ \A t \in Tenants : /\ status[t] = "RESULT_PUBLISHED"
                              /\ result[t].source = "FEED" =>
                                    Above(parts, events, result[t].keys, job[r].keys)
    BY <1>1, <1>2, <2>4 DEF JobInOrder
  <2>6. ASSUME NEW t \in Tenants, result[t].source = "FEED"
        PROVE  Covers(events', result[t].keys)
    <3>1. \A x \in DOMAIN events : /\ x[1] \in parts /\ events'[x].stamp = events[x].stamp
                                   /\ events[x].stamp \in Nat
                                   /\ x # id => events'[x] = events[x]
      BY <1>1, <1>3, <1>4, EventsArePairs DEF TableOK, Kept
    <3>2. /\ \A p \in parts : Stamp(events, result[t].keys, p) \in Nat
          /\ \A p \in parts : Stamp(events, job[r].keys, p) \in Nat
      BY <1>1, <1>2, <1>7, <2>6, StampsAreNumbers
    <3>3. events[id].stamp <= Stamp(events, result[t].keys, id[1])
      BY <1>2, <2>5, <2>6, <3>1, <3>2 DEF Above
    <3>4. \A x \in DOMAIN events : x # id /\ events[x].status = "APPLIED" =>
             events[x].stamp <= Stamp(events, result[t].keys, x[1])
      BY <2>4, <2>6 DEF DrawsInOrder, Covers
    <3>5. DOMAIN events' = DOMAIN events
      BY <1>3
    <3> QED
      BY <1>7, <2>6, <3>1, <3>3, <3>4, <3>5 DEF Covers
  <2>7. DrawsInOrder(events', status, result)
    BY <2>5, <2>6 DEF DrawsInOrder
  <2> QED
    BY <2>2, <2>3, <2>7 DEF JobInOrder
<1> QED
  BY <1>4, <1>8, <1>9, <1>10, <1>11 DEF FeedInv
-----------------------------------------------------------------------------
LEMMA WriteDrawKeeps ==
  ASSUME FeedInv, NEW r \in Replicas, WriteDraw(r)
  PROVE  FeedInv'
<1>1. /\ UNCHANGED <<parts, said, queue, paid, platform, overlapped>> /\ job[r].at = "write"
      /\ JobOK(parts, events, job[r]) /\ TableOK
  BY DEF WriteDraw, FeedInv, JobsOK
<1>2. PICK t \in job[r].draw :
         IF (job[r].edit /\ Editable(t)) \/ (~job[r].edit /\ Publishable(t))
         THEN /\ Store(t, "FEED", job[r].keys, job[r].stamp)
              /\ Job(r, [job[r] EXCEPT !.at = "draws", !.draw = {}])
              /\ UNCHANGED events
         ELSE Onward(r, job[r].id, "FAILED") /\ UNCHANGED <<status, result>>
  BY DEF WriteDraw
<1>3. job[r].draw = {t} /\ t \in Tenants /\ job[r].id \in DOMAIN events
  BY <1>1 DEF JobOK
<1>4. CASE Onward(r, job[r].id, "FAILED") /\ UNCHANGED <<status, result>>
  BY <1>1, <1>3, <1>4, NotApplied DEF draws
<1>5. CASE /\ Store(t, "FEED", job[r].keys, job[r].stamp)
           /\ Job(r, [job[r] EXCEPT !.at = "draws", !.draw = {}])
           /\ UNCHANGED events
  <2> DEFINE j == [job[r] EXCEPT !.at = "draws", !.draw = {}]
             new == [source |-> "FEED", keys |-> job[r].keys, at |-> job[r].stamp]
  <2>1. TableOK'
    BY <1>1, <1>5 DEF TableOK, Ids
  <2>2. /\ Known(parts, events, job[r].keys) /\ IsAge(parts, events, job[r].keys, job[r].stamp)
        /\ job[r].stamp \in Nat /\ job[r].keys \in Winning(parts) /\ job[r].keys # <<>>
    <3>1. Known(parts, events, job[r].keys) /\ IsAge(parts, events, job[r].keys, job[r].stamp)
          /\ job[r].stamp \in Nat
      BY <1>1 DEF JobOK
    <3>2. job[r].keys \in Winning(parts) /\ <<>> \notin Winning(parts)
      BY <1>1, <3>1, PartsAreFew DEF Known, TableOK
    <3> QED
      BY <3>1, <3>2
  <2>3. /\ result' = [result EXCEPT ![t] = new] /\ status' = [status EXCEPT ![t] = "RESULT_PUBLISHED"]
        /\ new.source = "FEED" /\ new.keys = job[r].keys /\ new.at = job[r].stamp
        /\ new \in [source : {"NONE", "STAFF", "EDITED", "FEED"},
                    keys : Winning(parts) \cup {<<>>}, at : Nat]
    BY <1>5, <2>2 DEF Store
  <2> HIDE DEF new
  <2>4. /\ DOMAIN result = Tenants /\ DOMAIN status = Tenants
        /\ result'[t] = new /\ status'[t] = "RESULT_PUBLISHED"
        /\ \A u \in Tenants : u # t => result'[u] = result[u] /\ status'[u] = status[u]
    BY <1>3, <2>3 DEF FeedInv, DrawsOK
  <2>5. DrawsOK'
    <3>1. /\ status' \in [Tenants -> {"OPEN", "CLOSED", "RESULT_PUBLISHED"}]
          /\ result' \in [Tenants -> [source : {"NONE", "STAFF", "EDITED", "FEED"},
                                      keys : Winning(parts) \cup {<<>>}, at : Nat]]
          /\ paid' \in [Tenants -> BOOLEAN]
      BY <1>1, <2>3 DEF FeedInv, DrawsOK
    <3>2. \A u \in Tenants : /\ (status'[u] = "RESULT_PUBLISHED" <=> result'[u].source # "NONE")
                             /\ (status'[u] = "RESULT_PUBLISHED" <=> result'[u].keys # <<>>)
                             /\ paid'[u] => status'[u] = "RESULT_PUBLISHED"
                             /\ result'[u].source = "FEED" =>
                                   /\ Known(parts, events, result'[u].keys)
                                   /\ IsAge(parts, events, result'[u].keys, result'[u].at)
      BY <1>1, <2>2, <2>3, <2>4 DEF FeedInv, DrawsOK
    <3> QED
      BY <1>1, <1>5, <3>1, <3>2 DEF DrawsOK
  <2>6. \A u \in Tenants : result'[u].source = "STAFF" => u # t /\ result'[u] = result[u]
    BY <2>3, <2>4
  <2>7. PlatformOK'
    BY <1>1, <2>6 DEF FeedInv, PlatformOK
  <2>8. DOMAIN job' = Replicas /\ \A s \in Replicas : job'[s] = IF s = r THEN j ELSE job[s]
    BY <1>5 DEF Job, FeedInv, JobsOK
  <2>9. /\ j.at = "draws" /\ j.left = job[r].left /\ j.draw = {} /\ j.id = job[r].id
        /\ j.keys = job[r].keys /\ j.stamp = job[r].stamp /\ j.claimed = job[r].claimed
        /\ j.todo = job[r].todo
    BY <1>1 DEF JobOK
  <2>10. JobOK(parts, events, j)
    <3>1. j \in [at : {"idle", "events", "again", "resolve", "draws", "write"},
                 todo : Seq(DOMAIN events) \cup Seq((DOMAIN events) \X Statuses),
                 id : DOMAIN events \cup {<<>>}, claimed : BOOLEAN,
                 keys : Winning(parts) \cup {<<>>}, stamp : Nat,
                 left : SUBSET Tenants, draw : SUBSET Tenants, edit : BOOLEAN]
      BY <1>1 DEF JobOK
    <3> HIDE DEF j
    <3> QED
      BY <1>1, <2>9, <3>1 DEF JobOK
  <2> HIDE DEF j
  <2>11. JobsOK'
    BY <1>1, <1>5, <2>8, <2>10 DEF FeedInv, JobsOK
  <2>12. Ordered'
    <3> SUFFICES ASSUME ~overlapped
                 PROVE  /\ \A s, u \in Replicas : job'[s] # Idle /\ job'[u] # Idle => s = u
                        /\ DrawsInOrder(events, status', result')
                        /\ \A s \in Replicas : JobInOrder(parts, events, status', result', job'[s])
      BY <1>1, <1>5 DEF Ordered
    <3>1. job[r] # Idle /\ \A s \in Replicas : s # r => job[s] = Idle
      BY <1>1, AtWork DEF FeedInv, Ordered
    <3>2. \A s, u \in Replicas : job'[s] # Idle /\ job'[u] # Idle => s = u
      BY <2>8, <3>1
    <3>3. /\ DrawsInOrder(events, status, result)
          /\ JobInOrder(parts, events, status, result, job[r])
      BY DEF FeedInv, Ordered
    <3>4. Covers(events, job[r].keys)
      BY <1>1, <3>3 DEF JobInOrder
    <3>5. DrawsInOrder(events, status', result')
      BY <2>3, <2>4, <3>3, <3>4 DEF DrawsInOrder
    <3>6. Above(parts, events, job[r].keys, job[r].keys)
      <4>1. \A p \in parts : Stamp(events, job[r].keys, p) \in Nat
        BY <1>1, <2>2, StampsAreNumbers
      <4> QED
        BY <4>1 DEF Above
    <3>7. JobInOrder(parts, events, status', result', j)
      <4>1. events[j.id].stamp <= Stamp(events, j.keys, j.id[1])
        BY <1>1, <2>9, <3>3 DEF JobInOrder
      <4>2. \A u \in Tenants \ (j.left \cup j.draw) :
               /\ status'[u] = "RESULT_PUBLISHED"
               /\ result'[u].source = "FEED" => Above(parts, events, result'[u].keys, j.keys)
        <5>1. \A u \in Tenants \ (j.left \cup j.draw) :
                 u = t \/ u \in Tenants \ (job[r].left \cup job[r].draw)
          BY <1>3, <2>9
        <5>2. result'[t].keys = j.keys /\ Above(parts, events, j.keys, j.keys)
          BY <2>3, <2>4, <2>9, <3>6
        <5> QED
          BY <1>1, <2>4, <2>9, <3>3, <5>1, <5>2 DEF JobInOrder
      <4>3. Cardinality(parts) # 1 =>
              \A u \in Tenants : result'[u].source = "FEED" => Above(parts, events, j.keys, result'[u].keys)
        BY <1>1, <2>3, <2>4, <2>9, <3>3, <3>6 DEF JobInOrder
      <4> QED
        BY <2>9, <3>4, <4>1, <4>2, <4>3 DEF JobInOrder
    <3>8. \A s \in Replicas : JobInOrder(parts, events, status', result', job'[s])
      <4>1. JobInOrder(parts, events, status', result', Idle)
        BY IdleIsOK DEF JobInOrder
      <4> QED
        BY <2>8, <3>1, <3>7, <4>1
    <3> QED
      BY <3>2, <3>5, <3>8
  <2> QED
    BY <2>1, <2>5, <2>7, <2>11, <2>12 DEF FeedInv
<1> QED
  BY <1>2, <1>4, <1>5

LEMMA TaskKeeps ==
  ASSUME FeedInv, NEW r \in Replicas, Task(r)
  PROVE  FeedInv'
<1>1. CASE Claim(r)
  BY <1>1, ClaimKeeps
<1>2. CASE Reconcile(r)
  BY <1>2, ReconcileKeeps
<1>3. CASE Resolve(r)
  BY <1>3, ResolveKeeps
<1>4. CASE ReadDraw(r)
  BY <1>4, ReadDrawKeeps
<1>5. CASE WriteDraw(r)
  BY <1>5, WriteDrawKeeps
<1>6. CASE Applied(r)
  BY <1>6, AppliedKeeps
<1>7. CASE EndTick(r)
  BY <1>7, JobDropped
<1> QED
  BY <1>1, <1>2, <1>3, <1>4, <1>5, <1>6, <1>7 DEF Task
-----------------------------------------------------------------------------
LEMMA ResultsAreWinning == Results = Winning(parts)
  BY DEF Results, Winning

\* Platform staff store a result.
LEMMA StaffStored ==
  ASSUME FeedInv, NEW t \in Tenants, NEW source \in {"STAFF", "EDITED"}, NEW keys \in Winning(parts),
         Store(t, source, keys, 0), UNCHANGED <<feed, paid>>
  PROVE  /\ DrawsOK' /\ status'[t] = "RESULT_PUBLISHED"
         /\ result'[t].source = source /\ result'[t].keys = keys
         /\ \A u \in Tenants : u # t => result'[u] = result[u] /\ status'[u] = status[u]
<1> DEFINE new == [source |-> source, keys |-> keys, at |-> 0]
<1>1. UNCHANGED <<parts, said, events, queue, paid>>
  BY DEF feed, table
<1>2. keys # <<>>
  BY PartsAreFew DEF FeedInv, TableOK
<1>3. /\ result' = [result EXCEPT ![t] = new] /\ status' = [status EXCEPT ![t] = "RESULT_PUBLISHED"]
      /\ new.source = source /\ new.keys = keys
      /\ new \in [source : {"NONE", "STAFF", "EDITED", "FEED"},
                  keys : Winning(parts) \cup {<<>>}, at : Nat]
  BY DEF Store
<1> HIDE DEF new
<1>4. /\ DOMAIN result = Tenants /\ DOMAIN status = Tenants
      /\ result'[t] = new /\ status'[t] = "RESULT_PUBLISHED"
      /\ \A u \in Tenants : u # t => result'[u] = result[u] /\ status'[u] = status[u]
  BY <1>3 DEF FeedInv, DrawsOK
<1>5. DrawsOK'
  <2>1. /\ status' \in [Tenants -> {"OPEN", "CLOSED", "RESULT_PUBLISHED"}]
        /\ result' \in [Tenants -> [source : {"NONE", "STAFF", "EDITED", "FEED"},
                                    keys : Winning(parts) \cup {<<>>}, at : Nat]]
        /\ paid' \in [Tenants -> BOOLEAN]
    BY <1>1, <1>3 DEF FeedInv, DrawsOK
  <2>2. \A u \in Tenants : /\ (status'[u] = "RESULT_PUBLISHED" <=> result'[u].source # "NONE")
                           /\ (status'[u] = "RESULT_PUBLISHED" <=> result'[u].keys # <<>>)
                           /\ paid'[u] => status'[u] = "RESULT_PUBLISHED"
                           /\ result'[u].source = "FEED" =>
                                 /\ Known(parts, events, result'[u].keys)
                                 /\ IsAge(parts, events, result'[u].keys, result'[u].at)
    BY <1>1, <1>2, <1>3, <1>4 DEF FeedInv, DrawsOK
  <2> QED
    BY <1>1, <2>1, <2>2 DEF DrawsOK
<1> QED
  BY <1>3, <1>4, <1>5

LEMMA CloseKeeps ==
  ASSUME FeedInv, NEW t \in Tenants, Close(t)
  PROVE  FeedInv'
<1>1. /\ UNCHANGED <<feed, result, paid, job, platform, overlapped>>
      /\ status[t] = "OPEN" /\ status' = [status EXCEPT ![t] = "CLOSED"]
  BY DEF Close
<1>2. UNCHANGED <<parts, events>>
  BY <1>1 DEF feed, table
<1>3. DrawsOK'
  BY <1>1, <1>2 DEF FeedInv, DrawsOK
<1>4. PlatformOK'
  BY <1>1, <1>2 DEF FeedInv, PlatformOK
<1>5. \A u \in Tenants : status[u] = "RESULT_PUBLISHED" => status'[u] = "RESULT_PUBLISHED"
  BY <1>1 DEF FeedInv, DrawsOK
<1> QED
  BY <1>1, <1>3, <1>4, <1>5, StaffStep

LEMMA PayKeeps ==
  ASSUME FeedInv, NEW t \in Tenants, Pay(t)
  PROVE  FeedInv'
<1>1. /\ UNCHANGED <<feed, status, result, job, platform, overlapped>>
      /\ status[t] = "RESULT_PUBLISHED" /\ paid' = [paid EXCEPT ![t] = TRUE]
  BY DEF Pay
<1>2. UNCHANGED <<parts, events>>
  BY <1>1 DEF feed, table
<1>3. DrawsOK'
  BY <1>1, <1>2 DEF FeedInv, DrawsOK
<1>4. PlatformOK'
  BY <1>1, <1>2 DEF FeedInv, PlatformOK
<1> QED
  BY <1>1, <1>3, <1>4, StaffStep

LEMMA EditKeeps ==
  ASSUME FeedInv, NEW t \in Tenants, NEW keys \in Results, EditPlatform(t, keys)
  PROVE  FeedInv'
<1>1. /\ UNCHANGED <<feed, paid, job, platform, overlapped>> /\ Store(t, "EDITED", keys, 0)
      /\ keys \in Winning(parts)
  BY ResultsAreWinning DEF EditPlatform
<1>2. UNCHANGED <<parts, events>>
  BY <1>1 DEF feed, table
<1>3. /\ DrawsOK' /\ status'[t] = "RESULT_PUBLISHED" /\ result'[t].source = "EDITED"
      /\ \A u \in Tenants : u # t => result'[u] = result[u] /\ status'[u] = status[u]
  BY <1>1, StaffStored
<1>4. PlatformOK'
  BY <1>1, <1>2, <1>3 DEF FeedInv, PlatformOK
<1>5. \A u \in Tenants : /\ status[u] = "RESULT_PUBLISHED" => status'[u] = "RESULT_PUBLISHED"
                         /\ result'[u].source = "FEED" => result'[u] = result[u]
  BY <1>3
<1> QED
  BY <1>1, <1>3, <1>4, <1>5, StaffStep

LEMMA PublishKeeps ==
  ASSUME FeedInv, NEW s \in Staff, NEW keys \in Results, PublishPlatform(s, keys)
  PROVE  FeedInv'
<1> DEFINE new == Publication(Matching, {t \in Matching : Publishable(t)}, keys)
<1>1. /\ UNCHANGED <<feed, draws, job, overlapped>> /\ keys \in Winning(parts)
      /\ platform' = [platform EXCEPT ![s] = new]
  BY ResultsAreWinning DEF PublishPlatform
<1>2. UNCHANGED <<parts, events, status, result, paid>>
  BY <1>1 DEF feed, table, draws
<1>3. DrawsOK'
  BY <1>2 DEF FeedInv, DrawsOK
<1>4. PlatformOK'
  <2>1. keys # <<>> /\ Matching \subseteq Tenants
    BY <1>1, PartsAreFew DEF FeedInv, TableOK, Matching
  <2>2. /\ new \in [seen : SUBSET Tenants, left : SUBSET Tenants, keys : Winning(parts) \cup {<<>>}]
        /\ new.left # {} => new.keys # <<>>
    BY <1>1, <2>1 DEF Publication, NoPublication
  <2> HIDE DEF new
  <2> QED
    BY <1>1, <1>2, <2>2 DEF FeedInv, PlatformOK
<1> QED
  BY <1>1, <1>2, <1>3, <1>4, StaffStep

LEMMA PublishNextKeeps ==
  ASSUME FeedInv, NEW s \in Staff, PublishNext(s)
  PROVE  FeedInv'
<1>1. UNCHANGED <<feed, paid, job, overlapped>>
  BY DEF PublishNext
<1>2. UNCHANGED <<parts, events, said, queue, paid>>
  BY <1>1 DEF feed, table
<1> DEFINE rest(t) == Publication(platform[s].seen, platform[s].left \ {t}, platform[s].keys)
<1>3. PICK t \in Tenants :
         /\ IsNext(s, t)
         /\ IF Publishable(t)
            THEN Store(t, "STAFF", platform[s].keys, 0) /\ platform' = [platform EXCEPT ![s] = rest(t)]
            ELSE platform' = [platform EXCEPT ![s] = NoPublication] /\ UNCHANGED <<status, result>>
  BY DEF PublishNext
<1>4. CASE Publishable(t)
  <2>1. platform[s].keys \in Winning(parts) /\ platform[s].keys # <<>>
    BY <1>3 DEF FeedInv, PlatformOK, IsNext
  <2>2. /\ DrawsOK' /\ status'[t] = "RESULT_PUBLISHED"
        /\ result'[t].source = "STAFF"
        /\ \A u \in Tenants : u # t => result'[u] = result[u] /\ status'[u] = status[u]
    BY <1>1, <1>3, <1>4, <2>1, StaffStored
  <2>3. PlatformOK'
    <3>1. /\ rest(t) \in [seen : SUBSET Tenants, left : SUBSET Tenants, keys : Winning(parts) \cup {<<>>}]
          /\ rest(t).left # {} => rest(t).keys # <<>>
      BY <2>1 DEF FeedInv, PlatformOK, Publication, NoPublication
    <3> HIDE DEF rest
    <3> QED
      BY <1>2, <1>3, <1>4, <3>1 DEF FeedInv, PlatformOK
  <2>4. \A u \in Tenants : /\ status[u] = "RESULT_PUBLISHED" => status'[u] = "RESULT_PUBLISHED"
                           /\ result'[u].source = "FEED" => result'[u] = result[u]
    BY <2>2
  <2> QED
    BY <1>1, <2>2, <2>3, <2>4, StaffStep
<1>5. CASE ~Publishable(t)
  <2>1. DrawsOK'
    BY <1>2, <1>3, <1>5 DEF FeedInv, DrawsOK
  <2>2. PlatformOK'
    <3>1. /\ NoPublication \in [seen : SUBSET Tenants, left : SUBSET Tenants, keys : Winning(parts) \cup {<<>>}]
          /\ NoPublication.left = {}
      BY DEF NoPublication
    <3> QED
      BY <1>2, <1>3, <1>5, <3>1 DEF FeedInv, PlatformOK
  <2> QED
    BY <1>1, <1>3, <1>5, <2>1, <2>2, StaffStep
<1> QED
  BY <1>4, <1>5

LEMMA BreaksOffKeeps ==
  ASSUME FeedInv, NEW s \in Staff, PublishBreaksOff(s)
  PROVE  FeedInv'
<1>1. UNCHANGED <<feed, draws, job, overlapped>> /\ platform' = [platform EXCEPT ![s] = NoPublication]
  BY DEF PublishBreaksOff
<1>2. UNCHANGED <<parts, events, status, result, paid>>
  BY <1>1 DEF feed, table, draws
<1>3. DrawsOK' /\ PlatformOK'
  BY <1>1, <1>2 DEF FeedInv, DrawsOK, PlatformOK, NoPublication
<1> QED
  BY <1>1, <1>2, <1>3, StaffStep

LEMMA NothingKeeps ==
  ASSUME FeedInv, UNCHANGED vars
  PROVE  FeedInv'
<1>1. UNCHANGED <<feed, draws, job, platform, overlapped>>
  BY DEF vars, feed, table, draws
<1>2. UNCHANGED <<parts, events, status, result, paid>>
  BY <1>1 DEF feed, table, draws
<1>3. DrawsOK' /\ PlatformOK'
  BY <1>1, <1>2 DEF FeedInv, DrawsOK, PlatformOK
<1> QED
  BY <1>1, <1>2, <1>3, StaffStep

LEMMA InitIsOK == Init => FeedInv
<1> SUFFICES ASSUME Init PROVE FeedInv
  OBVIOUS
<1>1. TableOK
  BY FeedAssumption DEF Init, TableOK, ToSet, IsInjective
<1>2. DrawsOK
  BY DEF Init, DrawsOK, None
<1>3. PlatformOK
  BY DEF Init, PlatformOK, NoPublication
<1>4. JobsOK
  BY IdleIsOK DEF Init, JobsOK
<1>5. Ordered
  BY IdleIsOK DEF Init, Ordered, DrawsInOrder, JobInOrder, None
<1> QED
  BY <1>1, <1>2, <1>3, <1>4, <1>5 DEF FeedInv

LEMMA NextKeeps == FeedInv /\ [Next]_vars => FeedInv'
<1> SUFFICES ASSUME FeedInv, [Next]_vars PROVE FeedInv'
  OBVIOUS
<1>1. CASE \E id \in Ids : Announce(id[1], id[2])
  BY <1>1, AnnounceKeeps
<1>2. CASE \E i \in 1..MaxSaid : Webhook(i)
  BY <1>2, WebhookKeeps, FeedAssumption
<1>3. CASE \E t \in Tenants : Close(t) \/ Pay(t) \/ \E keys \in Results : EditPlatform(t, keys)
  BY <1>3, CloseKeeps, PayKeeps, EditKeeps
<1>4. CASE \E s \in Staff : \E keys \in Results : PublishPlatform(s, keys)
  BY <1>4, PublishKeeps
<1>5. CASE \E s \in Staff : PublishNext(s) \/ PublishBreaksOff(s)
  BY <1>5, PublishNextKeeps, BreaksOffKeeps
<1>6. CASE \E r \in Replicas : Tick(r) \/ Task(r) \/ ApplyThrows(r) \/ BreakOff(r)
  BY <1>6, TickKeeps, TaskKeeps, ApplyThrowsKeeps, JobDropped
<1>7. CASE UNCHANGED vars
  BY <1>7, NothingKeeps
<1> QED
  BY <1>1, <1>2, <1>3, <1>4, <1>5, <1>6, <1>7 DEF Next

\* FeedInv holds in every state of the feed: its tables, jobs and results are well formed, and
\* while ticks do not overlap what is stored keeps the order in which it was announced.
THEOREM FeedInvariant == Spec => []FeedInv
  BY InitIsOK, NextKeeps, PTL DEF Spec

\* Types of the feed's variables, with the key of an event unique in the table
\* (LotteryResultsFeedService, ProviderResultEvent.dedupeKey).
THEOREM FeedTypes == Spec => []TypeOK
<1>1. FeedInv => TypeOK
  <2> SUFFICES ASSUME FeedInv PROVE TypeOK
    OBVIOUS
  <2>1. <<>> \notin Winning(parts)
    BY PartsAreFew DEF FeedInv, TableOK
  <2>2. /\ Len(said) <= MaxSaid /\ \A i \in DOMAIN said : said[i] \in Ids
        /\ DOMAIN events = ToSet(queue) /\ IsInjective(queue)
        /\ \A id \in DOMAIN events :
              events[id] \in [status : {"PENDING", "PROCESSING", "FAILED", "APPLIED", "WAITING"},
                              tries : Nat, stamp : 1..MaxSaid]
    BY DEF FeedInv, TableOK, Statuses
  <2>3. /\ status \in [Tenants -> {"OPEN", "CLOSED", "RESULT_PUBLISHED"}]
        /\ \A t \in Tenants : /\ (status[t] = "RESULT_PUBLISHED" <=> result[t].keys \in Results)
                              /\ paid[t] => status[t] = "RESULT_PUBLISHED"
    BY <2>1, ResultsAreWinning DEF FeedInv, DrawsOK
  <2>4. \A r \in Replicas : /\ job[r].at \in {"idle", "events", "again", "resolve", "draws", "write"}
                            /\ job[r].left \subseteq Tenants
    BY DEF FeedInv, JobsOK, JobOK
  <2> QED
    BY <2>2, <2>3, <2>4 DEF TypeOK
<1> QED
  BY <1>1, FeedInvariant, PTL

\* Once everything known is applied, a result the feed manages is the newest known, lottery by
\* lottery, if two ticks never ran at a time (applyLotteryResultsFeed, provider-result-correction-policy).
THEOREM NewestResultWins == Spec => []NewestWins
<1>1. FeedInv => NewestWins
  <2> SUFFICES ASSUME FeedInv, ~overlapped, \A id \in DOMAIN events : events[id].status = "APPLIED",
                      NEW t \in Tenants, result[t].source = "FEED", NEW p \in parts
               PROVE  <<p, result[t].keys[p]>> \in Latest(p)
    BY DEF NewestWins
  <2>1. Covers(events, result[t].keys) /\ Known(parts, events, result[t].keys)
    BY DEF FeedInv, Ordered, DrawsInOrder, DrawsOK
  <2>2. <<p, result[t].keys[p]>> \in DOMAIN events
    BY <2>1 DEF Known
  <2>3. \A x \in DOMAIN events : x[1] = p => events[x].stamp <= events[<<p, result[t].keys[p]>>].stamp
    BY <2>1 DEF Covers, Stamp
  <2> QED
    BY <2>2, <2>3 DEF Latest
<1> QED
  BY <1>1, FeedInvariant, PTL

-----------------------------------------------------------------------------
\* A publication that would be let through next has the keys staff gave everywhere before it.
Ahead(s) == \E t \in Tenants : IsNext(s, t) /\ Publishable(t)

\* Publications that overlap found the same draws, and each has all of them before it that are still to be published.
PublicationsOK ==
  \A s \in Staff : platform[s] # NoPublication =>
     /\ platform[s].seen \subseteq Matching
     /\ platform[s].left \subseteq platform[s].seen
     /\ \A t \in platform[s].seen : Publishable(t) => t \in platform[s].left
     /\ \A o \in Staff : platform[o] # NoPublication => platform[o].seen = platform[s].seen
     /\ Ahead(s) => \A t \in Tenants : result[t].source = "STAFF" => result[t].keys = platform[s].keys

PlatformInv == ~parted => PublicationsOK /\ PlatformAgrees

\* A step that is none of a publication: no draw seen is closed again, and staff's results are older.
LEMMA OthersKeepPublications ==
  ASSUME PlatformInv, UNCHANGED <<platform, parted>>,
         \A t \in Tenants : /\ t \in Matching => t \in Matching' /\ (Publishable(t)' => Publishable(t))
                            /\ result'[t].source = "STAFF" => result'[t] = result[t]
  PROVE  PlatformInv'
<1> SUFFICES ASSUME ~parted PROVE PublicationsOK' /\ PlatformAgrees'
  BY DEF PlatformInv
<1>1. PublicationsOK /\ PlatformAgrees
  BY DEF PlatformInv
<1>2. PlatformAgrees'
  BY <1>1 DEF PlatformAgrees
<1>3. ASSUME NEW s \in Staff, platform[s] # NoPublication
      PROVE  /\ platform[s].seen \subseteq Matching'
             /\ \A t \in platform[s].seen : Publishable(t)' => t \in platform[s].left
             /\ Ahead(s)' => \A t \in Tenants : result'[t].source = "STAFF" => result'[t].keys = platform[s].keys
  <2>1. platform[s].left \subseteq platform[s].seen /\ platform[s].seen \subseteq Matching /\ Matching \subseteq Tenants
    BY <1>1, <1>3 DEF PublicationsOK, Matching
  <2>2. Ahead(s)' => Ahead(s)
    BY <2>1 DEF Ahead, IsNext
  <2> QED
    BY <1>1, <1>3, <2>1, <2>2 DEF PublicationsOK
<1> QED
  BY <1>1, <1>2, <1>3 DEF PublicationsOK

\* Staff begin: what is out already has the keys given.
LEMMA BeginningAgrees ==
  ASSUME FeedInv, PlatformInv, NEW s \in Staff, NEW keys \in Results, PublishPlatform(s, keys)
  PROVE  PlatformInv'
<1> SUFFICES ASSUME ~parted' PROVE PublicationsOK' /\ PlatformAgrees'
  BY DEF PlatformInv
<1> DEFINE new == Publication(Matching, {t \in Matching : Publishable(t)}, keys)
<1>1. /\ UNCHANGED <<status, result>> /\ Agrees(keys) /\ platform' = [platform EXCEPT ![s] = new]
      /\ ~parted /\ \A o \in Staff : platform[o] # NoPublication => platform[o].seen = Matching
  BY DEF PublishPlatform, draws
<1>2. PublicationsOK /\ PlatformAgrees
  BY <1>1 DEF PlatformInv
<1>3. Matching' = Matching /\ \A t : Publishable(t)' <=> Publishable(t)
  BY <1>1 DEF Matching, Publishable
<1>4. /\ platform'[s] = new /\ \A o \in Staff : o # s => platform'[o] = platform[o]
      /\ new # NoPublication =>
            new.seen = Matching /\ new.left = {t \in Matching : Publishable(t)} /\ new.keys = keys
  BY <1>1 DEF FeedInv, PlatformOK, Publication
<1>5. \A t \in Tenants : result[t].source = "STAFF" => result[t].keys = keys
  <2> SUFFICES ASSUME NEW t \in Tenants, result[t].source = "STAFF" PROVE result[t].keys = keys
    OBVIOUS
  <2>1. status[t] = "RESULT_PUBLISHED"
    BY DEF FeedInv, DrawsOK
  <2> QED
    BY <1>1, <2>1 DEF Agrees, Matching
<1> HIDE DEF new
<1>6. PlatformAgrees'
  BY <1>1, <1>2 DEF PlatformAgrees
<1>7. \A o \in Staff : platform'[o] # NoPublication => platform'[o].seen = Matching
  BY <1>1, <1>4
<1>8. ASSUME NEW o \in Staff, platform'[o] # NoPublication
      PROVE  /\ platform'[o].left \subseteq platform'[o].seen
             /\ \A t \in platform'[o].seen : Publishable(t) => t \in platform'[o].left
             /\ Ahead(o)' => \A t \in Tenants : result[t].source = "STAFF" => result[t].keys = platform'[o].keys
  <2>1. CASE o = s
    BY <1>4, <1>5, <1>8, <2>1
  <2>2. CASE o # s
    <3>1. platform'[o] = platform[o]
      BY <1>4, <2>2
    <3>2. Ahead(o)' <=> Ahead(o)
      BY <1>3, <3>1 DEF Ahead, IsNext
    <3> QED
      BY <1>2, <1>8, <3>1, <3>2 DEF PublicationsOK
  <2> QED
    BY <2>1, <2>2
<1> QED
  BY <1>1, <1>3, <1>6, <1>7, <1>8 DEF PublicationsOK

\* Staff publish the next draw: it was the next one of every other publication that could go on, and they now cannot.
LEMMA PublishingAgrees ==
  ASSUME FeedInv, PlatformInv, NEW s \in Staff, PublishNext(s)
  PROVE  PlatformInv'
<1> SUFFICES ASSUME ~parted' PROVE PublicationsOK' /\ PlatformAgrees'
  BY DEF PlatformInv
<1> DEFINE rest(t) == Publication(platform[s].seen, platform[s].left \ {t}, platform[s].keys)
<1>1. PICK t \in Tenants :
         /\ IsNext(s, t)
         /\ IF Publishable(t)
            THEN Store(t, "STAFF", platform[s].keys, 0) /\ platform' = [platform EXCEPT ![s] = rest(t)]
            ELSE platform' = [platform EXCEPT ![s] = NoPublication] /\ UNCHANGED <<status, result>>
  BY DEF PublishNext
<1>2. ~parted /\ PublicationsOK /\ PlatformAgrees
  BY DEF PlatformInv, PublishNext
<1>3. t \in platform[s].left /\ platform[s] # NoPublication
  BY <1>1 DEF IsNext, NoPublication
<1>4. CASE Publishable(t)
  <2>1. /\ platform'[s] = rest(t) /\ \A o \in Staff : o # s => platform'[o] = platform[o]
        /\ rest(t) # NoPublication => /\ rest(t).seen = platform[s].seen /\ rest(t).left = platform[s].left \ {t}
                                      /\ rest(t).keys = platform[s].keys
    BY <1>1, <1>4 DEF FeedInv, PlatformOK, Publication
  <2> HIDE DEF rest
  <2>2. /\ status'[t] = "RESULT_PUBLISHED" /\ result'[t].keys = platform[s].keys
        /\ \A u \in Tenants : u # t => result'[u] = result[u] /\ status'[u] = status[u]
    BY <1>1, <1>4 DEF Store, FeedInv, DrawsOK
  <2>3. /\ Matching' = Matching /\ ~Publishable(t)' /\ Matching \subseteq Tenants
        /\ \A u \in Tenants : Publishable(u)' => Publishable(u)
    BY <1>4, <2>2 DEF Matching, Publishable
  <2>4. \A u \in Tenants : result'[u].source = "STAFF" => result'[u].keys = platform[s].keys
    <3>1. Ahead(s)
      BY <1>1, <1>4 DEF Ahead
    <3> QED
      BY <1>2, <1>3, <2>2, <3>1 DEF PublicationsOK
  <2>5. PlatformAgrees'
    BY <2>4 DEF PlatformAgrees
  <2>6. ASSUME NEW o \in Staff, o # s, platform[o] # NoPublication
        PROVE  ~Ahead(o)'
    <3> SUFFICES ASSUME NEW u \in Tenants, IsNext(o, u)', Publishable(u)' PROVE FALSE
      BY DEF Ahead
    <3>1. platform'[o] = platform[o] /\ Publishable(u) /\ u # t
      BY <2>1, <2>3, <2>6
    <3>2. u \in platform[o].left /\ \A v \in platform[o].left : u <= v
      BY <3>1 DEF IsNext
    <3>3. /\ platform[o].left \subseteq platform[o].seen /\ platform[o].seen = platform[s].seen
          /\ platform[s].left \subseteq platform[s].seen
          /\ \A v \in platform[o].seen : Publishable(v) => v \in platform[o].left /\ v \in platform[s].left
      BY <1>2, <1>3, <2>6 DEF PublicationsOK
    <3>4. u \in platform[s].left /\ t \in platform[o].left
      BY <1>3, <1>4, <3>1, <3>2, <3>3
    <3>5. t <= u /\ u <= t
      BY <1>1, <3>2, <3>4 DEF IsNext
    <3> QED
      BY <3>1, <3>5, FeedAssumption
  <2>7. ASSUME NEW o \in Staff, platform'[o] # NoPublication
        PROVE  /\ platform'[o].seen = platform[s].seen
               /\ platform'[o].left \subseteq platform'[o].seen
               /\ \A u \in platform'[o].seen : Publishable(u)' => u \in platform'[o].left
               /\ Ahead(o)' => \A u \in Tenants : result'[u].source = "STAFF" => result'[u].keys = platform'[o].keys
    <3>0. platform[s].seen \subseteq Matching
      BY <1>2, <1>3 DEF PublicationsOK
    <3>1. CASE o = s
      BY <1>2, <1>3, <2>1, <2>3, <2>4, <2>7, <3>0, <3>1 DEF PublicationsOK
    <3>2. CASE o # s
      <4>1. platform'[o] = platform[o] /\ platform[o] # NoPublication
        BY <2>1, <2>7, <3>2
      <4> QED
        BY <1>2, <1>3, <2>3, <2>6, <3>0, <3>2, <4>1 DEF PublicationsOK
    <3> QED
      BY <3>1, <3>2
  <2>8. platform[s].seen \subseteq Matching'
    BY <1>2, <1>3, <2>3 DEF PublicationsOK
  <2> QED
    BY <2>5, <2>7, <2>8 DEF PublicationsOK
<1>5. CASE ~Publishable(t)
  <2>1. /\ UNCHANGED <<status, result>> /\ \A o \in Staff : platform'[o] # NoPublication => platform'[o] = platform[o]
    BY <1>1, <1>5 DEF FeedInv, PlatformOK
  <2>2. Matching' = Matching /\ \A u : Publishable(u)' <=> Publishable(u)
    BY <2>1 DEF Matching, Publishable
  <2>3. \A o \in Staff : platform'[o] # NoPublication => (Ahead(o)' <=> Ahead(o))
    BY <2>1, <2>2 DEF Ahead, IsNext
  <2>4. PlatformAgrees'
    BY <1>2, <2>1 DEF PlatformAgrees
  <2>5. ASSUME NEW o \in Staff, platform'[o] # NoPublication
        PROVE  /\ platform'[o].seen \subseteq Matching
               /\ platform'[o].left \subseteq platform'[o].seen
               /\ \A u \in platform'[o].seen : Publishable(u) => u \in platform'[o].left
               /\ \A q \in Staff : platform'[q] # NoPublication => platform'[q].seen = platform'[o].seen
               /\ Ahead(o)' => \A u \in Tenants : result[u].source = "STAFF" => result[u].keys = platform'[o].keys
    BY <1>2, <2>1, <2>3, <2>5 DEF PublicationsOK
  <2> QED
    BY <2>1, <2>2, <2>4, <2>5 DEF PublicationsOK
<1> QED
  BY <1>4, <1>5

\* Every step keeps the publications in agreement.
LEMMA PlatformStep == FeedInv /\ PlatformInv /\ [Next]_vars => PlatformInv'
<1> SUFFICES ASSUME FeedInv, PlatformInv, [Next]_vars PROVE PlatformInv'
  OBVIOUS
<1>1. ASSUME UNCHANGED <<draws, platform, parted>> PROVE PlatformInv'
  BY <1>1, OthersKeepPublications DEF draws, Matching, Publishable
<1>2. ASSUME UNCHANGED <<platform, parted>>, NEW t \in Tenants, NEW source \in {"EDITED", "FEED"}, NEW keys, NEW stamp,
             Store(t, source, keys, stamp), Editable(t) \/ Publishable(t)
      PROVE  PlatformInv'
  <2>1. /\ result'[t].source # "STAFF" /\ status'[t] = "RESULT_PUBLISHED"
        /\ \A u \in Tenants : u # t => result'[u] = result[u] /\ status'[u] = status[u]
    BY <1>2 DEF Store, FeedInv, DrawsOK
  <2> QED
    BY <1>2, <2>1, OthersKeepPublications DEF Matching, Publishable
<1>3. CASE \E id \in Ids : Announce(id[1], id[2])
  BY <1>1, <1>3 DEF Announce
<1>4. CASE \E i \in 1..MaxSaid : Webhook(i)
  BY <1>1, <1>4 DEF Webhook
<1>5. ASSUME NEW t \in Tenants, Close(t) PROVE PlatformInv'
  <2>1. /\ UNCHANGED <<platform, parted, result>> /\ status[t] = "OPEN"
        /\ \A u \in Tenants : u # t => status'[u] = status[u]
    BY <1>5 DEF Close, FeedInv, DrawsOK
  <2> QED
    BY <2>1, OthersKeepPublications DEF Matching, Publishable
<1>6. CASE \E t \in Tenants : Pay(t)
  BY <1>6, OthersKeepPublications DEF Pay, Matching, Publishable
<1>7. CASE \E t \in Tenants : \E keys \in Results : EditPlatform(t, keys)
  BY <1>2, <1>7 DEF EditPlatform
<1>8. CASE \E s \in Staff : PublishNext(s) \/ \E keys \in Results : PublishPlatform(s, keys)
  BY <1>8, BeginningAgrees, PublishingAgrees
<1>9. ASSUME NEW s \in Staff, PublishBreaksOff(s) PROVE PlatformInv'
  <2>1. /\ UNCHANGED <<status, result, parted>>
        /\ \A o \in Staff : platform'[o] # NoPublication => platform'[o] = platform[o]
    BY <1>9 DEF PublishBreaksOff, FeedInv, PlatformOK, draws
  <2> QED
    BY <2>1 DEF PlatformInv, PublicationsOK, PlatformAgrees, Matching, Publishable, Ahead, IsNext
<1>10. ASSUME NEW r \in Replicas, Tick(r) \/ Task(r) \/ ApplyThrows(r) \/ BreakOff(r) PROVE PlatformInv'
  <2>1. CASE WriteDraw(r)
    <3>1. UNCHANGED <<platform, parted>>
      BY <2>1 DEF WriteDraw
    <3>2. CASE UNCHANGED <<status, result>>
      BY <3>1, <3>2, OthersKeepPublications DEF Matching, Publishable
    <3>3. CASE ~UNCHANGED <<status, result>>
      <4>1. PICK t \in job[r].draw : Store(t, "FEED", job[r].keys, job[r].stamp) /\ (Editable(t) \/ Publishable(t))
        BY <2>1, <3>3 DEF WriteDraw
      <4>2. t \in Tenants
        BY DEF FeedInv, JobsOK, JobOK
      <4> QED
        BY <1>2, <3>1, <4>1, <4>2
    <3> QED
      BY <3>2, <3>3
  <2>2. CASE Tick(r) \/ ApplyThrows(r) \/ BreakOff(r)
    BY <1>1, <2>2 DEF Tick, ApplyThrows, BreakOff
  <2>3. CASE Claim(r) \/ Reconcile(r) \/ Resolve(r)
    BY <1>1, <2>3 DEF Claim, Reconcile, Resolve
  <2>4. CASE ReadDraw(r) \/ Applied(r) \/ EndTick(r)
    BY <1>1, <2>4 DEF ReadDraw, Applied, EndTick
  <2> QED
    BY <1>10, <2>1, <2>2, <2>3, <2>4 DEF Task
<1>11. CASE UNCHANGED vars
  BY <1>1, <1>11 DEF vars, draws
<1> QED
  BY <1>3, <1>4, <1>5, <1>6, <1>7, <1>8, <1>9, <1>10, <1>11 DEF Next

\* What platform staff publish for all tenants is one result, also after a publication that broke off half way and when
\* two overlap (results.service.ts: publishPlatform), unless a draw was closed between the looks of two that overlap.
THEOREM PlatformPublishesOne == Spec => []PlatformAgrees
<1>1. Init => PlatformInv
  BY DEF Init, PlatformInv, PublicationsOK, PlatformAgrees, None
<1>2. PlatformInv => PlatformAgrees
  BY DEF PlatformInv, PlatformAgrees
<1> QED
  BY <1>1, <1>2, FeedInvariant, PlatformStep, PTL DEF Spec

\* A result tickets were paid on is not changed by a correction, an edit or a publication.
THEOREM PaidResultIsFinal == Spec => PaidIsFinal
<1>1. FeedInv /\ [Next]_vars => [\A t \in Tenants : paid[t] => result'[t] = result[t]]_vars
  <2> SUFFICES ASSUME FeedInv, Next, NEW t \in Tenants, paid[t]
               PROVE  result'[t] = result[t]
    OBVIOUS
  <2>1. status[t] = "RESULT_PUBLISHED" /\ DOMAIN result = Tenants
    BY DEF FeedInv, DrawsOK
  <2>2. ASSUME NEW u, NEW source, NEW keys, NEW stamp, Store(u, source, keys, stamp),
               Editable(u) \/ Publishable(u)
        PROVE  result'[t] = result[t]
    <3>1. u # t
      BY <2>1, <2>2 DEF Editable, Publishable
    <3> QED
      BY <2>1, <2>2, <3>1 DEF Store
  <2>3. CASE \E id \in Ids : Announce(id[1], id[2])
    BY <2>3 DEF Announce, draws
  <2>4. CASE \E i \in 1..MaxSaid : Webhook(i)
    BY <2>4 DEF Webhook, draws
  <2>5. CASE \E u \in Tenants : Close(u) \/ Pay(u)
    BY <2>5 DEF Close, Pay
  <2>6. CASE \E u \in Tenants : \E keys \in Results : EditPlatform(u, keys)
    BY <2>2, <2>6 DEF EditPlatform
  <2>7. CASE \E s \in Staff : PublishBreaksOff(s) \/ \E keys \in Results : PublishPlatform(s, keys)
    BY <2>7 DEF PublishBreaksOff, PublishPlatform, draws
  <2>8. CASE \E s \in Staff : PublishNext(s)
    BY <2>2, <2>8 DEF PublishNext
  <2>9. ASSUME NEW r \in Replicas, Tick(r) \/ Task(r) \/ ApplyThrows(r) \/ BreakOff(r)
        PROVE  result'[t] = result[t]
    <3>1. CASE WriteDraw(r)
      BY <2>2, <3>1 DEF WriteDraw
    <3>2. CASE Tick(r) \/ ApplyThrows(r) \/ BreakOff(r)
      BY <3>2 DEF Tick, ApplyThrows, BreakOff, draws
    <3>3. CASE Claim(r) \/ Reconcile(r) \/ Resolve(r)
      BY <3>3 DEF Claim, Reconcile, Resolve, draws
    <3>4. CASE ReadDraw(r) \/ Applied(r) \/ EndTick(r)
      BY <3>4 DEF ReadDraw, Applied, EndTick, draws
    <3> QED
      BY <2>9, <3>1, <3>2, <3>3, <3>4 DEF Task
  <2> QED
    BY <2>3, <2>4, <2>5, <2>6, <2>7, <2>8, <2>9 DEF Next
<1> QED
  BY <1>1, FeedInvariant, PTL DEF Spec, PaidIsFinal
=============================================================================
