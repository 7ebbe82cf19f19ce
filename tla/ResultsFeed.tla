---------------------------- MODULE ResultsFeed ----------------------------
(***************************************************************************)
(* How a drawing's result gets from the provider to the draws of every     *)
(* tenant: announcements and corrections, webhook and poll, the table of   *)
(* events with its deduplication, the job that claims and applies them,    *)
(* the pairing of Pick 3 with Pick 4, and platform staff who publish and   *)
(* edit results themselves meanwhile.                                      *)
(*                                                                         *)
(* One drawing, on one date at one time.  What a publication does to       *)
(* tickets is the matter of TicketLifecycle; here it is one serializable   *)
(* step on a draw.                                                         *)
(***************************************************************************)
EXTENDS Integers, FiniteSets, SequencesExt

CONSTANTS
    Tenants,      \* the ones that have a draw of this drawing, by their ids
    Replicas,
    Staff,        \* platform staff who may publish at one time
    Bindings,     \* the sets of lotteries a catalogue game may be bound to
    Numbers,      \* what each lottery may draw
    MaxAttempts,
    MaxSaid,      \* bound: announcements of the provider
    MaxTrouble    \* bound: publications, edits and payouts, crashes and refused
                  \* transactions, together: with one lottery, and with a pair

ASSUME FeedAssumption ==
    /\ Tenants \subseteq Nat
    /\ \A b \in Bindings : \E p, q \in b : b = {p, q}
    /\ MaxAttempts \in Nat /\ MaxSaid \in Nat /\ MaxTrouble \in Seq(Nat)

VARIABLES
    parts,       \* the lotteries bound: one, or PICK3 and PICK4
    said,        \* what the provider announced, in order; the index is published_at
    events,      \* rows of ProviderResultEvent, by dedupeKey
    queue,       \* their keys in the order of createdAt
    status,      \* Draw.status
    result,      \* Draw.result
    paid,        \* has a ticket of the draw been paid?
    job,         \* where a replica's tick stands
    platform,    \* the publication each of the platform staff has under way
    overlapped,  \* have two ticks ever run at a time?
    parted,      \* have two publications ever overlapped that found different draws?
    trouble      \* how much of MaxTrouble has been used

vars == <<parts, said, events, queue, status, result, paid, job, platform, overlapped, parted, trouble>>
table == <<events, queue>>
draws == <<status, result, paid>>
feed == <<parts, said, table>>

None == [source |-> "NONE", keys |-> <<>>, at |-> 0]
Idle == [at |-> "idle", todo |-> <<>>, id |-> <<>>, claimed |-> FALSE, keys |-> <<>>,
         stamp |-> 0, left |-> {}, draw |-> {}, edit |-> FALSE]
NoPublication == [seen |-> {}, left |-> {}, keys |-> <<>>]

Init ==
    /\ parts \in Bindings
    /\ said = <<>> /\ queue = <<>>
    /\ events = <<>>
    /\ status = [t \in Tenants |-> "OPEN"]
    /\ result = [t \in Tenants |-> None]
    /\ paid = [t \in Tenants |-> FALSE]
    /\ job = [r \in Replicas |-> Idle]
    /\ platform = [s \in Staff |-> NoPublication]
    /\ overlapped = FALSE /\ parted = FALSE
    /\ trouble = 0

Results == {keys \in [parts -> UNION {Numbers[p] : p \in parts}] : \A p \in parts : keys[p] \in Numbers[p]}
Ids == UNION {{p} \X Numbers[p] : p \in parts}

TypeOK ==
    /\ Len(said) <= MaxSaid /\ \A i \in DOMAIN said : said[i] \in Ids
    /\ DOMAIN events = ToSet(queue) /\ IsInjective(queue)
    /\ \A id \in DOMAIN events :
          events[id] \in [status : {"PENDING", "PROCESSING", "FAILED", "APPLIED", "WAITING"},
                          tries : Nat, stamp : 1..MaxSaid]
    /\ status \in [Tenants -> {"OPEN", "CLOSED", "RESULT_PUBLISHED"}]
    /\ \A t \in Tenants : /\ status[t] = "RESULT_PUBLISHED" <=> result[t].keys \in Results
                          /\ paid[t] => status[t] = "RESULT_PUBLISHED"
    /\ \A r \in Replicas : /\ job[r].at \in {"idle", "events", "again",
                                             "resolve", "draws", "write"}
                           /\ job[r].left \subseteq Tenants

-----------------------------------------------------------------------------
(* The provider, the webhook and the clock. *)

Current(p) == {i \in DOMAIN said : said[i][1] = p /\ \A j \in i + 1..Len(said) : said[j][1] # p}

Announce(p, n) ==
    /\ Len(said) < MaxSaid
    /\ \A i \in Current(p) : said[i][2] # n
    /\ said' = Append(said, <<p, n>>)
    /\ UNCHANGED <<parts, table, draws, job, platform, overlapped, parted, trouble>>

(* The key is made of lottery, date, type and numbers: what is known is kept. *)
Enqueue(news) ==
    LET ids == [k \in DOMAIN news |-> said[news[k]]] IN
    /\ queue' = queue \o ids
    /\ events' = [id \in DOMAIN events \cup ToSet(ids) |->
                     IF id \in DOMAIN events THEN events[id]
                     ELSE [status |-> "PENDING", tries |-> 0,
                           stamp |-> CHOOSE i \in ToSet(news) : said[i] = id]]

(* A webhook may come late, twice or not at all. *)
Webhook(i) ==
    /\ i \in DOMAIN said /\ said[i] \notin DOMAIN events
    /\ Enqueue(<<i>>)
    /\ UNCHANGED <<parts, said, draws, job, platform, overlapped, parted, trouble>>

Close(t) ==
    /\ status[t] = "OPEN" /\ status' = [status EXCEPT ![t] = "CLOSED"]
    /\ UNCHANGED <<feed, result, paid, job, platform, overlapped, parted, trouble>>

-----------------------------------------------------------------------------
(* Draws are published and edited in serializable transactions. *)

Store(t, source, keys, stamp) ==
    /\ result' = [result EXCEPT ![t] = [source |-> source, keys |-> keys, at |-> stamp]]
    /\ status' = [status EXCEPT ![t] = "RESULT_PUBLISHED"]

Publishable(t) == status[t] = "CLOSED"
(* A mutant: paid tickets are not looked for. *)
EditablePaid(t) == status[t] = "RESULT_PUBLISHED"
Editable(t) == status[t] = "RESULT_PUBLISHED" /\ ~paid[t]

Trouble == trouble < MaxTrouble[Cardinality(parts)] /\ trouble' = trouble + 1

Pay(t) ==
    /\ Trouble /\ status[t] = "RESULT_PUBLISHED" /\ ~paid[t]
    /\ paid' = [paid EXCEPT ![t] = TRUE]
    /\ UNCHANGED <<feed, status, result, job, platform, overlapped, parted>>

EditPlatform(t, keys) ==
    /\ Trouble /\ Editable(t)
    /\ Store(t, "EDITED", keys, 0)
    /\ UNCHANGED <<feed, paid, job, platform, overlapped, parted>>

Matching == {t \in Tenants : status[t] \in {"CLOSED", "RESULT_PUBLISHED"}}

(* A mutant: results that are out already are not compared. *)
AgreesAlways(keys) == Matching # {}
Agrees(keys) == Matching # {} /\ \A t \in Matching :
                                    status[t] = "RESULT_PUBLISHED" => result[t].keys = keys

Publication(seen, left, keys) ==
    IF left = {} THEN NoPublication ELSE [seen |-> seen, left |-> left, keys |-> keys]

(* The draws are looked at once, without a lock: two may be at it at a time. *)
PublishPlatform(s, keys) ==
    /\ Trouble /\ platform[s] = NoPublication
    /\ Agrees(keys)
    /\ platform' = [platform EXCEPT ![s] = Publication(Matching, {t \in Matching : Publishable(t)}, keys)]
    /\ parted' = (parted \/ \E o \in Staff : platform[o] # NoPublication /\ platform[o].seen # Matching)
    /\ UNCHANGED <<feed, draws, job, overlapped>>

IsNext(s, t) == t \in platform[s].left /\ \A u \in platform[s].left : t <= u

(* Tenant after tenant, each in its own transaction; one refused ends the rest. *)
PublishNext(s) ==
    /\ \E t \in Tenants :
          /\ IsNext(s, t)
          /\ IF Publishable(t)
             THEN /\ Store(t, "STAFF", platform[s].keys, 0)
                  /\ platform' = [platform EXCEPT ![s] = Publication(@.seen, @.left \ {t}, @.keys)]
             ELSE platform' = [platform EXCEPT ![s] = NoPublication] /\ UNCHANGED <<status, result>>
    /\ UNCHANGED <<feed, paid, job, overlapped, parted, trouble>>

PublishBreaksOff(s) ==
    /\ platform[s] # NoPublication
    /\ platform' = [platform EXCEPT ![s] = NoPublication]
    /\ UNCHANGED <<feed, draws, job, overlapped, parted, trouble>>

-----------------------------------------------------------------------------
(* The job of a replica. *)

Job(r, new) == job' = [job EXCEPT ![r] = new]

(* A mutant: what failed is not tried again. *)
DueOnce(event) == event.status = "PENDING"
Due(event) == event.status \in {"PENDING", "FAILED"} /\ event.tries < MaxAttempts

(* The places of S in the queue, in their order. *)
InOrder(S) == {f \in SetToSeqs(S) : \A i, j \in DOMAIN f : i < j => f[i] < f[j]}

(* pollLotteryResultsFeed asks for what is announced now; then processProvider- *)
(* Events takes what is due, the oldest first.                                  *)
Tick(r) ==
    /\ job[r] = Idle
    /\ \E news \in SetToSeqs({i \in UNION {Current(p) : p \in parts} : said[i] \notin DOMAIN events}) :
          /\ Enqueue(news)
          /\ \E due \in InOrder({i \in DOMAIN queue' : Due(events'[queue'[i]])}) :
                Job(r, [Idle EXCEPT !.at = "events",
                              !.todo = [k \in DOMAIN due |-> <<queue'[due[k]], events'[queue'[due[k]]].status>>]])
    /\ overlapped' = (overlapped \/ \E s \in Replicas : job[s] # Idle)
    /\ UNCHANGED <<parts, said, draws, platform, parted, trouble>>

Claim(r) ==
    /\ job[r].at = "events" /\ job[r].todo # <<>>
    /\ LET id == Head(job[r].todo)[1] IN
       IF events[id].status = Head(job[r].todo)[2]
       THEN /\ events' = [events EXCEPT ![id].status = "PROCESSING", ![id].tries = @ + 1]
            /\ Job(r, [job[r] EXCEPT !.at = "resolve", !.id = id, !.claimed = TRUE, !.todo = Tail(@)])
       ELSE Job(r, [job[r] EXCEPT !.todo = Tail(@)]) /\ UNCHANGED events
    /\ UNCHANGED <<parts, said, queue, draws, platform, overlapped, parted, trouble>>

(* reconcileAppliedPick3Pick4Events: the newest first, without claiming them. *)
Reconcile(r) ==
    /\ job[r].at = "events" /\ job[r].todo = <<>> /\ "PICK3" \in parts
    /\ LET Again(id) == id[1] = "PICK3" /\ events[id].status \in {"APPLIED", "WAITING"}
       IN  \E again \in InOrder({i \in DOMAIN queue : Again(queue[i])}) :
              Job(r, [Idle EXCEPT !.at = "again", !.todo = Reverse([k \in DOMAIN again |-> queue[again[k]]])])
    /\ UNCHANGED <<feed, draws, platform, overlapped, parted, trouble>>

EndTick(r) ==
    /\ job[r].at \in {"events", "again"} /\ job[r].todo = <<>>
    /\ Job(r, Idle)
    /\ UNCHANGED <<feed, draws, platform, overlapped, parted, trouble>>

(* latestLotteryResultsFeedEvent: the latest by published_at, then by createdAt. *)
Latest(p) ==
    LET known == {id \in DOMAIN events : id[1] = p}
    IN  {id \in known : \A x \in known : events[x].stamp <= events[id].stamp}

(* The event is done with: the next one. *)
Onward(r, id, outcome) ==
    /\ events' = IF job[r].claimed \/ outcome = "APPLIED"
                 THEN [events EXCEPT ![id].status = outcome] ELSE events
    /\ Job(r, [Idle EXCEPT !.at = IF job[r].claimed THEN "events" ELSE "again",
                           !.todo = IF job[r].at = "again" THEN Tail(job[r].todo) ELSE job[r].todo])

(* The event's own numbers, or for a pair the latest of both lotteries. *)
Sources(id, p) == IF Cardinality(parts) = 1 THEN {id} ELSE Latest(p)

(* applyLotteryResultsFeed works out the winning keys and their age. *)
Apply(r, id, rest) ==
    IF \E p \in parts : Sources(id, p) = {}
    THEN Onward(r, id, "WAITING")
    ELSE /\ \E ids \in [parts -> DOMAIN events] :
               /\ \A p \in parts : ids[p] \in Sources(id, p)
               /\ Job(r, [job[r] EXCEPT !.at = "draws", !.id = id, !.todo = rest, !.left = Tenants,
                            !.keys = [p \in parts |-> ids[p][2]],
                            !.stamp = Max({events[ids[p]].stamp : p \in parts})])
         /\ UNCHANGED events

Resolve(r) ==
    /\ \/ job[r].at = "resolve" /\ Apply(r, job[r].id, job[r].todo)
       \/ /\ job[r].at = "again" /\ job[r].todo # <<>>
          /\ Apply(r, Head(job[r].todo), Tail(job[r].todo))
    /\ UNCHANGED <<parts, said, queue, draws, platform, overlapped, parted, trouble>>

(* A mutant: the age of a result is not looked at. *)
CorrectsAlways(stored, keys, stamp) == stored.source = "FEED" /\ stored.keys # keys

(* provider-result-correction-policy: managed by the feed, different, not newer. *)
Corrects(stored, keys, stamp) ==
    stored.source = "FEED" /\ stored.keys # keys /\ stored.at <= stamp

(* For each game of the catalogue code: look at its draw ... *)
ReadDraw(r) ==
    /\ job[r].at = "draws"
    /\ \E t \in job[r].left :
          Job(r, IF status[t] = "RESULT_PUBLISHED" /\ ~Corrects(result[t], job[r].keys, job[r].stamp)
                 THEN [job[r] EXCEPT !.left = @ \ {t}]
                 ELSE [job[r] EXCEPT !.at = "write", !.left = @ \ {t}, !.draw = {t},
                                     !.edit = (status[t] = "RESULT_PUBLISHED")])
    /\ UNCHANGED <<feed, draws, platform, overlapped, parted, trouble>>

(* ... then publish or edit it.  What throws leaves the other draws alone. *)
WriteDraw(r) ==
    /\ job[r].at = "write"
    /\ \E t \in job[r].draw :
          IF (job[r].edit /\ Editable(t)) \/ (~job[r].edit /\ Publishable(t))
          THEN /\ Store(t, "FEED", job[r].keys, job[r].stamp)
               /\ Job(r, [job[r] EXCEPT !.at = "draws", !.draw = {}])
               /\ UNCHANGED events
          ELSE Onward(r, job[r].id, "FAILED") /\ UNCHANGED <<status, result>>
    /\ UNCHANGED <<parts, said, queue, paid, platform, overlapped, parted, trouble>>

Applied(r) ==
    /\ job[r].at = "draws" /\ job[r].left = {}
    /\ Onward(r, job[r].id, "APPLIED")
    /\ UNCHANGED <<parts, said, queue, draws, platform, overlapped, parted, trouble>>

(* A transaction refused or out of time. *)
ApplyThrows(r) ==
    /\ job[r].at = "write" /\ Trouble
    /\ Onward(r, job[r].id, "FAILED")
    /\ UNCHANGED <<parts, said, queue, draws, platform, overlapped, parted>>

(* The feed answers 429, or the replica restarts: an event stays PROCESSING. *)
BreakOff(r) ==
    /\ job[r] # Idle /\ Trouble
    /\ Job(r, Idle)
    /\ UNCHANGED <<feed, draws, platform, overlapped, parted>>

Task(r) ==
    \/ Claim(r) \/ Reconcile(r)
    \/ Resolve(r) \/ ReadDraw(r) \/ WriteDraw(r) \/ Applied(r) \/ EndTick(r)

Next ==
    \/ \E id \in Ids : Announce(id[1], id[2])
    \/ \E i \in 1..MaxSaid : Webhook(i)
    \/ \E t \in Tenants : Close(t) \/ Pay(t) \/ \E keys \in Results : EditPlatform(t, keys)
    \/ \E s \in Staff : \/ \E keys \in Results : PublishPlatform(s, keys)
                       \/ PublishNext(s) \/ PublishBreaksOff(s)
    \/ \E r \in Replicas : Tick(r) \/ Task(r) \/ ApplyThrows(r) \/ BreakOff(r)

(* The timers fire again and again, ticks get on, and draws are closed. *)
Fairness ==
    /\ \A r \in Replicas : WF_vars(Tick(r)) /\ WF_vars(Task(r))
    /\ \A t \in Tenants : WF_vars(Close(t))

Spec == Init /\ [][Next]_vars /\ Fairness

-----------------------------------------------------------------------------
(* Once everything known is applied, a result the feed manages is the      *)
(* newest one known, whatever order announcements came and were tried in:  *)
(* as long as two ticks never ran at a time.                               *)
NewestWins ==
    (/\ ~overlapped /\ \A r \in Replicas : job[r] = Idle
     /\ \A id \in DOMAIN events : events[id].status = "APPLIED") =>
        \A t \in Tenants : result[t].source = "FEED" =>
            \A p \in parts : <<p, result[t].keys[p]>> \in Latest(p)

(* What platform staff publish for all tenants is one result, also when a  *)
(* publication broke off half way and another was begun after it, and when *)
(* two overlap: unless the later one of two that overlap found draws that  *)
(* were not closed yet when the earlier one looked.                        *)
PlatformAgrees ==
    ~parted =>
        \A t, u \in Tenants :
            result[t].source = "STAFF" /\ result[u].source = "STAFF" => result[t].keys = result[u].keys

(* A result that tickets were paid on never changes. *)
PaidIsFinal == [][\A t \in Tenants : paid[t] => result'[t] = result[t]]_vars

(* What may keep the feed from a draw. *)
Held ==
    \/ trouble > 0 \/ overlapped
    \/ \E i, j \in DOMAIN said : i # j /\ said[i] = said[j]      \* back to what was said before
    \/ \E id \in DOMAIN events : events[id].status = "FAILED" /\ events[id].tries = MaxAttempts

(* Left alone, the feed brings the last result announced to every draw. *)
FeedGetsThrough ==
    \A t \in Tenants :
        \/ <>Held
        \/ <>[](\A p \in parts : Current(p) # {}  =>
                  \/ \E q \in parts : Current(q) = {}
                  \/ \E i \in Current(p) : result[t].source = "FEED" /\ said[i] = <<p, result[t].keys[p]>>)
=============================================================================
