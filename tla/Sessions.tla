------------------------------ MODULE Sessions ------------------------------
(***************************************************************************)
(* The sessions of one merchant's account: the tabs and phones that log    *)
(* in, rotate their refresh token and keep what they get, and the account  *)
(* they authenticate, which its owner and the tenant's staff change.       *)
(*                                                                         *)
(* A pair is the access and the refresh token of one answer.  Tabs of one  *)
(* device share its localStorage and renew under one Web Lock, where the   *)
(* browser has them; each keeps a copy of its own in React state, used     *)
(* when the storage is empty.                                              *)
(*                                                                         *)
(* A handler reads the account first and writes later; refresh writes in a *)
(* transaction whose new row a revocation under way does not see.          *)
(***************************************************************************)
EXTENDS Naturals, Sequences, FiniteSets

CONSTANTS
    Tabs,         \* browser tabs and phones, one request each at a time
    Device,       \* the device, and so the storage, of a tab
    MaxPairs,     \* bound: pairs issued
    MaxChanges,   \* bound: changes of tokenVersion
    MaxResets,    \* bound: reset links mailed
    MaxTokens,    \* bound: pairs and reset links together
    MaxLapses     \* bound: tokens that expire and answers that get lost

ASSUME SessionsAssumption ==
    /\ MaxPairs \in Nat /\ MaxChanges \in Nat /\ MaxResets \in Nat /\ MaxLapses \in Nat
    /\ MaxTokens \in Nat
    /\ DOMAIN Device = Tabs /\ IsFiniteSet(Tabs)

VARIABLES
    locks,     \* does the browser have Web Locks?
    user,      \* [status, version, force] of the account, and its revocations so far
    pairs,     \* the pairs issued: the row of the refresh token, the age of the two
    store,     \* localStorage of a device: the pair it holds, or 0
    mem,       \* React state of a tab: the pair it holds, or 0
    pc,        \* where the tab's request stands
    failed,    \* the pair whose access token was refused
    sent,      \* the pair presented for renewal
    spare,     \* was it the tab's own copy, the storage being empty?
    saw,       \* the account's counters as the handler of the tab's request read them
    resets,    \* PasswordResetToken rows: "none", "open", "used" or "lapsed"
    asking,    \* handlers that mail a link, by the links there were when they looked
    mailed,    \* of each link: the links its transaction saw, and the links used before it
    redeeming, \* handlers that found a reset token usable
    redeemed,  \* passwords set by a reset token
    lapses

linkVars == <<resets, asking, mailed, redeeming, redeemed>>
account == <<locks, user, linkVars>>
client  == <<store, mem, failed, sent, spare>>
vars == <<locks, user, pairs, store, mem, pc, failed, sent, spare, saw,
          linkVars, lapses>>

Devices == {Device[t] : t \in Tabs}
Ids == DOMAIN pairs
AtServer == {"read", "claim", "commit"}
Critical == AtServer \cup {"granted"}
Links == 1..MaxResets

Counters == [version : 0..MaxChanges, revocations : 0..MaxChanges]
Users == [status : {"ACTIVE", "DISABLED"}, version : 0..MaxChanges,
          force : BOOLEAN, revocations : 0..MaxChanges]

TypeOK ==
    /\ locks \in BOOLEAN
    /\ user \in Users
    /\ pairs \in Seq([row : {"live", "claimed", "rotated", "revoked"},
                      age : {"fresh", "stale", "expired"},
                      version : 0..MaxChanges, since : 0..MaxChanges,
                      from : 0..MaxPairs, late : BOOLEAN, lost : BOOLEAN])
    /\ Len(pairs) <= MaxPairs
    /\ store \in [Devices -> 0..Len(pairs)]
    /\ mem \in [Tabs -> 0..Len(pairs)]
    /\ pc \in [Tabs -> {"idle", "login", "renew", "refused", "verified"} \cup Critical]
    /\ failed \in [Tabs -> 0..Len(pairs)]
    /\ sent \in [Tabs -> 0..Len(pairs)]
    /\ spare \in [Tabs -> BOOLEAN]
    /\ saw \in [Tabs -> Counters]
    /\ resets \in [Links -> {"none", "open", "used", "lapsed"}]
    /\ asking \in [0..MaxResets -> 0..MaxResets]
    /\ mailed \in [Links -> [after : 0..MaxResets, used : SUBSET Links]]
    /\ redeeming \in [Links -> 0..2]
    /\ redeemed \in [Links -> 0..2]
    /\ lapses \in 0..MaxLapses

Nothing == [version |-> 0, revocations |-> 0]
Counts(u) == [version |-> u.version, revocations |-> u.revocations]
NewUser == [status |-> "ACTIVE", version |-> 0, force |-> FALSE, revocations |-> 0]

Init ==
    /\ locks \in BOOLEAN
    /\ user = NewUser
    /\ pairs = <<>>
    /\ store = [d \in Devices |-> 0]
    /\ mem = [t \in Tabs |-> 0]
    /\ pc = [t \in Tabs |-> "idle"]
    /\ failed = [t \in Tabs |-> 0]
    /\ sent = [t \in Tabs |-> 0]
    /\ spare = [t \in Tabs |-> FALSE]
    /\ saw = [t \in Tabs |-> Nothing]
    /\ resets = [i \in Links |-> "none"]
    /\ asking = [n \in 0..MaxResets |-> 0]
    /\ mailed = [i \in Links |-> [after |-> 0, used |-> {}]]
    /\ redeeming = [i \in Links |-> 0]
    /\ redeemed = [i \in Links |-> 0]
    /\ lapses = 0

(* The links mailed; their numbers follow each other. *)
Mailed == {i \in Links : resets[i] # "none"}

(* Room for the pair that each request under way may still be given. *)
Waiting == {t \in Tabs : pc[t] \notin {"idle", "granted", "refused", "verified"}}
Room ==
    /\ Len(pairs) + Cardinality(Waiting) < MaxPairs
    /\ \A n \in 0..MaxResets : Len(pairs) + Cardinality(Waiting) + Cardinality(Mailed) + asking[n] < MaxTokens
Held(t) == IF store[Device[t]] # 0 THEN store[Device[t]] ELSE mem[t]

-----------------------------------------------------------------------------
(* The rows.  A row that a transaction under way has claimed is locked: a   *)
(* revocation waits for it and then finds it rotated.                       *)

(* A mutant: only the sessions whose access token is still good. *)
RevokedFresh(ps) == [i \in DOMAIN ps |->
                        IF ps[i].row = "live" /\ ps[i].age = "fresh"
                        THEN [ps[i] EXCEPT !.row = "revoked"] ELSE ps[i]]


Revoked(ps) == [i \in DOMAIN ps |->
                   IF ps[i].row = "live" THEN [ps[i] EXCEPT !.row = "revoked"] ELSE ps[i]]

(* A pair for an account read as u by a session that began at `since`. *)
Issued(u, from, since, late) ==
    [row |-> "live", age |-> "fresh", version |-> u.version, since |-> since,
     from |-> from, late |-> late \/ u.revocations # user.revocations, lost |-> FALSE]

(* Every revocation of an account's sessions by a change of the account. *)
RevokeAndChange(u) ==
    /\ user.version < MaxChanges
    /\ user' = [u EXCEPT !.version = @ + 1, !.revocations = @ + 1]
    /\ pairs' = Revoked(pairs)

-----------------------------------------------------------------------------
(* The tabs and phones. *)

LoginRead(t) ==
    /\ pc[t] = "idle" /\ Room
    /\ user.status = "ACTIVE"
    /\ pc' = [pc EXCEPT ![t] = "login"]
    /\ saw' = [saw EXCEPT ![t] = Counts(user)]
    /\ UNCHANGED <<account, pairs, client, lapses>>

(* AuthService.login once the password, checked against what was read, is *)
(* right: the pair it issues and answers.                                 *)
LoginPair(t) == Issued(saw[t], 0, saw[t].revocations, FALSE)

(* The pair is issued and kept in the storage and by the tab.             *)
LoginIssue(t) ==
    /\ pc[t] = "login"
    /\ pairs' = Append(pairs, LoginPair(t))
    /\ store' = [store EXCEPT ![Device[t]] = Len(pairs')]
    /\ mem' = [mem EXCEPT ![t] = Len(pairs')]
    /\ pc' = [pc EXCEPT ![t] = "idle"]
    /\ saw' = [saw EXCEPT ![t] = Nothing]
    /\ UNCHANGED <<account, failed, sent, spare, lapses>>

(* What the guard in front of every handler accepts. *)
Accepted(i) ==
    /\ pairs[i].age = "fresh"
    /\ user.status = "ACTIVE"
    /\ pairs[i].version = user.version

(* A call the guard refuses makes the tab renew its session. *)
CallRefused(t) ==
    /\ pc[t] = "idle" /\ Room
    /\ Held(t) # 0
    /\ ~(Accepted(Held(t)) /\ ~user.force)
    /\ failed' = [failed EXCEPT ![t] = Held(t)]
    /\ pc' = [pc EXCEPT ![t] = "renew"]
    /\ UNCHANGED <<account, pairs, store, mem, sent, spare, saw, lapses>>

Forget(t) ==
    /\ pc' = [pc EXCEPT ![t] = "idle"]
    /\ failed' = [failed EXCEPT ![t] = 0]
    /\ sent' = [sent EXCEPT ![t] = 0]
    /\ spare' = [spare EXCEPT ![t] = FALSE]
    /\ saw' = [saw EXCEPT ![t] = Nothing]

DropTokens(t) ==
    /\ store' = [store EXCEPT ![Device[t]] = 0]
    /\ mem' = [mem EXCEPT ![t] = 0]

(* A mutant: the tab's own copy first. *)
ToPresentOwn(t) == IF mem[t] # 0 THEN mem[t] ELSE store[Device[t]]

(* What the tab presents for renewal: the storage is read again once the   *)
(* lock is held, and the tab's own copy stands in when it is empty.        *)
ToPresent(t) == Held(t)

LockFree(t) == locks => \A o \in Tabs \ {t} : Device[o] = Device[t] => pc[o] \notin Critical

(* Refused, or with nothing to present: the lock is released, and the app  *)
(* has still to log out.                                                   *)
Refused(t) ==
    /\ pc' = [pc EXCEPT ![t] = "refused"]
    /\ sent' = [sent EXCEPT ![t] = 0]
    /\ saw' = [saw EXCEPT ![t] = Nothing]

(* Enter the critical section: another tab may have renewed meanwhile. *)
Renew(t) ==
    /\ pc[t] = "renew" /\ LockFree(t)
    /\ IF store[Device[t]] \notin {0, failed[t]}
       THEN /\ mem' = [mem EXCEPT ![t] = store[Device[t]]]
            /\ Forget(t)
            /\ UNCHANGED store
       ELSE IF ToPresent(t) = 0
       THEN /\ Refused(t)
            /\ failed' = [failed EXCEPT ![t] = 0]
            /\ UNCHANGED <<spare, store, mem>>
       ELSE /\ sent' = [sent EXCEPT ![t] = ToPresent(t)]
            /\ spare' = [spare EXCEPT ![t] = store[Device[t]] = 0]
            /\ pc' = [pc EXCEPT ![t] = "read"]
            /\ failed' = [failed EXCEPT ![t] = 0]
            /\ UNCHANGED <<store, mem, saw>>
    /\ UNCHANGED <<account, pairs, lapses>>

(* The handler of /auth/refresh reads the row and its account. *)
RefreshRead(t) ==
    /\ pc[t] = "read"
    /\ spare' = [spare EXCEPT ![t] = FALSE]
    /\ LET p == pairs[sent[t]] IN
       \/ /\ p.row \in {"rotated", "revoked"}        \* reuse detected
          /\ pairs' = Revoked(pairs)
          /\ Refused(t)
       \/ /\ p.row \in {"live", "claimed"}
          /\ p.age = "expired" \/ user.status # "ACTIVE"
          /\ Refused(t)
          /\ UNCHANGED pairs
       \/ /\ p.row \in {"live", "claimed"}
          /\ p.age # "expired" /\ user.status = "ACTIVE"
          /\ pc' = [pc EXCEPT ![t] = "claim"]
          /\ saw' = [saw EXCEPT ![t] = Counts(user)]
          /\ UNCHANGED <<pairs, sent>>
    /\ UNCHANGED <<account, store, mem, failed, lapses>>

(* A mutant: the row is claimed by id alone. *)
RefreshClaimById(t) ==
    /\ pc[t] = "claim"
    /\ pairs[sent[t]].row # "claimed"
    /\ pairs' = [pairs EXCEPT ![sent[t]].row = "claimed"]
    /\ pc' = [pc EXCEPT ![t] = "commit"]
    /\ UNCHANGED <<account, client, saw, lapses>>


RefreshClaim(t) ==
    /\ pc[t] = "claim"
    /\ pairs[sent[t]].row # "claimed"                \* waits for its lock
    /\ IF pairs[sent[t]].row = "live"
       THEN /\ pairs' = [pairs EXCEPT ![sent[t]].row = "claimed"]
            /\ pc' = [pc EXCEPT ![t] = "commit"]
            /\ UNCHANGED <<sent, saw>>
       ELSE Refused(t) /\ UNCHANGED pairs
    /\ UNCHANGED <<account, store, mem, failed, spare, lapses>>

(* The transaction ends with the next pair, for the account as it was read. *)
RefreshCommit(t) ==
    /\ pc[t] = "commit"
    /\ pairs' = LET p == pairs[sent[t]] IN
                Append([pairs EXCEPT ![sent[t]].row = "rotated"],
                       Issued(saw[t], sent[t], p.since, p.late))
    /\ pc' = [pc EXCEPT ![t] = "granted"]
    /\ saw' = [saw EXCEPT ![t] = Nothing]
    /\ UNCHANGED <<account, client, lapses>>

(* The pair that answers tab t's request. *)
Granted(t) == CHOOSE i \in Ids : pairs[i].from = sent[t]

Receive(t) ==
    /\ pc[t] = "granted"
    /\ store' = [store EXCEPT ![Device[t]] = Granted(t)]
    /\ mem' = [mem EXCEPT ![t] = Granted(t)]
    /\ Forget(t)
    /\ UNCHANGED <<account, pairs, lapses>>

(* The refused app logs out, whatever another tab has stored meanwhile. *)
ReceiveRefusal(t) ==
    /\ pc[t] = "refused"
    /\ DropTokens(t)
    /\ Forget(t)
    /\ UNCHANGED <<account, pairs, lapses>>

(* The answer is lost, or the page is reloaded before it arrives. *)
LoseAnswer(t) ==
    /\ pc[t] = "granted" /\ lapses < MaxLapses
    /\ pairs' = [pairs EXCEPT ![sent[t]].lost = TRUE]
    /\ lapses' = lapses + 1
    /\ mem' \in {mem, [mem EXCEPT ![t] = store[Device[t]]]}
    /\ Forget(t)
    /\ UNCHANGED <<account, store>>

(* The logout button: nothing is sent to the server. *)
Logout(t) ==
    /\ pc[t] = "idle" /\ mem[t] # 0
    /\ DropTokens(t)
    /\ UNCHANGED <<account, pairs, pc, failed, sent, spare, saw, lapses>>

(* A page that opens takes up what the storage holds. *)
Reload(t) ==
    /\ pc[t] = "idle" /\ mem[t] # store[Device[t]]
    /\ mem' = [mem EXCEPT ![t] = store[Device[t]]]
    /\ UNCHANGED <<account, pairs, store, pc, failed, sent, spare, saw, lapses>>

(* The access token lapses after 15 minutes, the refresh token after a year. *)
Lapse(i) ==
    /\ lapses < MaxLapses
    /\ pairs[i].row = "live" /\ pairs[i].age # "expired"
    /\ \A t \in Tabs : sent[t] # i
    /\ pairs' = [pairs EXCEPT ![i].age = IF @ = "fresh" THEN "stale" ELSE "expired"]
    /\ lapses' = lapses + 1
    /\ UNCHANGED <<account, client, pc, saw>>

-----------------------------------------------------------------------------
(* The account.  changePassword verifies the current password first; the    *)
(* guard lets it through even when a change is forced.                      *)

VerifyPassword(t) ==
    /\ pc[t] = "idle" /\ Held(t) # 0 /\ Accepted(Held(t))
    /\ user.version < MaxChanges
    /\ pc' = [pc EXCEPT ![t] = "verified"]
    /\ UNCHANGED <<account, pairs, client, saw, lapses>>

(* The app logs out once the password is changed. *)
ChangePassword(t) ==
    /\ pc[t] = "verified"
    /\ IF user.version < MaxChanges
       THEN RevokeAndChange([user EXCEPT !.force = FALSE])
       ELSE UNCHANGED <<user, pairs>>                \* beyond the bound
    /\ DropTokens(t)
    /\ Forget(t)
    /\ UNCHANGED <<locks, linkVars, lapses>>

(* forgotPassword looks whether a link was mailed of late; its transaction  *)
(* uses up the links there are and mails one more.  Two that look at the    *)
(* same time both mail, and need not see each other's when they do.         *)
ForgotLook ==
    /\ user.status = "ACTIVE"
    /\ LET n == Cardinality(Mailed) IN
       /\ \A m \in 0..MaxResets : /\ n + asking[m] < MaxResets
                                 /\ n + asking[m] + Len(pairs) + Cardinality(Waiting) < MaxTokens
       /\ asking' = [asking EXCEPT ![n] = @ + 1]
    /\ UNCHANGED <<locks, user, pairs, client, pc, saw, resets, mailed, redeeming, redeemed, lapses>>

ForgotMail(n) ==
    /\ asking[n] > 0
    /\ asking' = [asking EXCEPT ![n] = @ - 1]
    /\ \E i \in Links : \E k \in n..(i - 1) :
          /\ Mailed = 1..(i - 1)
          /\ resets' = [j \in Links |->
                           IF j = i THEN "open" ELSE IF j <= k /\ resets[j] = "open" THEN "used" ELSE resets[j]]
          /\ mailed' = [mailed EXCEPT ![i] = [after |-> k, used |-> {j \in Links : redeemed[j] # 0}]]
    /\ UNCHANGED <<locks, user, pairs, client, pc, saw, redeeming, redeemed, lapses>>

ResetRead(i) ==
    /\ resets[i] = "open" /\ user.status = "ACTIVE"
    /\ redeeming[i] < 2 /\ \A j \in Links \ {i} : redeeming[i] + redeeming[j] < 2
    /\ redeeming' = [redeeming EXCEPT ![i] = @ + 1]
    /\ UNCHANGED <<locks, user, pairs, client, pc, saw, resets, asking, mailed, redeemed, lapses>>

(* A mutant: the claim asks only whether the link is still valid. *)
ClaimableInTime(i) == resets[i] # "lapsed"


Claimable(i) == resets[i] = "open"

ResetCommit(i) ==
    /\ redeeming[i] > 0
    /\ redeeming' = [redeeming EXCEPT ![i] = @ - 1]
    /\ IF Claimable(i)
       THEN /\ RevokeAndChange([user EXCEPT !.force = FALSE])
            /\ redeemed' = [redeemed EXCEPT ![i] = @ + 1]
            /\ resets' = [j \in Links |-> IF resets[j] = "open" THEN "used" ELSE resets[j]]
       ELSE UNCHANGED <<user, pairs, redeemed, resets>>
    /\ UNCHANGED <<locks, client, pc, saw, asking, mailed, lapses>>

LapseReset(i) ==
    /\ resets[i] = "open" /\ lapses < MaxLapses
    /\ resets' = [resets EXCEPT ![i] = "lapsed"]
    /\ lapses' = lapses + 1
    /\ UNCHANGED <<locks, user, pairs, client, pc, saw, asking, mailed, redeeming, redeemed>>

(* Staff set a temporary password, change the login, disable. *)
AdminReset ==
    /\ user.status = "ACTIVE"
    /\ RevokeAndChange([user EXCEPT !.force = TRUE])
    /\ UNCHANGED <<locks, client, pc, saw, linkVars, lapses>>

ChangeLogin ==
    /\ RevokeAndChange(user)
    /\ UNCHANGED <<locks, client, pc, saw, linkVars, lapses>>

Disable ==
    /\ RevokeAndChange([user EXCEPT !.status = "DISABLED"])
    /\ UNCHANGED <<locks, client, pc, saw, linkVars, lapses>>

(* Neither asks whether the account is disabled nor ends a session. *)
Reactivate ==
    /\ user.version < MaxChanges
    /\ user' = [user EXCEPT !.status = "ACTIVE", !.version = @ + 1]
    /\ UNCHANGED <<locks, pairs, client, pc, saw, linkVars, lapses>>

(* One's own sessions, from an accepted call: all of them, or one. *)
LogoutAll(t) ==
    /\ pc[t] = "idle" /\ Held(t) # 0 /\ Accepted(Held(t)) /\ ~user.force
    /\ RevokeAndChange(user)
    /\ UNCHANGED <<locks, client, pc, saw, linkVars, lapses>>

RevokeSession(t, i) ==
    /\ pc[t] = "idle" /\ Held(t) # 0 /\ Accepted(Held(t)) /\ ~user.force
    /\ pairs[i].row = "live"
    /\ pairs' = [pairs EXCEPT ![i].row = "revoked"]
    /\ UNCHANGED <<account, client, pc, saw, lapses>>

Next ==
    \/ \E t \in Tabs : \/ LoginRead(t) \/ LoginIssue(t) \/ CallRefused(t) \/ Renew(t)
                       \/ RefreshRead(t) \/ RefreshClaim(t) \/ RefreshCommit(t)
                       \/ Receive(t) \/ ReceiveRefusal(t) \/ LoseAnswer(t)
                       \/ ChangePassword(t) \/ Logout(t) \/ Reload(t) \/ VerifyPassword(t) \/ LogoutAll(t)
                       \/ \E i \in Ids : RevokeSession(t, i)
    \/ \E i \in Ids : Lapse(i)
    \/ \E i \in Links : ResetRead(i) \/ ResetCommit(i) \/ LapseReset(i)
    \/ \E n \in 0..MaxResets : ForgotMail(n)
    \/ ForgotLook \/ AdminReset \/ ChangeLogin \/ Disable \/ Reactivate

Spec == Init /\ [][Next]_vars

-----------------------------------------------------------------------------
(* A refresh token is exchanged at most once: no two pairs descend from the *)
(* same one, whatever requests present it (AuthService.refresh).            *)
OneSuccessor == \A i, j \in Ids : (pairs[i].from = pairs[j].from /\ pairs[i].from # 0) => i = j

(* A password change, a new login, disabling or "log out everywhere" leaves *)
(* no session that began before it, unless the request that issued its      *)
(* latest token, or an ancestor's, was under way at that very time.         *)
RevocationReachesAll ==
    \A i \in Ids : (pairs[i].row = "live" /\ ~pairs[i].late) => pairs[i].since = user.revocations

(* The alarm for a stolen token is raised by an app only where an answer was *)
(* lost or a tab fell back on its own copy: with the storage in place, the   *)
(* lock keeps tabs from presenting what another has already exchanged.       *)
ReuseIsExplained ==
    locks => \A t \in Tabs : (pc[t] = "read" /\ pairs[sent[t]].row = "rotated")
                                 => pairs[sent[t]].lost \/ spare[t]

(* A link sets a password only if, since it was mailed, no link has set one  *)
(* and no other link was asked for: not twice, not after a newer link, and   *)
(* not after another link that was asked for at the same time.               *)
(* (AuthService.forgotPassword, resetPassword)                               *)
SetsAsTheLast(i) ==
    redeemed'[i] # redeemed[i] =>
        /\ {j \in Links : redeemed[j] # 0} = mailed[i].used
        /\ \A j \in Mailed : mailed[j].after < i

ResetOnce == [][\A i \in Links : SetsAsTheLast(i)]_vars
=============================================================================
