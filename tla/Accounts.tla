------------------------------ MODULE Accounts ------------------------------
(***************************************************************************)
(* What a tenant's staff set up: branches, merchants, the devices assigned *)
(* to them, and the owners of the tenant; and the limits of the plan.      *)
(*                                                                         *)
(* Every handler looks first - at limits, at the row it edits, at who owns *)
(* the tenant - and writes in a later statement or transaction.  Nothing   *)
(* holds the two together, so handlers under way at the same time work on  *)
(* what they saw.  `overlapped` records whether any two ever did.          *)
(***************************************************************************)
EXTENDS Naturals, FiniteSets

CONSTANTS
    Branches, Merchants, Devices, Owners,   \* rows, used or not yet
    Handlers,                               \* bound: requests handled at one time
    Plans,                                  \* plans, by the number of branches, merchants
                                            \* and devices they allow
    Single                                  \* plans without multi_branch

ASSUME AccountsAssumption ==
    /\ Plans \subseteq Nat /\ Single \subseteq Plans /\ Plans # {}
    /\ IsFiniteSet(Branches) /\ IsFiniteSet(Handlers)
    /\ Owners # {}

VARIABLES
    plan,       \* the plan of the current subscription
    branch,     \* the branches created
    merchant,   \* [status, branch] of a merchant account
    device,     \* [status, branch, merchant] of a device
    owners,     \* active users with the role TENANT_OWNER
    job,        \* what a handler is about to write, by what it saw
    overlapped  \* have two handlers ever been under way at once?

vars == <<plan, branch, merchant, device, owners, job, overlapped>>

Nobody == "nobody"
NoBranch == "none"
Places == Branches \cup {NoBranch}
NoMerchant == [status |-> "none", branch |-> NoBranch]
NoDevice == [status |-> "none", branch |-> NoBranch, merchant |-> Nobody]
Idle == [op |-> "idle"]

Jobs ==
    {Idle} \cup [op : {"branch"}]
    \cup [op : {"merchant"}, branch : Branches]
    \cup [op : {"edit"}, merchant : Merchants, from : Places, branch : Branches]
    \cup [op : {"device"}, branch : Places, merchant : Merchants \cup {Nobody}]
    \cup [op : {"assign"}, device : Devices, branch : Branches, merchant : Merchants \cup {Nobody}]
    \cup [op : {"unblock"}, device : Devices]
    \cup [op : {"unown"}, owner : Owners]

TypeOK ==
    /\ plan \in Plans
    /\ branch \subseteq Branches
    /\ merchant \in [Merchants -> [status : {"none", "ACTIVE", "DISABLED"}, branch : Places]]
    /\ device \in [Devices -> [status : {"none", "PENDING", "OFFLINE", "BLOCKED"},
                               branch : Places, merchant : Merchants \cup {Nobody}]]
    /\ owners \subseteq Owners
    /\ job \in [Handlers -> Jobs]
    /\ overlapped \in BOOLEAN

Init ==
    /\ plan \in Plans
    /\ branch = {}
    /\ merchant = [m \in Merchants |-> NoMerchant]
    /\ device = [d \in Devices |-> NoDevice]
    /\ owners = Owners
    /\ job = [h \in Handlers |-> Idle]
    /\ overlapped = FALSE

-----------------------------------------------------------------------------
(* The limits. *)

Unarchived == {m \in Merchants : merchant[m].status # "none"}
Active == {m \in Merchants : merchant[m].status = "ACTIVE"}
InUse == {d \in Devices : device[d].status \notin {"none", "BLOCKED"}}

(* A mutant: one more branch than the plan allows. *)
BranchRoomLoose == Cardinality(branch) <= plan /\ (branch = {} \/ plan \notin Single)

BranchRoom ==
    /\ branch = {} \/ plan \notin Single
    /\ Cardinality(branch) < plan
MerchantRoom == Cardinality(Unarchived) < plan

DeviceRoom == Cardinality(InUse) < plan

(* The rule for a device: a branch, and no merchant or an active one of it. *)
MayAssign(b, m) ==
    /\ b \in branch
    /\ m # Nobody => m \in Active /\ merchant[m].branch = b

MeetsOthers == overlapped' = (overlapped \/ \E g \in Handlers : job[g] # Idle)

Begin(h, j) ==
    /\ job[h] = Idle
    /\ job' = [job EXCEPT ![h] = j]
    /\ MeetsOthers
    /\ UNCHANGED <<plan, branch, merchant, device, owners>>

End(h) == job' = [job EXCEPT ![h] = Idle] /\ UNCHANGED overlapped

-----------------------------------------------------------------------------
(* First each handler looks. *)

LookAtBranches(h) == BranchRoom /\ Begin(h, [op |-> "branch"])

LookAtMerchants(h) ==
    /\ MerchantRoom
    /\ \E b \in branch : Begin(h, [op |-> "merchant", branch |-> b])

(* update: the branch is the one asked for, or the one it has now. *)
LookAtMerchant(h, m) ==
    /\ m \in Unarchived
    /\ \E b \in branch : Begin(h, [op |-> "edit", merchant |-> m,
                                   from |-> merchant[m].branch, branch |-> b])

(* register, by staff for any branch; enroll, by a merchant for its own. *)
LookForRegistration(h) ==
    /\ DeviceRoom
    /\ \E b \in Branches, m \in Merchants \cup {Nobody} :
          MayAssign(b, m) /\ Begin(h, [op |-> "device", branch |-> b, merchant |-> m])

LookForEnrollment(h) ==
    /\ DeviceRoom
    /\ \E m \in Active : Begin(h, [op |-> "device", branch |-> merchant[m].branch, merchant |-> m])

(* update of a device: what is not asked for stays as it is. *)
LookAtDevice(h, d) ==
    /\ device[d].status # "none"
    /\ \E b \in Branches, m \in Merchants \cup {Nobody} :
          MayAssign(b, m) /\ Begin(h, [op |-> "assign", device |-> d, branch |-> b, merchant |-> m])

LookAtBlocked(h, d) ==
    /\ device[d].status = "BLOCKED" /\ DeviceRoom
    /\ Begin(h, [op |-> "unblock", device |-> d])

(* Demote or disable a user who is an owner: not the last one there is when *)
(* it looks.                                                                *)
MayGo(o) == o \in owners /\ Cardinality(owners) > 1

LookAtOwners(h, o) == MayGo(o) /\ Begin(h, [op |-> "unown", owner |-> o])

-----------------------------------------------------------------------------
(* Then it writes. *)

CreateBranch(h) ==
    /\ job[h].op = "branch"
    /\ \E b \in Branches \ branch : branch' = branch \cup {b}
    /\ End(h)
    /\ UNCHANGED <<plan, merchant, device, owners>>

CreateMerchant(h) ==
    /\ job[h].op = "merchant"
    /\ \E m \in Merchants \ Unarchived :
          merchant' = [merchant EXCEPT ![m] = [status |-> "ACTIVE", branch |-> job[h].branch]]
    /\ End(h)
    /\ UNCHANGED <<plan, branch, device, owners>>

(* A mutant: the devices stay where they are. *)
MovedNone(m, from, to) == device

(* The devices of a merchant follow it to another branch. *)
Moved(m, from, to) ==
    IF from = to THEN device
    ELSE [d \in Devices |-> IF device[d].status # "none" /\ device[d].merchant = m
                            THEN [device[d] EXCEPT !.branch = to] ELSE device[d]]

UpdateMerchant(h) ==
    /\ job[h].op = "edit"
    /\ LET j == job[h] IN
       /\ merchant' = [merchant EXCEPT ![j.merchant].branch = j.branch]
       /\ device' = Moved(j.merchant, j.from, j.branch)
    /\ End(h)
    /\ UNCHANGED <<plan, branch, owners>>

CreateDevice(h) ==
    /\ job[h].op = "device"
    /\ \E d \in Devices :
          /\ device[d].status = "none"
          /\ device' = [device EXCEPT ![d] = [status |-> "PENDING", branch |-> job[h].branch,
                                              merchant |-> job[h].merchant]]
    /\ End(h)
    /\ UNCHANGED <<plan, branch, merchant, owners>>

AssignDevice(h) ==
    /\ job[h].op = "assign"
    /\ LET j == job[h] IN
       device' = [device EXCEPT ![j.device].branch = j.branch, ![j.device].merchant = j.merchant]
    /\ End(h)
    /\ UNCHANGED <<plan, branch, merchant, owners>>

UnblockDevice(h) ==
    /\ job[h].op = "unblock"
    /\ device' = [device EXCEPT ![job[h].device].status = "OFFLINE"]
    /\ End(h)
    /\ UNCHANGED <<plan, branch, merchant, owners>>

RemoveOwner(h) ==
    /\ job[h].op = "unown"
    /\ owners' = owners \ {job[h].owner}
    /\ End(h)
    /\ UNCHANGED <<plan, branch, merchant, device>>

-----------------------------------------------------------------------------
(* Handlers of one statement or transaction. *)

Block(d) ==
    /\ device[d].status # "none"
    /\ device' = [device EXCEPT ![d].status = "BLOCKED"]
    /\ UNCHANGED <<plan, branch, merchant, owners, job>>
    /\ MeetsOthers

(* approve sets any device OFFLINE, a blocked one too. *)
Approve(d) ==
    /\ device[d].status # "none"
    /\ device' = [device EXCEPT ![d].status = "OFFLINE"]
    /\ UNCHANGED <<plan, branch, merchant, owners, job>>
    /\ MeetsOthers

SetMerchant(m, status) ==
    /\ m \in Unarchived
    /\ merchant' = [merchant EXCEPT ![m].status = status]
    /\ UNCHANGED <<plan, branch, device, owners, job>>
    /\ MeetsOthers

(* Does what there is fit the target plan? *)
Fits(p) ==
    /\ Cardinality(Active) <= p
    /\ Cardinality(branch) <= p
    /\ Cardinality(InUse) <= p
    /\ Cardinality(branch) > 1 => p \notin Single

ChangePlan(p) ==
    /\ p # plan /\ Fits(p)
    /\ plan' = p
    /\ UNCHANGED <<branch, merchant, device, owners, job>>
    /\ MeetsOthers

Next ==
    \/ \E h \in Handlers :
          \/ LookAtBranches(h) \/ LookAtMerchants(h) \/ LookForRegistration(h) \/ LookForEnrollment(h)
          \/ \E m \in Merchants : LookAtMerchant(h, m)
          \/ \E d \in Devices : LookAtDevice(h, d) \/ LookAtBlocked(h, d)
          \/ \E o \in Owners : LookAtOwners(h, o)
          \/ CreateBranch(h) \/ CreateMerchant(h) \/ UpdateMerchant(h) \/ CreateDevice(h)
          \/ AssignDevice(h) \/ UnblockDevice(h) \/ RemoveOwner(h)
    \/ \E d \in Devices : Block(d) \/ Approve(d)
    \/ \E m \in Merchants, s \in {"ACTIVE", "DISABLED"} : SetMerchant(m, s)
    \/ \E p \in Plans : ChangePlan(p)

Spec == Init /\ [][Next]_vars

-----------------------------------------------------------------------------
Slack == IF overlapped THEN Cardinality(Handlers) ELSE 0

(* The branches stay within the plan, through downgrades too, and exceed it *)
(* at most by the requests that created them at one time.                   *)
BranchLimit ==
    /\ Cardinality(branch) <= plan + Slack
    /\ plan \in Single => Cardinality(branch) <= 1 + Slack

(* A device assigned to a merchant is in the merchant's branch, whoever was *)
(* moved: merchants' and devices' edits agree unless two overlap.           *)
DevicesFollowMerchants ==
    ~overlapped => \A d \in Devices :
        (device[d].status # "none" /\ device[d].merchant # Nobody)
            => merchant[device[d].merchant].branch = device[d].branch
=============================================================================
