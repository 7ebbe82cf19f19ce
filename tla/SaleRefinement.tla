--------------------------- MODULE SaleRefinement ----------------------------
(***************************************************************************)
(* OfflineSync implements SalePromise: what a merchant is told is read off *)
(* the row of the outbox, the decision off the sync job.                   *)
(***************************************************************************)
EXTENDS OfflineSync

ToldOf == [NONE |-> "nothing", PENDING |-> "queued", RETRY |-> "queued", APPLIED |-> "accepted", REJECTED |-> "refused"]
VerdictOf == [NONE |-> "none", RECEIVED |-> "none", APPLIED |-> "accepted", REJECTED |-> "refused"]

Promise ==
    INSTANCE SalePromise WITH
        Sales   <- Mutations,
        told    <- [m \in Mutations |-> ToldOf[outbox[m]]],
        verdict <- [m \in Mutations |-> VerdictOf[job[m]]],
        receipt <- receipts

\* Every step of the phone and of the server is a step of the promise or leaves what it speaks of alone, through
\* overlapping batches, lost answers, restarts, crashes and the direct sale that is still on its way.
\* (offline_store.dart, sync_engine.dart, sync.service.ts: apply; tickets.service.ts: create)
KeepsSalePromise == Promise!PromiseSpec
=============================================================================
