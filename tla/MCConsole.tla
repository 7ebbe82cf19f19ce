---------------------------- MODULE MCConsole ----------------------------
(* A small instance of the tenant console for TLC.                         *)
EXTENDS Console, TLC

CONSTANTS owner, clerk, f2

\* A role of the tenant's own, which may not see the reports.
MCCustomRoles == [DESK |-> {"tickets.view", "devices.view"}]
MCRolesOf == owner :> {"OWNER"} @@ clerk :> {"DESK"}
===========================================================================
