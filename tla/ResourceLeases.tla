--------------------------- MODULE ResourceLeases ---------------------------
(* Resource leases (storage/resource-lease-repo.ts behind                      *)
(* execution/resource-lease-service.ts). run() claims the whole grant of an    *)
(* attempt once, in one immediate transaction and under one token, and every   *)
(* later statement names the attempt, so the leases of an attempt are one row  *)
(* here. Each operator is one statement or transaction of the repository. The  *)
(* attempts are those of the WorkUnit pool.                                    *)
EXTENDS Partitions, WorkUnitClaims

CONSTANTS GrantOf,        \* the resource claims of an attempt's grant
          ResourceLease   \* leaseDurationMs of the lease service

ASSUME LeaseAssumption == ResourceLease \in Nat

VARIABLES leases,      \* the table resource_leases, by attempt
          waits        \* the attempts with a waiting row of resource_waits

leaseVars == << leases, waits >>

Lease == [status : {"none", "held", "released"}, expires : Nat, revoked : BOOLEAN]
NoLease == [status |-> "none", expires |-> 0, revoked |-> FALSE]

(* released_at IS NULL AND expires_at > now; a revoked lease still blocks.     *)
LiveLease(a, now) == leases[a].status = "held" /\ leases[a].expires > now

(* Some claim of one attempt's grant conflicts with one of the other's.        *)
Conflicting(a, b) ==
    \E c \in GrantOf[a], d \in GrantOf[b] : ResourceClaimsConflict(c, d)
Conflicts(a, now) == {b \in Attempts \ {a} : LiveLease(b, now) /\ Conflicting(a, b)}

-----------------------------------------------------------------------------
(* A mutant of ClaimLeases: a lease that is being revoked no longer blocks.    *)
ClaimLeasesPastRevoked(a, now) ==
    /\ \A b \in Conflicts(a, now) : leases[b].revoked
    /\ leases' = [leases EXCEPT ![a] = [status |-> "held", revoked |-> FALSE,
                                        expires |-> now + ResourceLease]]
    /\ waits' = waits \ {a}

(* claim(), when nothing conflicts: the leases and the end of the waits.       *)
ClaimLeases(a, now) ==
    /\ Conflicts(a, now) = {}
    /\ leases' = [leases EXCEPT ![a] = [status |-> "held", revoked |-> FALSE,
                                        expires |-> now + ResourceLease]]
    /\ waits' = waits \ {a}

(* claim(), when another attempt's live lease conflicts: only the waits.       *)
WaitForLeases(a, now) ==
    /\ Conflicts(a, now) # {}
    /\ waits' = waits \cup {a}
    /\ UNCHANGED leases

(* A mutant of Beaten: a heartbeat revives a lease that has expired.           *)
BeatenLate(a, now) ==
    IF leases[a].status = "held" /\ ~leases[a].revoked
    THEN [leases EXCEPT ![a].expires = now + ResourceLease] ELSE leases

(* heartbeat() extends a lease that is live and not being revoked.             *)
Beaten(a, now) ==
    IF LiveLease(a, now) /\ ~leases[a].revoked
    THEN [leases EXCEPT ![a].expires = now + ResourceLease] ELSE leases

(* releaseAttempt and releaseReconciledAttempt; releaseRevokedAttempt. Nothing *)
(* reads the expiry or the revocation of a released row.                       *)
GivenBack == [status |-> "released", expires |-> 0, revoked |-> FALSE]
ReleasedAll(As) ==
    [a \in Attempts |-> IF a \in As /\ leases[a].status = "held" THEN GivenBack ELSE leases[a]]
ReleasedRevoked(a) == IF leases[a].revoked THEN ReleasedAll({a}) ELSE leases

(* requestRevocation and cancelWaits of a cancellation. A wait that is over,   *)
(* resolved or cancelled, is never read.                                       *)
Revoke(As) ==
    /\ leases' = [a \in Attempts |-> IF a \in As /\ leases[a].status = "held"
                                     THEN [leases[a] EXCEPT !.revoked = TRUE]
                                     ELSE leases[a]]
    /\ waits' = waits \ As
=============================================================================
