---------------------------- MODULE MemoryStore ----------------------------
(***************************************************************************)
(* store.MemoryStore: the source of truth for tenants.  Every method is    *)
(* one critical section of ms.mu, hence one step.  Of a tenant, only its   *)
(* State is kept; RequestPath has the copies of Get.                       *)
(***************************************************************************)
CONSTANTS
    Tenants,
    States,   \* tenant.State: "Active", "Disabled", "Banned"
    Missing   \* the id is not a key of ms.tenants

VARIABLE tenants

TypeOK == tenants \in [Tenants -> States \cup {Missing}]

Found(id) == tenants[id] # Missing

\* Create, of an id that is not in use; otherwise ErrTenantAlreadyExists.
Create(id, state) ==
    /\ ~Found(id)
    /\ tenants' = [tenants EXCEPT ![id] = state]

\* Update replaces the tenant, its state included; otherwise ErrTenantNotFound.
Update(id, state) ==
    /\ Found(id)
    /\ tenants' = [tenants EXCEPT ![id] = state]

\* SetState; otherwise ErrTenantNotFound.
SetState(id, state) ==
    /\ Found(id)
    /\ tenants' = [tenants EXCEPT ![id] = state]

\* The answer of IsBanned for an id that is Found.
IsBanned(id) == tenants[id] = "Banned"

=============================================================================
