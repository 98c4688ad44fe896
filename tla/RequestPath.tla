---------------------------- MODULE RequestPath ----------------------------
(***************************************************************************)
(* The path of a request: middleware.Wrap, tenant.Manager, the resolver,   *)
(* the store behind its cache, tenantctx, and a handler that asks rbac;    *)
(* and, on the other side, whoever changes the same store.                 *)
(*                                                                         *)
(* Pointers and slices matter here: Get returns a pointer to a copy of the *)
(* tenant whose Roles is the store's own slice, and the cache gives the    *)
(* same pointer to everybody.  The cache is CachedStore without its        *)
(* timing: an entry may expire at any moment, and a Get is one step.       *)
(***************************************************************************)
EXTENDS TenantNames, Functions

CONSTANTS
    Requests,
    Hosts,        \* Host headers of the requests
    TenantIDs,    \* the ids that are in use or asked for, sequences of Char
    Existing,     \* the tenants in the store
    States,       \* tenant.State
    Roles,
    RoleLists,    \* the lists of roles that tenants are given
    Permissions,
    CacheKeys,    \* the keys handlers use in their tenant's part of a cache
    HandlerWrites, \* what handlers write to in their tenant: "State", "Roles"
    MaxChanges,   \* bound of the model: calls of Update, SetState and DefineRole
    None

Slices == TenantIDs \X (0..MaxChanges)
Tenants == [id : TenantIDs, state : States, roles : Slices]
Objects == Requests \cup TenantIDs
RequestStates ==
    [pc : {"get", "handler", "done"}, host : Hosts, t : Objects \cup {None}, status : {0, 200, 403, 404}]

\* A base domain with a colon in it would name no tenant at all.
ASSUME PathAssumption ==
    /\ {".", ":"} \subseteq Char
    /\ BaseDomain \in Seq(Char) /\ ~Contains(BaseDomain, ":")
    /\ Hosts \subseteq Seq(Char) /\ TenantIDs \subseteq Seq(Char) /\ CacheKeys \subseteq Seq(Char)
    /\ Existing \subseteq TenantIDs /\ Requests \cap TenantIDs = {}
    /\ "Active" \in States /\ RoleLists \subseteq Seq(Roles) /\ MaxChanges \in Nat
    /\ ErrNoTenant \notin Seq(Char)
    /\ None \notin Objects /\ None \notin Tenants /\ None \notin RequestStates

VARIABLES
    object,       \* tenants: those of the store, under their id, and the copies of Get
    slice,        \* the backing arrays of Roles
    cache,        \* cs.cache: the copy that is cached
    req,          \* per request: where it is
    definitions,  \* rbac: the permissions of each role of each tenant
    held,         \* history: the roles a tenant was given in the store
    changes       \* how often Update, SetState and DefineRole were called

storeVars == <<object, slice, cache>>
vars == <<storeVars, req, definitions, held, changes>>

TypeOK ==
    /\ object \in [Objects -> Tenants \cup {None}]
    /\ slice \in [Slices -> Seq(Roles)]
    /\ cache \in [TenantIDs -> Objects \cup {None}]
    /\ req \in [Requests -> RequestStates \cup {None}]
    /\ definitions \in [TenantIDs -> [Roles -> SUBSET Permissions]]
    /\ held \in [TenantIDs -> SUBSET Roles]
    /\ changes \in 0..MaxChanges

\* A store with some tenants, and an RBAC without definitions.
Init ==
    /\ \E roles \in RoleLists :
          /\ slice = [s \in Slices |-> roles]
          /\ held = [id \in TenantIDs |-> IF id \in Existing THEN Range(roles) ELSE {}]
    /\ object = [o \in Objects |->
                    IF o \in Existing THEN [id |-> o, state |-> "Active", roles |-> <<o, 0>>] ELSE None]
    /\ cache = [id \in TenantIDs |-> None]
    /\ req = [r \in Requests |-> None]
    /\ definitions = [id \in TenantIDs |-> [role \in Roles |-> {}]]
    /\ changes = 0

\* t.State = state.
WithState(t, state) == [id |-> t.id, state |-> state, roles |-> t.roles]

At(r, pc) == req[r] # None /\ req[r].pc = pc

Count ==
    /\ changes < MaxChanges
    /\ changes' = changes + 1

-----------------------------------------------------------------------------
(***************************************************************************)
(* A request to the application                                            *)
(***************************************************************************)
\* The request is over, and its context with it.
Answer(r, status) ==
    req' = [req EXCEPT ![r] = [pc |-> "done", host |-> req[r].host, t |-> None, status |-> status]]

\* Wrap and Manager.Resolve: the resolver; 404 when the host names no tenant.
Arrive(r, host) ==
    /\ req[r] = None
    /\ req' = [req EXCEPT ![r] =
                 [pc |-> IF Resolve(host) = ErrNoTenant THEN "done" ELSE "get", host |-> host, t |-> None,
                  status |-> IF Resolve(host) = ErrNoTenant THEN 404 ELSE 0]]
    /\ UNCHANGED <<storeVars, definitions, held, changes>>

\* Wrap and WithTenant: the handler runs with the tenant in its context.
Handle(r, t) ==
    req' = [req EXCEPT ![r] = [pc |-> "handler", host |-> req[r].host, t |-> t, status |-> 0]]

\* Manager.Resolve: the cached store has the tenant.
GetHit(r) ==
    /\ At(r, "get")
    /\ Resolve(req[r].host) \in TenantIDs
    /\ cache[Resolve(req[r].host)] # None
    /\ Handle(r, cache[Resolve(req[r].host)])
    /\ UNCHANGED <<storeVars, definitions, held, changes>>

GetMiss_SharedKey(r) ==
    LET id == Resolve(req[r].host)
    IN  /\ At(r, "get")
        /\ id \in TenantIDs /\ cache[id] = None /\ object[id] # None
        /\ object' = [object EXCEPT ![r] = object[id]]
        /\ cache' = [i \in TenantIDs |-> r]
        /\ Handle(r, r)
        /\ UNCHANGED <<slice, definitions, held, changes>>

GetMiss_NoCopy(r) ==
    LET id == Resolve(req[r].host)
    IN  /\ At(r, "get")
        /\ id \in TenantIDs /\ cache[id] = None /\ object[id] # None
        /\ cache' = [cache EXCEPT ![id] = id]
        /\ Handle(r, id)
        /\ UNCHANGED <<object, slice, definitions, held, changes>>

\* MemoryStore.Get, for the Get of request r: a copy of the tenant, but not of
\* the array of its Roles.
Copy(r, id) ==
    /\ object[id] # None
    /\ object' = [object EXCEPT ![r] = object[id]]

\* Manager.Resolve: the cached store has to ask its source, and keeps the copy.
GetMiss(r) ==
    LET id == Resolve(req[r].host)
    IN  /\ At(r, "get")
        /\ id \in TenantIDs /\ cache[id] = None
        /\ Copy(r, id)
        /\ cache' = [cache EXCEPT ![id] = r]
        /\ Handle(r, r)
        /\ UNCHANGED <<slice, definitions, held, changes>>

\* Manager.Resolve: ErrTenantNotFound, and Wrap answers 404.
GetFails(r) ==
    LET id == Resolve(req[r].host)
    IN  /\ At(r, "get")
        /\ id \notin TenantIDs \/ (cache[id] = None /\ object[id] = None)
        /\ Answer(r, 404)
        /\ UNCHANGED <<storeVars, definitions, held, changes>>

\* A cached entry expires.
Expire(id) ==
    /\ cache[id] # None
    /\ cache' = [cache EXCEPT ![id] = None]
    /\ UNCHANGED <<object, slice, req, definitions, held, changes>>

Can_AnyTenant(t, permission) ==
    \E id \in TenantIDs, role \in Range(slice[t.roles]) : permission \in definitions[id][role]
\* rbac.Can: through one of the tenant's roles.
Can(t, permission) == \E role \in Range(slice[t.roles]) : permission \in definitions[t.id][role]

\* GET /api/users: 403 unless rbac.Can says yes.  The tenant is FromContext's.
GetUsers(r) ==
    /\ At(r, "handler")
    /\ Answer(r, IF Can(object[req[r].t], "users:write") THEN 200 ELSE 403)
    /\ UNCHANGED <<storeVars, definitions, held, changes>>

\* roles[0] = role, of a list that has a first element.
Overwrite(roles, role) == [i \in DOMAIN roles |-> IF i = 1 THEN role ELSE roles[i]]

\* A handler writes to the tenant it was given: t.State = state, or
\* t.Roles[0] = role.
WriteTenant(r) ==
    /\ At(r, "handler")
    /\ \E field \in HandlerWrites, state \in States, role \in Roles :
          /\ object' = IF field = "State" THEN [object EXCEPT ![req[r].t] = WithState(@, state)] ELSE object
          /\ slice' = IF field = "Roles" THEN [slice EXCEPT ![object[req[r].t].roles] = Overwrite(@, role)] ELSE slice
    /\ UNCHANGED <<cache, req, definitions, held, changes>>

-----------------------------------------------------------------------------
(***************************************************************************)
(* The application's administration.  BanPropagation has the calls of the  *)
(* Admin API that lead to SetState, with their events.                     *)
(***************************************************************************)
\* rbac.DefineRole replaces what was defined for the role of the tenant.
DefineRole(id, role, permissions) ==
    /\ Count
    /\ definitions' = [definitions EXCEPT ![id][role] = permissions]
    /\ UNCHANGED <<storeVars, req, held>>

\* MemoryStore.Update with a new slice of roles.
Update(id, state, roles) ==
    LET new == <<id, changes + 1>>
    IN  /\ object[id] # None
        /\ Count
        /\ object' = [object EXCEPT ![id] = [id |-> id, state |-> state, roles |-> new]]
        /\ slice' = [slice EXCEPT ![new] = roles]
        /\ held' = [held EXCEPT ![id] = @ \cup Range(roles)]
        /\ UNCHANGED <<cache, req, definitions>>

\* MemoryStore.SetState writes to the tenant in place.
SetState(id, state) ==
    /\ object[id] # None
    /\ Count
    /\ object' = [object EXCEPT ![id] = WithState(@, state)]
    /\ UNCHANGED <<slice, cache, req, definitions, held>>

-----------------------------------------------------------------------------
HandlerStep(r) == GetUsers(r) \/ WriteTenant(r)

\* Within an adapter: the handler with the tenant that Manager.Resolve found, or
\* 404.  nethttp, chi, echo and gin differ in their frameworks' types only.
RequestStep(r) == GetHit(r) \/ GetMiss(r) \/ GetFails(r) \/ HandlerStep(r)

Next ==
    \/ \E r \in Requests : RequestStep(r) \/ \E host \in Hosts : Arrive(r, host)
    \/ \E id \in TenantIDs :
          \/ Expire(id)
          \/ \E role \in Roles, permissions \in SUBSET Permissions : DefineRole(id, role, permissions)
          \/ \E state \in States : SetState(id, state) \/ \E roles \in RoleLists : Update(id, state, roles)

Spec == Init /\ [][Next]_vars

-----------------------------------------------------------------------------
\* The tenant in a handler's context is the one its own Host header names, no
\* request gets the tenant of another one, through the cache or otherwise, and
\* none is turned away whose host names a tenant of the store.
HostNamesTenant ==
    \A r \in Requests : req[r] # None =>
       /\ req[r].t # None => Names(req[r].host, object[req[r].t].id)
       /\ req[r].status = 404 => \A id \in Existing : ~Names(req[r].host, id)

\* Handlers of different tenants never build the same cache key, whatever keys
\* they use within their tenant: the ids that reach a handler have no colon,
\* although ids with a colon may exist in the store.
KeysIsolated ==
    \A r, q \in Requests : At(r, "handler") /\ At(q, "handler") =>
       LET id == object[req[r].t].id
           jd == object[req[q].t].id
       IN  \A key, ley \in CacheKeys : Key(id, key) = Key(jd, ley) => id = jd /\ key = ley

\* What the store would answer.
Stored == [id \in TenantIDs |-> IF object[id] = None THEN None
                                ELSE [state |-> object[id].state, roles |-> slice[object[id].roles]]]

\* "the caller can never mutate the store's internal state through the received
\* pointer" (MemoryStore.Get): what a handler does leaves the store alone.
StoreIsolated == [][(\E r \in Requests : HandlerStep(r)) => UNCHANGED Stored]_vars

\* A handler lets a request through only when the tenant of its Host header has
\* users:write by its own definitions of this moment, through a role that it was
\* given in the store at some time.
GrantsBacked ==
    [][\A r \in Requests : At(r, "handler") /\ req'[r].status = 200 =>
          LET id == Resolve(req[r].host)
          IN  \E role \in held[id] : "users:write" \in definitions[id][role]]_vars

-----------------------------------------------------------------------------
\* What keeps HostNamesTenant and KeysIsolated: a reference, in the cache or in
\* a context, is to a copy with the right id, and never to an object that Get
\* has still to fill; no tenant appears in the store or leaves it.
ReferenceInv ==
    /\ \A id \in TenantIDs : object[id] # None <=> id \in Existing
    /\ \A id \in Existing : object[id].id = id
    /\ \A id \in TenantIDs : cache[id] # None =>
          cache[id] \in Requests /\ object[cache[id]] # None /\ object[cache[id]].id = id
    /\ \A r \in Requests : req[r] = None \/ req[r].pc = "get" => object[r] = None
    /\ \A r \in Requests : req[r] # None =>
          /\ req[r].pc # "done" => req[r].status = 0
          /\ req[r].pc = "handler" => req[r].t # None
          /\ req[r].t # None =>
                req[r].t \in Requests /\ object[req[r].t] # None /\ object[req[r].t].id = Resolve(req[r].host)
          /\ req[r].status = 404 => Resolve(req[r].host) \notin Existing

\* What keeps GrantsBacked as long as no handler writes to Roles: no object uses
\* an array that Update has still to make.
RolesInv ==
    \A o \in Objects : object[o] # None =>
       object[o].roles[2] <= changes /\ Range(slice[object[o].roles]) \subseteq held[object[o].id]

=============================================================================
