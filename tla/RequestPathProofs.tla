------------------------- MODULE RequestPathProofs -------------------------
(***************************************************************************)
(* Proofs about TenantNames, for every base domain, host and cache key,    *)
(* and about RequestPath.                                                  *)
(***************************************************************************)
EXTENDS RequestPath, TLAPS

\* A leaf is tried with Zenon first; SMT marks those that need arithmetic or the
\* theory of functions, records and sequences.
USE Zenon, SMTT(30)

-----------------------------------------------------------------------------
\* TypeOK and ReferenceInv in the parts that the steps touch.
StoreTypes ==
    /\ object \in [Objects -> Tenants \cup {None}]
    /\ cache \in [TenantIDs -> Objects \cup {None}]

RoleTypes ==
    /\ slice \in [Slices -> Seq(Roles)]
    /\ held \in [TenantIDs -> SUBSET Roles]
    /\ changes \in 0..MaxChanges

RequestTypes == req \in [Requests -> RequestStates \cup {None}]

DefinitionTypes == definitions \in [TenantIDs -> [Roles -> SUBSET Permissions]]

StoreRefs ==
    /\ \A id \in TenantIDs : object[id] # None <=> id \in Existing
    /\ \A id \in Existing : object[id].id = id

CacheRefs ==
    \A id \in TenantIDs : cache[id] # None =>
       cache[id] \in Requests /\ object[cache[id]] # None /\ object[cache[id]].id = id

RequestRefs(r) ==
    /\ req[r] = None \/ req[r].pc = "get" => object[r] = None
    /\ req[r] # None =>
          /\ req[r].pc # "done" => req[r].status = 0
          /\ req[r].pc = "handler" => req[r].t # None
          /\ req[r].t # None =>
                req[r].t \in Requests /\ object[req[r].t] # None /\ object[req[r].t].id = Resolve(req[r].host)
          /\ req[r].status = 404 => Resolve(req[r].host) \notin Existing

\* TypeOK is the conjunction of its parts.
LEMMA TypeParts == TypeOK <=> StoreTypes /\ RoleTypes /\ RequestTypes /\ DefinitionTypes
BY ZenonT(30) DEF TypeOK, StoreTypes, RoleTypes, RequestTypes, DefinitionTypes

\* ReferenceInv is the conjunction of its parts.
LEMMA ReferenceParts == ReferenceInv <=> StoreRefs /\ CacheRefs /\ \A r \in Requests : RequestRefs(r)
BY ZenonT(30) DEF ReferenceInv, StoreRefs, CacheRefs, RequestRefs

\* The sets of objects, and None.
LEMMA ObjectSets ==
    /\ Requests \subseteq Objects /\ TenantIDs \subseteq Objects /\ Existing \subseteq TenantIDs
    /\ \A r \in Requests : r \notin TenantIDs
    /\ None \notin Objects /\ None \notin Tenants /\ None \notin RequestStates
    /\ ErrNoTenant \notin TenantIDs
BY PathAssumption DEF Objects

\* A request carries one of the hosts.
LEMMA RequestHost == \A q \in RequestStates : q.host \in Hosts
BY SMT DEF RequestStates

\* A tenant with another state.
LEMMA OtherState ==
    ASSUME NEW t \in Tenants, NEW state \in States
    PROVE  WithState(t, state) \in Tenants /\ WithState(t, state).id = t.id /\ WithState(t, state).roles = t.roles
BY DEF Tenants, WithState

\* A tenant as Update leaves it.
LEMMA NewTenant ==
    ASSUME NEW id \in TenantIDs, NEW state \in States, NEW n \in 0..MaxChanges
    PROVE  <<id, n>> \in Slices /\ [id |-> id, state |-> state, roles |-> <<id, n>>] \in Tenants
BY DEF Slices, Tenants

\* A list of roles, as it is and with another first element.
LEMMA RoleListTypes ==
    /\ \A roles \in Seq(Roles) : Range(roles) \subseteq Roles
    /\ \A roles \in Seq(Roles), role \in Roles : Overwrite(roles, role) \in Seq(Roles)
<1>1. ASSUME NEW roles \in Seq(Roles) PROVE Range(roles) \subseteq Roles
  BY SMT DEF Range
<1>2. ASSUME NEW roles \in Seq(Roles), NEW role \in Roles PROVE Overwrite(roles, role) \in Seq(Roles)
  <2>1. Len(roles) \in Nat /\ DOMAIN roles = 1..Len(roles) /\ \A i \in 1..Len(roles) : roles[i] \in Roles
    BY SMT
  <2>2. Overwrite(roles, role) \in [1..Len(roles) -> Roles]
    BY <2>1 DEF Overwrite
  <2> QED
    BY <2>1, <2>2, SMT
<1> QED
  BY <1>1, <1>2

-----------------------------------------------------------------------------
\* Which steps change a variable.
LEMMA RequestFrame ==
    [Next]_vars =>
       \/ req' = req
       \/ \E r \in Requests : \/ \E host \in Hosts : Arrive(r, host)
                              \/ GetHit(r) \/ GetMiss(r) \/ GetFails(r) \/ GetUsers(r)
BY ZenonT(30) DEF Next, vars, RequestStep, HandlerStep, WriteTenant, Expire, DefineRole, Update, SetState

\* The steps that change the store or the cache.
LEMMA StoreFrame ==
    [Next]_vars =>
       \/ object' = object /\ cache' = cache
       \/ \E r \in Requests : GetMiss(r) \/ WriteTenant(r)
       \/ \E id \in TenantIDs : Expire(id)
       \/ \E id \in TenantIDs, state \in States :
             SetState(id, state) \/ \E roles \in RoleLists : Update(id, state, roles)
BY ZenonT(30) DEF Next, vars, storeVars, RequestStep, HandlerStep, Arrive, GetHit, GetFails, GetUsers, DefineRole

\* The steps that change role slices, or count a change.
LEMMA RoleFrame ==
    [Next]_vars =>
       \/ slice' = slice /\ held' = held /\ changes' = changes
       \/ \E r \in Requests : WriteTenant(r)
       \/ slice' = slice /\ held' = held /\ Count
       \/ \E id \in TenantIDs, state \in States, roles \in RoleLists : Update(id, state, roles)
BY ZenonT(30) DEF Next, vars, storeVars, RequestStep, HandlerStep, Arrive, GetHit, GetMiss, GetFails, GetUsers,
                   Expire, DefineRole, SetState

\* The steps that change the role definitions.
LEMMA DefinitionFrame ==
    [Next]_vars =>
       \/ definitions' = definitions
       \/ \E id \in TenantIDs, role \in Roles, permissions \in SUBSET Permissions : DefineRole(id, role, permissions)
BY ZenonT(30) DEF Next, vars, RequestStep, HandlerStep, Arrive, GetHit, GetMiss, GetFails, GetUsers, WriteTenant,
                   Expire, Update, SetState

-----------------------------------------------------------------------------
\* What the steps of a request make of req.
LEMMA ArriveStep ==
    ASSUME RequestTypes, NEW r \in Requests, NEW host \in Hosts, Arrive(r, host)
    PROVE  \E pc \in {"get", "done"}, status \in {0, 404} :
              /\ req' = [req EXCEPT ![r] = [pc |-> pc, host |-> host, t |-> None, status |-> status]]
              /\ pc = "get" => status = 0
              /\ status = 404 => Resolve(host) = ErrNoTenant
<1>1. CASE Resolve(host) = ErrNoTenant
  <2>1. req' = [req EXCEPT ![r] = [pc |-> "done", host |-> host, t |-> None, status |-> 404]]
    BY <1>1 DEF Arrive
  <2> QED
    BY <1>1, <2>1, SMT
<1>2. CASE Resolve(host) # ErrNoTenant
  <2>1. req' = [req EXCEPT ![r] = [pc |-> "get", host |-> host, t |-> None, status |-> 0]]
    BY <1>2 DEF Arrive
  <2> QED
    BY <1>2, <2>1, SMT
<1> QED
  BY <1>1, <1>2

\* Handle takes one request to its handler with the tenant t.
LEMMA HandleStep ==
    ASSUME RequestTypes, NEW r \in Requests, NEW t \in Objects, At(r, "get"), Handle(r, t)
    PROVE  /\ RequestTypes' /\ req'[r] # None
           /\ req'[r] = [pc |-> "handler", host |-> req[r].host, t |-> t, status |-> 0]
           /\ \A q \in Requests : q # r => req'[q] = req[q]
<1>1. req[r] \in RequestStates
  BY DEF RequestTypes, At
<1>2. req[r].host \in Hosts
  BY <1>1, RequestHost
<1>3. [pc |-> "handler", host |-> req[r].host, t |-> t, status |-> 0] \in RequestStates
  BY <1>2 DEF RequestStates
<1>4. req' = [req EXCEPT ![r] = [pc |-> "handler", host |-> req[r].host, t |-> t, status |-> 0]]
  BY DEF Handle
<1> QED
  BY <1>3, <1>4, ObjectSets DEF RequestTypes

\* Answer ends one request with a status.
LEMMA AnswerStep ==
    ASSUME RequestTypes, NEW r \in Requests, NEW status \in {200, 403, 404}, req[r] # None, Answer(r, status)
    PROVE  /\ RequestTypes' /\ req'[r] # None
           /\ req'[r] = [pc |-> "done", host |-> req[r].host, t |-> None, status |-> status]
           /\ \A q \in Requests : q # r => req'[q] = req[q]
<1>1. req[r] \in RequestStates
  BY SMT DEF RequestTypes
<1>2. req[r].host \in Hosts
  BY <1>1, RequestHost, SMT
<1>3. [pc |-> "done", host |-> req[r].host, t |-> None, status |-> status] \in RequestStates
  BY <1>2, SMT DEF RequestStates
<1>4. req' = [req EXCEPT ![r] = [pc |-> "done", host |-> req[r].host, t |-> None, status |-> status]]
  BY DEF Answer
<1> QED
  BY <1>3, <1>4, ObjectSets, SMT DEF RequestTypes

\* GetUsers answers 200 or 403 and writes to no tenant.
LEMMA GetUsersStep ==
    ASSUME NEW r \in Requests, GetUsers(r)
    PROVE  /\ req[r] # None /\ req[r].pc = "handler" /\ object' = object /\ cache' = cache /\ slice' = slice
           /\ Answer(r, 200) \/ Answer(r, 403)
BY DEF GetUsers, At, storeVars

\* A request keeps its types.
LEMMA RequestTypeStep == StoreTypes /\ CacheRefs /\ RequestTypes /\ [Next]_vars => RequestTypes'
<1> SUFFICES ASSUME StoreTypes, CacheRefs, RequestTypes, [Next]_vars PROVE RequestTypes'
  OBVIOUS
<1>1. ASSUME NEW r \in Requests, NEW host \in Hosts, Arrive(r, host) PROVE RequestTypes'
  <2>1. PICK pc \in {"get", "done"}, status \in {0, 404} :
           req' = [req EXCEPT ![r] = [pc |-> pc, host |-> host, t |-> None, status |-> status]]
    BY <1>1, ArriveStep, SMT
  <2>2. [pc |-> pc, host |-> host, t |-> None, status |-> status] \in RequestStates
    BY SMT DEF RequestStates
  <2> QED
    BY <2>1, <2>2 DEF RequestTypes
<1>2. ASSUME NEW r \in Requests, GetHit(r) PROVE RequestTypes'
  <2>1. At(r, "get") /\ Handle(r, cache[Resolve(req[r].host)]) /\ cache[Resolve(req[r].host)] \in Requests
    BY <1>2 DEF GetHit, CacheRefs
  <2> QED
    BY <2>1, ObjectSets, HandleStep, ZenonT(30)
<1>3. ASSUME NEW r \in Requests, GetMiss(r) PROVE RequestTypes'
  <2>1. At(r, "get") /\ Handle(r, r) /\ r \in Objects
    BY <1>3, ObjectSets DEF GetMiss, Copy
  <2> QED
    BY <2>1, HandleStep, ZenonT(30)
<1>4. ASSUME NEW r \in Requests, GetFails(r) PROVE RequestTypes'
  <2>1. req[r] # None /\ Answer(r, 404)
    BY <1>4 DEF GetFails, At
  <2> QED
    BY <2>1, AnswerStep, ZenonT(30)
<1>5. ASSUME NEW r \in Requests, GetUsers(r) PROVE RequestTypes'
  <2>1. req[r] # None
    BY <1>5, GetUsersStep
  <2>2. CASE Answer(r, 200)
    BY <2>1, <2>2, AnswerStep, ZenonT(30)
  <2>3. CASE Answer(r, 403)
    BY <2>1, <2>3, AnswerStep, ZenonT(30)
  <2> QED
    BY <1>5, <2>2, <2>3, GetUsersStep, SMT
<1>6. CASE req' = req
  BY <1>6 DEF RequestTypes
<1> QED
  BY <1>1, <1>2, <1>3, <1>4, <1>5, <1>6, RequestFrame

\* A handler at work has a tenant, which is no object of the store.
LEMMA HandlerTenant ==
    ASSUME StoreTypes, NEW r \in Requests, RequestRefs(r), At(r, "handler")
    PROVE  /\ req[r].t \in Requests /\ object[req[r].t] \in Tenants
           /\ object[req[r].t].id = Resolve(req[r].host)
<1>1. /\ req[r].t \in Requests /\ object[req[r].t] # None
      /\ object[req[r].t].id = Resolve(req[r].host)
  BY DEF RequestRefs, At
<1> QED
  BY <1>1, ObjectSets DEF StoreTypes

\* What the steps that write to tenants make of them.
LEMMA WriteStep ==
    ASSUME StoreTypes, NEW r \in Requests, RequestRefs(r), WriteTenant(r)
    PROVE  /\ cache' = cache /\ req' = req /\ held' = held /\ changes' = changes
           /\ \E state \in States : object' \in {object, [object EXCEPT ![req[r].t] = WithState(@, state)]}
           /\ \E role \in Roles : slice' \in {slice, [slice EXCEPT ![object[req[r].t].roles] = Overwrite(@, role)]}
           /\ "Roles" \notin HandlerWrites => slice' = slice
           /\ At(r, "handler")
BY DEF WriteTenant

\* SetState writes the state of one stored tenant, in place.
LEMMA SetStateStep ==
    ASSUME StoreTypes, StoreRefs, NEW id \in TenantIDs, NEW state \in States, SetState(id, state)
    PROVE  /\ id \in Existing /\ id \in Objects /\ object[id] \in Tenants
           /\ object' = [object EXCEPT ![id] = WithState(object[id], state)]
           /\ cache' = cache /\ req' = req /\ slice' = slice /\ held' = held /\ changes' = changes + 1
BY ObjectSets DEF SetState, Count, StoreTypes, StoreRefs

\* Update gives one stored tenant a state and a new slice of roles.
LEMMA UpdateStep ==
    ASSUME StoreTypes, RoleTypes, StoreRefs, NEW id \in TenantIDs, NEW state \in States, NEW roles \in RoleLists,
           Update(id, state, roles)
    PROVE  /\ id \in Existing /\ changes' = changes + 1 /\ changes + 1 \in 0..MaxChanges
           /\ object' = [object EXCEPT ![id] = [id |-> id, state |-> state, roles |-> <<id, changes + 1>>]]
           /\ slice' = [slice EXCEPT ![<<id, changes + 1>>] = roles]
           /\ held' = [held EXCEPT ![id] = @ \cup Range(roles)]
           /\ cache' = cache /\ req' = req
<1>1. changes' = changes + 1 /\ changes + 1 \in 0..MaxChanges
  BY PathAssumption, SMT DEF Update, Count, RoleTypes
<1>2. id \in Existing
  BY DEF Update, StoreRefs
<1> QED
  BY <1>1, <1>2 DEF Update

\* The store and the cache keep their types.
LEMMA StoreTypeStep ==
    StoreTypes /\ RoleTypes /\ StoreRefs /\ (\A r \in Requests : RequestRefs(r)) /\ [Next]_vars
       => StoreTypes'
<1> SUFFICES ASSUME StoreTypes, RoleTypes, StoreRefs, \A r \in Requests : RequestRefs(r), [Next]_vars
             PROVE  StoreTypes'
  OBVIOUS
<1>1. ASSUME NEW r \in Requests, GetMiss(r) PROVE StoreTypes'
  <2>1. /\ Resolve(req[r].host) \in Objects
        /\ object' = [object EXCEPT ![r] = object[Resolve(req[r].host)]]
        /\ cache' = [cache EXCEPT ![Resolve(req[r].host)] = r]
    BY <1>1, ObjectSets DEF GetMiss, Copy
  <2> QED
    BY <2>1, ObjectSets DEF StoreTypes
<1>2. ASSUME NEW r \in Requests, WriteTenant(r) PROVE StoreTypes'
  <2>1. cache' = cache /\ req[r].t \in Objects /\ object[req[r].t] \in Tenants
    BY <1>2, WriteStep, HandlerTenant, ObjectSets
  <2>2. PICK state \in States : object' \in {object, [object EXCEPT ![req[r].t] = WithState(@, state)]}
    BY <1>2, WriteStep
  <2>3. WithState(object[req[r].t], state) \in Tenants
    BY <2>1, OtherState
  <2> QED
    BY <2>1, <2>2, <2>3 DEF StoreTypes
<1>3. ASSUME NEW id \in TenantIDs, Expire(id) PROVE StoreTypes'
  BY <1>3 DEF Expire, StoreTypes
<1>4. ASSUME NEW id \in TenantIDs, NEW state \in States, NEW roles \in RoleLists, Update(id, state, roles)
      PROVE  StoreTypes'
  <2>1. /\ cache' = cache /\ changes + 1 \in 0..MaxChanges
        /\ object' = [object EXCEPT ![id] = [id |-> id, state |-> state, roles |-> <<id, changes + 1>>]]
    BY <1>4, UpdateStep
  <2>2. [id |-> id, state |-> state, roles |-> <<id, changes + 1>>] \in Tenants
    BY <2>1, NewTenant
  <2> QED
    BY <2>1, <2>2 DEF StoreTypes
<1>5. ASSUME NEW id \in TenantIDs, NEW state \in States, SetState(id, state) PROVE StoreTypes'
  <2>1. /\ object' = [object EXCEPT ![id] = WithState(object[id], state)]
        /\ object[id] \in Tenants /\ cache' = cache
    BY <1>5, SetStateStep
  <2>2. WithState(object[id], state) \in Tenants
    BY <2>1, OtherState
  <2> QED
    BY <2>1, <2>2 DEF StoreTypes
<1>6. CASE object' = object /\ cache' = cache
  BY <1>6 DEF StoreTypes
<1> QED
  BY <1>1, <1>2, <1>3, <1>4, <1>5, <1>6, StoreFrame

\* So do the roles.
LEMMA RoleTypeStep ==
    StoreTypes /\ RoleTypes /\ StoreRefs /\ (\A r \in Requests : RequestRefs(r)) /\ [Next]_vars => RoleTypes'
<1> SUFFICES ASSUME StoreTypes, RoleTypes, StoreRefs, \A r \in Requests : RequestRefs(r), [Next]_vars
             PROVE  RoleTypes'
  OBVIOUS
<1>1. ASSUME NEW r \in Requests, WriteTenant(r) PROVE RoleTypes'
  <2>1. held' = held /\ changes' = changes
    BY <1>1, WriteStep
  <2>2. PICK role \in Roles : slice' \in {slice, [slice EXCEPT ![object[req[r].t].roles] = Overwrite(@, role)]}
    BY <1>1, WriteStep
  <2>3. object[req[r].t].roles \in Slices
    BY <1>1, WriteStep, HandlerTenant DEF Tenants
  <2>4. Overwrite(slice[object[req[r].t].roles], role) \in Seq(Roles)
    BY <2>3, RoleListTypes DEF RoleTypes
  <2>5. slice' \in [Slices -> Seq(Roles)]
    BY <2>2, <2>3, <2>4 DEF RoleTypes
  <2> QED
    BY <2>1, <2>5 DEF RoleTypes
<1>2. CASE slice' = slice /\ held' = held /\ Count
  BY <1>2, PathAssumption, SMT DEF RoleTypes, Count
<1>3. ASSUME NEW id \in TenantIDs, NEW state \in States, NEW roles \in RoleLists, Update(id, state, roles)
      PROVE  RoleTypes'
  <2>1. /\ changes' = changes + 1 /\ changes + 1 \in 0..MaxChanges
        /\ slice' = [slice EXCEPT ![<<id, changes + 1>>] = roles]
        /\ held' = [held EXCEPT ![id] = @ \cup Range(roles)]
    BY <1>3, UpdateStep, SMT
  <2>2. roles \in Seq(Roles) /\ Range(roles) \subseteq Roles
    BY PathAssumption, RoleListTypes
  <2> QED
    BY <2>1, <2>2 DEF RoleTypes
<1>4. CASE slice' = slice /\ held' = held /\ changes' = changes
  BY <1>4 DEF RoleTypes
<1> QED
  BY <1>1, <1>2, <1>3, <1>4, RoleFrame

\* So do the definitions.
LEMMA DefinitionTypeStep == DefinitionTypes /\ [Next]_vars => DefinitionTypes'
<1> SUFFICES ASSUME DefinitionTypes, [Next]_vars PROVE DefinitionTypes'
  OBVIOUS
<1>1. ASSUME NEW id \in TenantIDs, NEW role \in Roles, NEW permissions \in SUBSET Permissions,
             DefineRole(id, role, permissions)
      PROVE  DefinitionTypes'
  BY <1>1 DEF DefineRole, DefinitionTypes
<1> QED
  BY <1>1, DefinitionFrame DEF DefinitionTypes

\* Every step preserves TypeOK.
LEMMA TypeStep == TypeOK /\ ReferenceInv /\ [Next]_vars => TypeOK'
<1> SUFFICES ASSUME TypeOK, ReferenceInv, [Next]_vars PROVE TypeOK'
  OBVIOUS
<1>1. StoreTypes /\ RoleTypes /\ RequestTypes /\ DefinitionTypes
  BY TypeParts
<1>2. StoreRefs /\ CacheRefs /\ \A r \in Requests : RequestRefs(r)
  BY ReferenceParts
<1>3. StoreTypes' /\ RoleTypes' /\ RequestTypes' /\ DefinitionTypes'
  BY <1>1, <1>2, StoreTypeStep, RoleTypeStep, RequestTypeStep, DefinitionTypeStep
<1> QED
  BY <1>3, TypeParts, PTL

-----------------------------------------------------------------------------
\* No object comes or goes, or gets another id.
SameTenants ==
    \A o \in Objects : /\ object[o] = None => object'[o] = None
                       /\ object[o] # None => object'[o] # None /\ object'[o].id = object[o].id

\* A write to one tenant that leaves its id.
LEMMA SameTenantsWrite ==
    ASSUME StoreTypes, NEW x \in Objects, NEW t \in Tenants,
           object[x] \in Tenants, t.id = object[x].id, object' = [object EXCEPT ![x] = t]
    PROVE  SameTenants
<1> SUFFICES ASSUME NEW o \in Objects
             PROVE  /\ object[o] = None => object'[o] = None
                    /\ object[o] # None => object'[o] # None /\ object'[o].id = object[o].id
  BY DEF SameTenants
<1>1. CASE o = x
  BY <1>1, ObjectSets DEF StoreTypes
<1>2. CASE o # x
  BY <1>2 DEF StoreTypes
<1> QED
  BY <1>1, <1>2

\* The steps that change a tenant in place.
LEMMA WriteSame ==
    ASSUME StoreTypes, NEW r \in Requests, RequestRefs(r), WriteTenant(r)
    PROVE  SameTenants /\ cache' = cache /\ req' = req
<1>1. /\ cache' = cache /\ req' = req
      /\ req[r].t \in Objects /\ object[req[r].t] \in Tenants
  BY WriteStep, HandlerTenant, ObjectSets
<1>2. PICK state \in States : object' \in {object, [object EXCEPT ![req[r].t] = WithState(@, state)]}
  BY WriteStep
<1>3. CASE object' = object
  BY <1>1, <1>3 DEF SameTenants
<1>4. CASE object' = [object EXCEPT ![req[r].t] = WithState(object[req[r].t], state)]
  <2>1. /\ WithState(object[req[r].t], state) \in Tenants
        /\ WithState(object[req[r].t], state).id = object[req[r].t].id
    BY <1>1, OtherState
  <2> QED
    BY <1>1, <1>4, <2>1, SameTenantsWrite
<1> QED
  BY <1>2, <1>3, <1>4

\* Update leaves the id of its tenant.
LEMMA UpdateSame ==
    ASSUME StoreTypes, RoleTypes, StoreRefs, NEW id \in TenantIDs, NEW state \in States, NEW roles \in RoleLists,
           Update(id, state, roles)
    PROVE  SameTenants /\ cache' = cache /\ req' = req
<1>1. /\ id \in Existing /\ changes + 1 \in 0..MaxChanges /\ cache' = cache /\ req' = req
      /\ object' = [object EXCEPT ![id] = [id |-> id, state |-> state, roles |-> <<id, changes + 1>>]]
  BY UpdateStep
<1>2. id \in Objects /\ object[id] \in Tenants /\ object[id].id = id
  BY <1>1, ObjectSets DEF StoreTypes, StoreRefs
<1>3. [id |-> id, state |-> state, roles |-> <<id, changes + 1>>] \in Tenants
  BY <1>1, NewTenant
<1>4. [id |-> id, state |-> state, roles |-> <<id, changes + 1>>].id = object[id].id
  BY <1>2
<1> QED
  BY <1>1, <1>2, <1>3, <1>4, SameTenantsWrite

\* So does SetState.
LEMMA SetStateSame ==
    ASSUME StoreTypes, StoreRefs, NEW id \in TenantIDs, NEW state \in States, SetState(id, state)
    PROVE  SameTenants /\ cache' = cache /\ req' = req
<1>1. /\ id \in Objects /\ object[id] \in Tenants
      /\ object' = [object EXCEPT ![id] = WithState(object[id], state)]
      /\ cache' = cache /\ req' = req
  BY SetStateStep
<1>2. WithState(object[id], state) \in Tenants /\ WithState(object[id], state).id = object[id].id
  BY <1>1, OtherState
<1> QED
  BY <1>1, <1>2, SameTenantsWrite

\* With the same tenants the references stay right.
LEMMA SameStore == StoreRefs /\ SameTenants => StoreRefs'
BY ObjectSets DEF StoreRefs, SameTenants

\* The cache still refers to tenants of its keys.
LEMMA SameCache == CacheRefs /\ SameTenants /\ cache' = cache => CacheRefs'
BY ObjectSets, SMT DEF CacheRefs, SameTenants

\* A request that does not move keeps its references.
LEMMA SameRequest ==
    ASSUME NEW r \in Requests, RequestRefs(r), SameTenants, req'[r] = req[r]
    PROVE  RequestRefs(r)'
<1>1. req[r] = None \/ req[r].pc = "get" => object'[r] = None
  BY ObjectSets DEF RequestRefs, SameTenants
<1>2. req[r] # None /\ req[r].t # None =>
         req[r].t \in Requests /\ object'[req[r].t] # None /\ object'[req[r].t].id = Resolve(req[r].host)
  BY ObjectSets DEF RequestRefs, SameTenants
<1> QED
  BY <1>1, <1>2, SMT DEF RequestRefs

\* Objects that do not change are the same tenants.
LEMMA UnchangedObjects == object' = object => SameTenants
BY SMTT(30) DEF SameTenants

\* The references of a request that is answered, or has just come.
LEMMA AnsweredRefs ==
    ASSUME NEW r \in Requests, RequestTypes, object' = object, req[r] # None,
           NEW status \in {200, 403, 404}, Answer(r, status),
           status = 404 => Resolve(req[r].host) \notin Existing
    PROVE  RequestRefs(r)' /\ \A q \in Requests : q # r => req'[q] = req[q]
<1>1. /\ req'[r] = [pc |-> "done", host |-> req[r].host, t |-> None, status |-> status]
      /\ \A q \in Requests : q # r => req'[q] = req[q]
  BY SMT DEF Answer, RequestTypes
<1>2. req'[r].pc = "done" /\ req'[r].host = req[r].host /\ req'[r].t = None /\ req'[r].status = status
  BY <1>1, SMT
<1>3. req'[r] # None
  <2>1. req[r].host \in Hosts
    BY RequestHost, SMT DEF RequestTypes
  <2>2. req'[r] \in RequestStates
    BY <1>1, <2>1, SMT DEF RequestStates
  <2> QED
    BY <2>2, ObjectSets, SMT
<1> QED
  BY <1>1, <1>2, <1>3, SMT DEF RequestRefs

\* A request that has just come has its references right.
LEMMA ArriveRefs ==
    ASSUME NEW r \in Requests, NEW host \in Hosts, RequestTypes, RequestRefs(r), Arrive(r, host)
    PROVE  /\ RequestRefs(r)' /\ object' = object /\ cache' = cache
           /\ \A q \in Requests : q # r => req'[q] = req[q]
<1>1. req[r] = None /\ object' = object /\ cache' = cache
  BY DEF Arrive, storeVars
<1>2. PICK pc \in {"get", "done"}, status \in {0, 404} :
         /\ req' = [req EXCEPT ![r] = [pc |-> pc, host |-> host, t |-> None, status |-> status]]
         /\ pc = "get" => status = 0
         /\ status = 404 => Resolve(host) = ErrNoTenant
  BY ArriveStep, SMT
<1>3. /\ req'[r] = [pc |-> pc, host |-> host, t |-> None, status |-> status]
      /\ \A q \in Requests : q # r => req'[q] = req[q]
  BY <1>2 DEF RequestTypes
<1>4. object'[r] = None
  BY <1>1 DEF RequestRefs
<1>5. req'[r].pc = pc /\ req'[r].host = host /\ req'[r].t = None /\ req'[r].status = status
  BY <1>3, SMT
<1>6. status = 404 => Resolve(host) \notin Existing
  BY <1>2, ObjectSets, SMT
<1> QED
  BY <1>1, <1>2, <1>3, <1>4, <1>5, <1>6, SMT DEF RequestRefs

\* The references of a request that reaches its handler.
LEMMA HandledRefs ==
    ASSUME NEW r \in Requests, RequestTypes, NEW t \in Requests, At(r, "get"), Handle(r, t),
           object'[t] # None, object'[t].id = Resolve(req[r].host)
    PROVE  RequestRefs(r)' /\ \A q \in Requests : q # r => req'[q] = req[q]
<1>1. t \in Objects
  BY ObjectSets
<1>2. /\ req'[r] # None
      /\ req'[r] = [pc |-> "handler", host |-> req[r].host, t |-> t, status |-> 0]
      /\ \A q \in Requests : q # r => req'[q] = req[q]
  BY <1>1, HandleStep, ZenonT(30)
<1>3. req'[r].pc = "handler" /\ req'[r].host = req[r].host /\ req'[r].t = t /\ req'[r].status = 0
  <2>1. req'[r] = [pc |-> "handler", host |-> req[r].host, t |-> t, status |-> 0]
    BY <1>2
  <2>2. PICK q, h : q = req'[r] /\ h = req[r].host
    OBVIOUS
  <2>3. q = [pc |-> "handler", host |-> h, t |-> t, status |-> 0]
    BY <2>1, <2>2
  <2>4. q.pc = "handler" /\ q.host = h /\ q.t = t /\ q.status = 0
    BY <2>3, SMTT(30)
  <2> QED
    BY <2>2, <2>4
<1> QED
  BY <1>1, <1>2, <1>3, ObjectSets, SMT DEF RequestRefs

\* So has one that the cache serves.
LEMMA GetHitRefs ==
    ASSUME NEW r \in Requests, RequestTypes, CacheRefs, GetHit(r)
    PROVE  /\ RequestRefs(r)' /\ object' = object /\ cache' = cache
           /\ \A q \in Requests : q # r => req'[q] = req[q]
<1> DEFINE t == cache[Resolve(req[r].host)]
<1>1. At(r, "get") /\ Handle(r, t) /\ object' = object /\ cache' = cache
  BY DEF GetHit, storeVars
<1>2. t \in Requests /\ object[t] # None /\ object[t].id = Resolve(req[r].host)
  BY DEF GetHit, CacheRefs
<1> HIDE DEF t
<1> QED
  BY <1>1, <1>2, HandledRefs

\* So has one whose tenant is not found.
LEMMA GetFailsRefs ==
    ASSUME NEW r \in Requests, RequestTypes, StoreRefs, GetFails(r)
    PROVE  /\ RequestRefs(r)' /\ object' = object /\ cache' = cache
           /\ \A q \in Requests : q # r => req'[q] = req[q]
<1>1. req[r] # None /\ Answer(r, 404) /\ object' = object /\ cache' = cache
  BY DEF GetFails, At, storeVars
<1>2. Resolve(req[r].host) \notin Existing
  BY ObjectSets DEF GetFails, StoreRefs
<1> QED
  BY <1>1, <1>2, AnsweredRefs, SMT

\* So has one that GetUsers answers.
LEMMA GetUsersRefs ==
    ASSUME NEW r \in Requests, RequestTypes, GetUsers(r)
    PROVE  /\ RequestRefs(r)' /\ object' = object /\ cache' = cache
           /\ \A q \in Requests : q # r => req'[q] = req[q]
<1>1. req[r] # None /\ object' = object /\ cache' = cache
  BY GetUsersStep
<1>2. CASE Answer(r, 200)
  BY <1>1, <1>2, AnsweredRefs, SMT
<1>3. CASE Answer(r, 403)
  BY <1>1, <1>3, AnsweredRefs, SMT
<1> QED
  BY <1>2, <1>3, GetUsersStep, SMT

\* GetMiss fills the object of its request, which nothing referred to.
LEMMA GetMissObjects ==
    ASSUME NEW r \in Requests, StoreTypes, StoreRefs, RequestRefs(r), GetMiss(r)
    PROVE  /\ Resolve(req[r].host) \in Existing /\ At(r, "get") /\ Handle(r, r)
           /\ cache' = [cache EXCEPT ![Resolve(req[r].host)] = r]
           /\ object[r] = None /\ object'[r] = object[Resolve(req[r].host)]
           /\ object'[r] # None /\ object'[r].id = Resolve(req[r].host)
           /\ \A o \in Objects : o # r => object'[o] = object[o]
<1>1. /\ Resolve(req[r].host) \in TenantIDs /\ object[Resolve(req[r].host)] # None
      /\ At(r, "get") /\ Handle(r, r)
      /\ cache' = [cache EXCEPT ![Resolve(req[r].host)] = r]
      /\ object' = [object EXCEPT ![r] = object[Resolve(req[r].host)]]
  BY DEF GetMiss, Copy
<1>2. object'[r] = object[Resolve(req[r].host)] /\ \A o \in Objects : o # r => object'[o] = object[o]
  BY <1>1, ObjectSets DEF StoreTypes
<1>3. Resolve(req[r].host) \in Existing /\ object[Resolve(req[r].host)].id = Resolve(req[r].host)
  BY <1>1 DEF StoreRefs
<1>4. object[r] = None
  BY <1>1 DEF RequestRefs, At
<1> QED
  BY <1>1, <1>2, <1>3, <1>4

\* GetMiss keeps the references of the store, the cache and every request.
LEMMA GetMissRefs ==
    ASSUME NEW r \in Requests, StoreTypes, RequestTypes, StoreRefs, CacheRefs,
           \A q \in Requests : RequestRefs(q), GetMiss(r)
    PROVE  StoreRefs' /\ CacheRefs' /\ \A q \in Requests : RequestRefs(q)'
<1> DEFINE id == Resolve(req[r].host)
<1>1. /\ id \in Existing /\ At(r, "get") /\ Handle(r, r) /\ cache' = [cache EXCEPT ![id] = r]
      /\ object[r] = None /\ object'[r] # None /\ object'[r].id = id
      /\ \A o \in Objects : o # r => object'[o] = object[o]
  BY GetMissObjects, ZenonT(30)
<1>2. StoreRefs'
  BY <1>1, ObjectSets DEF StoreRefs
<1>3. RequestRefs(r)' /\ \A q \in Requests : q # r => req'[q] = req[q]
  BY <1>1, HandledRefs
<1> HIDE DEF id
<1>4. CacheRefs'
  <2> SUFFICES ASSUME NEW i \in TenantIDs, cache'[i] # None
               PROVE  cache'[i] \in Requests /\ object'[cache'[i]] # None /\ object'[cache'[i]].id = i
    BY DEF CacheRefs
  <2>1. CASE i = id
    BY <1>1, <2>1 DEF StoreTypes
  <2>2. CASE i # id
    <3>1. cache'[i] = cache[i]
      BY <1>1, <2>2 DEF StoreTypes
    <3>2. cache[i] \in Requests /\ object[cache[i]] # None /\ object[cache[i]].id = i
      BY <3>1 DEF CacheRefs
    <3>3. object'[cache[i]] = object[cache[i]]
      BY <1>1, <3>2, ObjectSets, SMTT(30)
    <3> QED
      BY <3>1, <3>2, <3>3
  <2> QED
    BY <2>1, <2>2
<1>5. ASSUME NEW q \in Requests, q # r PROVE RequestRefs(q)'
  <2>1. req'[q] = req[q] /\ object'[q] = object[q]
    BY <1>1, <1>3, <1>5, ObjectSets
  <2>2. req[q] # None /\ req[q].t # None => req[q].t \in Requests /\ object'[req[q].t] = object[req[q].t]
    BY <1>1, ObjectSets DEF RequestRefs
  <2> QED
    BY <2>1, <2>2, SMTT(30) DEF RequestRefs
<1> QED
  BY <1>2, <1>3, <1>4, <1>5

\* Every step preserves ReferenceInv.
LEMMA ReferenceStep == TypeOK /\ ReferenceInv /\ [Next]_vars => ReferenceInv'
<1> SUFFICES ASSUME TypeOK, ReferenceInv, [Next]_vars PROVE ReferenceInv'
  OBVIOUS
<1>1. StoreTypes /\ RoleTypes /\ RequestTypes
  BY TypeParts
<1>2. StoreRefs /\ CacheRefs /\ \A q \in Requests : RequestRefs(q)
  BY ReferenceParts
<1> DEFINE Preserved == StoreRefs' /\ CacheRefs' /\ \A q \in Requests : RequestRefs(q)'
           Others(r) == \A q \in Requests : q # r => req'[q] = req[q]
\* The steps that change one request and no object.
<1>3. ASSUME NEW r \in Requests, RequestRefs(r)', object' = object, cache' = cache, Others(r) PROVE Preserved
  <2>1. SameTenants
    BY <1>3, UnchangedObjects
  <2>2. StoreRefs' /\ CacheRefs'
    BY <1>2, <1>3, <2>1, SameStore, SameCache
  <2>3. ASSUME NEW q \in Requests, q # r PROVE RequestRefs(q)'
    BY <1>2, <1>3, <2>1, <2>3, SameRequest
  <2> QED
    BY <1>3, <2>2, <2>3
\* The steps that change no reference.
<1>4. ASSUME SameTenants, cache' = cache, req' = req PROVE Preserved
  BY <1>2, <1>4, SameStore, SameCache, SameRequest
<1>5. ASSUME NEW id \in TenantIDs, Expire(id) PROVE Preserved
  <2>1. /\ cache[id] # None /\ object' = object /\ req' = req
        /\ cache' = [cache EXCEPT ![id] = None]
    BY <1>5 DEF Expire
  <2>2. CacheRefs'
    BY <1>1, <1>2, <2>1 DEF StoreTypes, CacheRefs
  <2>3. SameTenants
    BY <2>1, UnchangedObjects
  <2> QED
    BY <1>2, <2>1, <2>2, <2>3, SameStore, SameRequest
<1>6. ASSUME NEW r \in Requests,
             (\E host \in Hosts : Arrive(r, host)) \/ GetHit(r) \/ GetFails(r) \/ GetUsers(r)
      PROVE  Preserved
  <2>1. RequestRefs(r)' /\ object' = object /\ cache' = cache /\ Others(r)
    BY <1>1, <1>2, <1>6, ArriveRefs, GetHitRefs, GetFailsRefs, GetUsersRefs
  <2> QED
    BY <1>3, <2>1
<1>7. ASSUME NEW r \in Requests, GetMiss(r) PROVE Preserved
  BY <1>1, <1>2, <1>7, GetMissRefs
<1>8. ASSUME NEW r \in Requests, WriteTenant(r) PROVE Preserved
  BY <1>1, <1>2, <1>4, <1>8, WriteSame
<1>9. ASSUME NEW id \in TenantIDs, NEW state \in States, NEW roles \in RoleLists, Update(id, state, roles)
      PROVE  Preserved
  BY <1>1, <1>2, <1>4, <1>9, UpdateSame
<1>10. ASSUME NEW id \in TenantIDs, NEW state \in States, SetState(id, state) PROVE Preserved
  BY <1>1, <1>2, <1>4, <1>10, SetStateSame
<1>11. ASSUME object' = object, cache' = cache, req' = req PROVE Preserved
  BY <1>4, <1>11, UnchangedObjects
<1>12. Preserved
  <2>1. CASE object' = object /\ cache' = cache
    <3>1. ASSUME NEW r \in Requests,
                 \/ \E host \in Hosts : Arrive(r, host)
                 \/ GetHit(r) \/ GetMiss(r) \/ GetFails(r) \/ GetUsers(r)
          PROVE  Preserved
      BY <1>6, <1>7, <3>1
    <3> QED
      BY <1>11, <2>1, <3>1, RequestFrame
  <2> QED
    BY <1>5, <1>7, <1>8, <1>9, <1>10, <2>1, StoreFrame
<1>13. (StoreRefs /\ CacheRefs /\ \A r \in Requests : RequestRefs(r))'
  BY <1>12
<1> QED
  BY <1>13, ReferenceParts, PTL

-----------------------------------------------------------------------------
\* A step that keeps the roles of every object, and what the store gave.
LEMMA SameRoles ==
    ASSUME RolesInv, StoreTypes, slice' = slice, held' = held, changes \in Nat, changes' \in {changes, changes + 1},
           \A o \in Objects : object'[o] # None =>
              \E p \in Objects : object[p] # None /\ object'[o].roles = object[p].roles /\ object'[o].id = object[p].id
    PROVE  RolesInv'
<1> SUFFICES ASSUME NEW o \in Objects, object'[o] # None
             PROVE  object'[o].roles[2] <= changes' /\ Range(slice[object'[o].roles]) \subseteq held[object'[o].id]
  BY DEF RolesInv
<1>1. PICK p \in Objects : object[p] # None /\ object'[o].roles = object[p].roles /\ object'[o].id = object[p].id
  OBVIOUS
<1>2. object[p].roles[2] <= changes /\ Range(slice[object[p].roles]) \subseteq held[object[p].id]
  BY <1>1 DEF RolesInv
<1>3. object[p] \in Tenants
  BY <1>1 DEF StoreTypes
<1>4. object[p].roles[2] \in Int
  BY <1>3, SMT DEF Tenants, Slices
<1> QED
  BY <1>1, <1>2, <1>4, SMT

\* A write to the state of one tenant keeps the roles.
LEMMA StateKeepsRoles ==
    ASSUME StoreTypes, NEW x \in Objects, NEW state \in States, object[x] \in Tenants,
           object' = [object EXCEPT ![x] = WithState(object[x], state)]
    PROVE  \A o \in Objects : object'[o] # None =>
              \E p \in Objects : object[p] # None /\ object'[o].roles = object[p].roles /\ object'[o].id = object[p].id
<1>1. object'[x] = WithState(object[x], state) /\ \A o \in Objects : o # x => object'[o] = object[o]
  BY DEF StoreTypes
<1>2. object'[x].roles = object[x].roles /\ object'[x].id = object[x].id /\ object[x] # None
  BY <1>1, OtherState, ObjectSets, SMT
<1> QED
  BY <1>1, <1>2

\* Every step keeps RolesInv when no handler writes to Roles.
LEMMA RolesStep ==
    ASSUME "Roles" \notin HandlerWrites
    PROVE  TypeOK /\ ReferenceInv /\ RolesInv /\ [Next]_vars => RolesInv'
<1> SUFFICES ASSUME TypeOK, ReferenceInv, RolesInv, [Next]_vars PROVE RolesInv'
  OBVIOUS
<1>0. StoreTypes /\ RoleTypes /\ StoreRefs /\ \A r \in Requests : RequestRefs(r)
  BY TypeParts, ReferenceParts
<1>1. changes \in Nat /\ MaxChanges \in Nat
  BY <1>0, PathAssumption, SMT DEF RoleTypes
<1>2. ASSUME NEW r \in Requests, GetMiss(r) PROVE RolesInv'
  <2>1. /\ Resolve(req[r].host) \in Objects /\ object[Resolve(req[r].host)] # None
        /\ object'[r] = object[Resolve(req[r].host)]
        /\ \A o \in Objects : o # r => object'[o] = object[o]
    BY <1>0, <1>2, GetMissObjects, ObjectSets DEF GetMiss, Copy
  <2>2. slice' = slice /\ held' = held /\ changes' = changes
    BY <1>2 DEF GetMiss, Copy
  <2>3. \A o \in Objects : object'[o] # None =>
           \E p \in Objects : object[p] # None /\ object'[o].roles = object[p].roles /\ object'[o].id = object[p].id
    BY <2>1
  <2> QED
    BY <1>0, <1>1, <2>2, <2>3, SameRoles
<1>3. ASSUME NEW r \in Requests, WriteTenant(r) PROVE RolesInv'
  <2>1. req[r].t \in Objects /\ object[req[r].t] \in Tenants
    BY <1>0, <1>3, WriteStep, HandlerTenant, ObjectSets
  <2>2. slice' = slice /\ held' = held /\ changes' = changes
    BY <1>0, <1>3, WriteStep
  <2>3. PICK state \in States : object' \in {object, [object EXCEPT ![req[r].t] = WithState(@, state)]}
    BY <1>0, <1>3, WriteStep
  <2>4. \A o \in Objects : object'[o] # None =>
           \E p \in Objects : object[p] # None /\ object'[o].roles = object[p].roles /\ object'[o].id = object[p].id
    <3>1. CASE object' = object
      BY <3>1
    <3>2. CASE object' = [object EXCEPT ![req[r].t] = WithState(object[req[r].t], state)]
      BY <1>0, <2>1, <3>2, StateKeepsRoles, ZenonT(30)
    <3> QED
      BY <2>3, <3>1, <3>2
  <2> QED
    BY <1>0, <1>1, <2>2, <2>4, SameRoles, ZenonT(30)
<1>4. ASSUME NEW id \in TenantIDs, NEW state \in States, NEW roles \in RoleLists, Update(id, state, roles)
      PROVE  RolesInv'
  <2> DEFINE new == <<id, changes + 1>>
  <2>1. /\ changes' = changes + 1 /\ changes + 1 \in 0..MaxChanges
        /\ object' = [object EXCEPT ![id] = [id |-> id, state |-> state, roles |-> new]]
        /\ slice' = [slice EXCEPT ![new] = roles]
        /\ held' = [held EXCEPT ![id] = @ \cup Range(roles)]
    BY <1>0, <1>4, UpdateStep, SMT
  <2>2. new \in Slices
    BY <2>1, NewTenant
  <2>3. object'[id] = [id |-> id, state |-> state, roles |-> new]
    BY <1>0, <2>1, ObjectSets DEF StoreTypes
  <2>4. object'[id].roles[2] = changes + 1 /\ object'[id].roles = new /\ object'[id].id = id
    BY <2>3, SMT
  <2>5. slice'[new] = roles /\ Range(roles) \subseteq held'[id] /\ \A i \in TenantIDs : held[i] \subseteq held'[i]
    BY <1>0, <2>1, <2>2 DEF RoleTypes
  <2>6. ASSUME NEW o \in Objects, object'[o] # None, o # id
        PROVE  object'[o].roles[2] <= changes' /\ Range(slice'[object'[o].roles]) \subseteq held'[object'[o].id]
    <3>1. object'[o] = object[o]
      BY <1>0, <2>1, <2>6 DEF StoreTypes
    <3>2. object[o] \in Tenants
      BY <1>0, <2>6, <3>1 DEF StoreTypes
    <3>3. object[o].roles \in Slices /\ object[o].id \in TenantIDs /\ object[o].roles[2] \in Nat
      BY <3>2, SMT DEF Tenants, Slices
    <3>4. object[o].roles[2] <= changes /\ Range(slice[object[o].roles]) \subseteq held[object[o].id]
      BY <2>6, <3>1 DEF RolesInv
    <3>5. object[o].roles # new
      BY <1>1, <3>3, <3>4, SMT
    <3>6. slice'[object[o].roles] = slice[object[o].roles]
      BY <1>0, <2>1, <3>3, <3>5 DEF RoleTypes
    <3>7. object[o].roles[2] <= changes'
      BY <1>1, <2>1, <3>3, <3>4, SMT
    <3>8. Range(slice'[object[o].roles]) \subseteq held'[object[o].id]
      BY <2>5, <3>3, <3>4, <3>6
    <3> QED
      BY <3>1, <3>7, <3>8
  <2>7. object'[id].roles[2] <= changes' /\ Range(slice'[object'[id].roles]) \subseteq held'[object'[id].id]
    BY <1>1, <2>1, <2>4, <2>5, SMT
  <2> QED
    BY <2>6, <2>7 DEF RolesInv
<1>5. ASSUME NEW id \in TenantIDs, NEW state \in States, SetState(id, state) PROVE RolesInv'
  <2>1. /\ id \in Objects /\ object[id] \in Tenants
        /\ object' = [object EXCEPT ![id] = WithState(object[id], state)]
        /\ slice' = slice /\ held' = held /\ changes' = changes + 1
    BY <1>0, <1>5, SetStateStep
  <2>2. \A o \in Objects : object'[o] # None =>
           \E p \in Objects : object[p] # None /\ object'[o].roles = object[p].roles /\ object'[o].id = object[p].id
    BY <1>0, <2>1, StateKeepsRoles
  <2> QED
    BY <1>0, <1>1, <2>1, <2>2, SameRoles
<1>6. CASE object' = object /\ slice' = slice /\ held' = held /\ changes' \in {changes, changes + 1}
  <2>1. \A o \in Objects : object'[o] # None =>
           \E p \in Objects : object[p] # None /\ object'[o].roles = object[p].roles /\ object'[o].id = object[p].id
    BY <1>6
  <2> QED
    BY <1>0, <1>1, <1>6, <2>1, SameRoles
<1>7. ASSUME NEW id \in TenantIDs, Expire(id) PROVE RolesInv'
  BY <1>6, <1>7 DEF Expire
<1>8. CASE object' = object /\ cache' = cache
  <2>1. ASSUME slice' = slice, held' = held, Count PROVE RolesInv'
    BY <1>6, <1>8, <2>1 DEF Count
  <2>2. ASSUME slice' = slice, held' = held, changes' = changes PROVE RolesInv'
    BY <1>6, <1>8, <2>2
  <2> QED
    BY <1>3, <1>4, <2>1, <2>2, RoleFrame
<1> QED
  BY <1>2, <1>3, <1>4, <1>5, <1>7, <1>8, StoreFrame

-----------------------------------------------------------------------------
\* The tenants of the store at the start.
LEMMA InitObjects ==
    ASSUME Init
    PROVE  /\ StoreTypes
           /\ \A o \in Objects : o \notin Existing => object[o] = None
           /\ \A o \in Existing : object[o] # None /\ object[o].id = o /\ object[o].roles = <<o, 0>>
<1>1. \A id \in Existing : [id |-> id, state |-> "Active", roles |-> <<id, 0>>] \in Tenants
  BY NewTenant, PathAssumption, SMT
<1>2. /\ object = [o \in Objects |->
                     IF o \in Existing THEN [id |-> o, state |-> "Active", roles |-> <<o, 0>>] ELSE None]
      /\ cache = [id \in TenantIDs |-> None]
  BY DEF Init
<1>3. StoreTypes
  BY <1>1, <1>2 DEF StoreTypes
<1>4. \A o \in Existing : object[o] = [id |-> o, state |-> "Active", roles |-> <<o, 0>>]
  BY <1>2, ObjectSets
<1>5. \A o \in Existing : object[o] # None
  BY <1>1, <1>4, ObjectSets
<1>6. \A o \in Objects : o \notin Existing => object[o] = None
  BY <1>2
<1>7. ASSUME NEW o \in Existing PROVE object[o].id = o /\ object[o].roles = <<o, 0>>
  <2>1. object[o] = [id |-> o, state |-> "Active", roles |-> <<o, 0>>]
    BY <1>4
  <2> QED
    BY <2>1, SMT
<1> QED
  BY <1>3, <1>5, <1>6, <1>7

\* The invariants hold at the start.
LEMMA PathInit == Init => TypeOK /\ ReferenceInv /\ RolesInv
<1> SUFFICES ASSUME Init PROVE TypeOK /\ ReferenceInv /\ RolesInv
  OBVIOUS
<1>1. PICK roles \in RoleLists :
         /\ slice = [s \in Slices |-> roles]
         /\ held = [id \in TenantIDs |-> IF id \in Existing THEN Range(roles) ELSE {}]
  BY DEF Init
<1>2. StoreTypes
  BY InitObjects
<1>3. RoleTypes /\ changes = 0
  <2>1. roles \in Seq(Roles) /\ Range(roles) \subseteq Roles
    BY PathAssumption, RoleListTypes
  <2>2. changes = 0 /\ changes \in 0..MaxChanges
    BY PathAssumption, SMT DEF Init
  <2> QED
    BY <1>1, <2>1, <2>2 DEF RoleTypes
<1>4. RequestTypes /\ DefinitionTypes
  BY DEF Init, RequestTypes, DefinitionTypes
<1>5. StoreRefs
  BY InitObjects, ObjectSets DEF StoreRefs
<1>6. CacheRefs
  BY DEF Init, CacheRefs
<1>7. \A r \in Requests : RequestRefs(r)
  <2>1. \A r \in Requests : req[r] = None
    BY DEF Init
  <2>2. \A r \in Requests : object[r] = None
    BY InitObjects, ObjectSets
  <2> QED
    BY <2>1, <2>2, SMT DEF RequestRefs
<1>8. RolesInv
  <2> SUFFICES ASSUME NEW o \in Objects, object[o] # None
               PROVE  object[o].roles[2] <= changes /\ Range(slice[object[o].roles]) \subseteq held[object[o].id]
    BY DEF RolesInv
  <2>1. o \in Existing /\ o \in TenantIDs /\ object[o].id = o /\ object[o].roles = <<o, 0>>
    BY InitObjects, ObjectSets
  <2>2. <<o, 0>> \in Slices
    BY <2>1, PathAssumption, SMT DEF Slices
  <2> QED
    BY <1>1, <1>3, <2>1, <2>2, SMT
<1> QED
  BY <1>2, <1>3, <1>4, <1>5, <1>6, <1>7, <1>8, TypeParts, ReferenceParts

-----------------------------------------------------------------------------
\* TenantNames: a host names one tenant, and a cache key one tenant and one key.
INSTANCE WellFoundedInduction

\* A cache key tells where the TenantID in it ends, as long as it has no colon.
LEMMA KeyPositions ==
    ASSUME NEW id \in Seq(Char), NEW key \in Seq(Char)
    PROVE  /\ Key(id, key)[Len(id) + 3] = ":"
           /\ Len(Key(id, key)) = Len(id) + Len(key) + 3
           /\ \A i \in 1..Len(id) : Key(id, key)[i + 2] = id[i]
           /\ \A i \in 1..Len(key) : Key(id, key)[Len(id) + 3 + i] = key[i]
<1> DEFINE S == Char \cup {"tenant", ":"}
           p == <<"tenant", ":">>
           a == p \o id
           b == a \o <<":">>
<1>1. p \in Seq(S) /\ Len(p) = 2 /\ <<":">> \in Seq(S) /\ id \in Seq(S) /\ key \in Seq(S)
  BY SMT
<1>2. a \in Seq(S) /\ Len(a) = Len(id) + 2 /\ \A i \in 1..Len(id) : a[i + 2] = id[i]
  BY <1>1, SMT
<1>3. b \in Seq(S) /\ Len(b) = Len(a) + 1 /\ b[Len(a) + 1] = ":" /\ \A i \in 1..Len(a) : b[i] = a[i]
  BY <1>1, <1>2, SMT
<1>4. /\ Len(b \o key) = Len(b) + Len(key)
      /\ \A i \in 1..Len(b) : (b \o key)[i] = b[i]
      /\ \A i \in 1..Len(key) : (b \o key)[Len(b) + i] = key[i]
  BY <1>1, <1>3, SMT
<1>5. Key(id, key) = b \o key
  BY DEF Key
<1> QED
  BY <1>1, <1>2, <1>3, <1>4, <1>5, SMT

\* A cache key belongs to one tenant and is one key of it.
LEMMA KeyInjective ==
    ASSUME NEW id \in Seq(Char), NEW jd \in Seq(Char), NEW key \in Seq(Char), NEW ley \in Seq(Char),
           ~Contains(id, ":"), ~Contains(jd, ":"), Key(id, key) = Key(jd, ley)
    PROVE  id = jd /\ key = ley
<1>1. ASSUME NEW a \in Seq(Char), NEW b \in Seq(Char), NEW x \in Seq(Char), NEW y \in Seq(Char),
             ~Contains(b, ":"), Key(a, x) = Key(b, y)
      PROVE  ~(Len(a) < Len(b))
  <2> SUFFICES ASSUME Len(a) < Len(b) PROVE FALSE
    OBVIOUS
  <2>1. Key(b, y)[Len(a) + 3] = ":"
    BY <1>1, KeyPositions, SMT
  <2>2. Len(a) + 1 \in 1..Len(b)
    BY SMT
  <2>3. Key(b, y)[(Len(a) + 1) + 2] = b[Len(a) + 1]
    BY <2>2, KeyPositions, SMTT(30)
  <2> QED
    BY <1>1, <2>1, <2>2, <2>3, SMT DEF Contains
<1>2. Len(id) = Len(jd)
  BY <1>1, SMT
<1>3. Len(key) = Len(ley)
  <2>1. Len(Key(id, key)) = Len(id) + Len(key) + 3
    BY KeyPositions
  <2>2. Len(Key(jd, ley)) = Len(jd) + Len(ley) + 3
    BY KeyPositions
  <2> QED
    BY <1>2, <2>1, <2>2, SMT
<1> DEFINE K == Key(id, key)
<1>4. \A i \in 1..Len(id) : K[i + 2] = id[i] /\ K[i + 2] = jd[i]
  <2>1. \A i \in 1..Len(id) : Key(id, key)[i + 2] = id[i]
    BY KeyPositions
  <2>2. \A i \in 1..Len(jd) : Key(jd, ley)[i + 2] = jd[i]
    BY KeyPositions
  <2> QED
    BY <1>2, <2>1, <2>2
<1>5. \A i \in 1..Len(key) : K[Len(id) + 3 + i] = key[i] /\ K[Len(id) + 3 + i] = ley[i]
  <2>1. \A i \in 1..Len(key) : Key(id, key)[Len(id) + 3 + i] = key[i]
    BY KeyPositions
  <2>2. \A i \in 1..Len(ley) : Key(jd, ley)[Len(jd) + 3 + i] = ley[i]
    BY KeyPositions
  <2> QED
    BY <1>2, <1>3, <2>1, <2>2
<1> HIDE DEF K
<1>6. \A i \in 1..Len(id) : id[i] = jd[i]
  BY <1>4
<1>7. \A i \in 1..Len(key) : key[i] = ley[i]
  BY <1>5
<1>8. id = jd
  BY <1>2, <1>6, SMTT(30)
<1>9. key = ley
  BY <1>3, <1>7, SMT
<1> QED
  BY <1>8, <1>9

\* Before is well defined: a character that occurs has a first occurrence.
LEMMA BeforeFirst ==
    ASSUME NEW s \in Seq(Char), NEW c
    PROVE  /\ Before(s, c) \in 0..Len(s)
           /\ Before(s, c) = Len(s) \/ s[Before(s, c) + 1] = c
           /\ \A i \in 1..Before(s, c) : s[i] # c
<1> DEFINE P(n) == (n = Len(s) \/ s[n + 1] = c) /\ \A i \in 1..n : s[i] # c
           Q == {n \in Nat : n = Len(s) \/ (n < Len(s) /\ s[n + 1] = c)}
           R == OpToRel(<, Nat)
<1>1. Q \subseteq Nat /\ Q # {}
  BY SMT
<1>2. IsWellFoundedOn(R, Nat)
  BY NatLessThanWellFounded
<1>3. PICK m \in Q : \A k \in Q : ~(<<k, m>> \in R)
  <2> HIDE DEF Q, R
  <2> QED
    BY <1>1, <1>2, WFMin
<1>4. \A k \in Nat : k < m => <<k, m>> \in R
  BY DEF OpToRel
<1>5. m \in 0..Len(s) /\ P(m)
  <2>1. m \in 0..Len(s) /\ (m = Len(s) \/ s[m + 1] = c)
    BY SMT
  <2>2. ASSUME NEW i \in 1..m, s[i] = c PROVE FALSE
    <3>1. i - 1 \in Nat /\ i - 1 < m /\ s[(i - 1) + 1] = c /\ i - 1 < Len(s)
      BY <2>1, <2>2, SMT
    <3>2. i - 1 \in Q
      BY <3>1
    <3> QED
      BY <3>1, <3>2, <1>3, <1>4
  <2> QED
    BY <2>1, <2>2
<1>6. Before(s, c) = CHOOSE n \in 0..Len(s) : P(n)
  BY DEF Before
<1> HIDE DEF P
<1>7. Before(s, c) \in 0..Len(s) /\ P(Before(s, c))
  BY <1>5, <1>6
<1> QED
  BY <1>7 DEF P

-----------------------------------------------------------------------------
\* Where the parts of a host without port are, and that it is in Seq(Char).
LEMMA NamePositions ==
    ASSUME NEW id \in Seq(Char)
    PROVE  LET name == id \o <<".">> \o BaseDomain
           IN  /\ name \in Seq(Char)
               /\ Len(name) = Len(id) + 1 + Len(BaseDomain)
               /\ \A i \in 1..Len(id) : name[i] = id[i]
               /\ name[Len(id) + 1] = "."
               /\ \A i \in 1..Len(BaseDomain) : name[Len(id) + 1 + i] = BaseDomain[i]
<1> DEFINE a == id \o <<".">>
<1>1. <<".">> \in Seq(Char) /\ BaseDomain \in Seq(Char)
  BY PathAssumption, SMT
<1>2. a \in Seq(Char) /\ Len(a) = Len(id) + 1 /\ a[Len(id) + 1] = "." /\ \A i \in 1..Len(id) : a[i] = id[i]
  BY <1>1, SMT
<1> HIDE DEF a
<1>3. /\ a \o BaseDomain \in Seq(Char)
      /\ Len(a \o BaseDomain) = Len(a) + Len(BaseDomain)
      /\ \A i \in 1..Len(a) : (a \o BaseDomain)[i] = a[i]
      /\ \A i \in 1..Len(BaseDomain) : (a \o BaseDomain)[Len(a) + i] = BaseDomain[i]
  <2>1. a \in Seq(Char) /\ BaseDomain \in Seq(Char)
    BY <1>1, <1>2
  <2> QED
    BY <2>1, SMT
<1>4. id \o <<".">> \o BaseDomain = a \o BaseDomain
  BY DEF a
<1>5. \A i \in 1..Len(id) : (a \o BaseDomain)[i] = id[i]
  BY <1>2, <1>3, SMT
<1>6. (a \o BaseDomain)[Len(id) + 1] = "."
  BY <1>2, <1>3, SMT
<1>7. Len(a \o BaseDomain) = Len(id) + 1 + Len(BaseDomain)
  BY <1>2, <1>3
<1>8. \A i \in 1..Len(BaseDomain) : (a \o BaseDomain)[Len(id) + 1 + i] = BaseDomain[i]
  BY <1>2, <1>3
<1> QED
  BY <1>3, <1>4, <1>5, <1>6, <1>7, <1>8

\* The suffix of every host the resolver accepts.
LEMMA SuffixPositions ==
    /\ Suffix \in Seq(Char)
    /\ Len(Suffix) = 1 + Len(BaseDomain)
    /\ Suffix[1] = "."
    /\ \A i \in 1..Len(BaseDomain) : Suffix[1 + i] = BaseDomain[i]
<1>1. <<".">> \in Seq(Char) /\ BaseDomain \in Seq(Char) /\ Len(<<".">>) = 1
  BY PathAssumption, SMT
<1> QED
  BY <1>1, SMT DEF Suffix

\* What is in front of a port.
LEMMA StripPortPrefix ==
    ASSUME NEW host \in Seq(Char)
    PROVE  /\ StripPort(host) \in Seq(Char)
           /\ Len(StripPort(host)) = Before(host, ":")
           /\ \A i \in 1..Before(host, ":") : StripPort(host)[i] = host[i]
BY BeforeFirst, SMT DEF StripPort

\* SubdomainResolver.Resolve returns a tenant only when the host names it.
THEOREM ResolveSound ==
    ASSUME NEW host \in Seq(Char), Resolve(host) # ErrNoTenant
    PROVE  Resolve(host) \in Seq(Char) /\ Names(host, Resolve(host))
<1> DEFINE n == Before(host, ":")
           h == StripPort(host)
           id == TrimSuffix(h, Suffix)
           name == id \o <<".">> \o BaseDomain
<1>1. Resolve(host) = id /\ HasSuffix(h, Suffix) /\ id # <<>> /\ ~Contains(id, ".")
  BY DEF Resolve
<1>2. /\ h \in Seq(Char) /\ Len(h) = n /\ n \in 0..Len(host)
      /\ \A i \in 1..n : h[i] = host[i] /\ host[i] # ":"
      /\ n = Len(host) \/ host[n + 1] = ":"
  BY StripPortPrefix, BeforeFirst
<1> HIDE DEF n, h
<1>3. BaseDomain \in Seq(Char)
  BY PathAssumption
<1>4. Len(h) >= 1 + Len(BaseDomain) /\ \A i \in 1..Len(Suffix) : h[Len(h) - Len(Suffix) + i] = Suffix[i]
  BY <1>1, <1>2, <1>3, SuffixPositions DEF HasSuffix
<1>5. /\ id \in Seq(Char) /\ Len(id) = n - 1 - Len(BaseDomain)
      /\ \A i \in 1..Len(id) : id[i] = h[i]
  BY <1>2, <1>3, <1>4, SuffixPositions, SMTT(30) DEF TrimSuffix
<1> HIDE DEF id
<1>6. Len(id) > 0
  BY <1>1, <1>5, SMT
<1>7. ~Contains(id, ":")
  <2>1. \A i \in 1..Len(id) : i \in 1..n
    BY <1>2, <1>3, <1>5, SMT
  <2> QED
    BY <2>1, <1>2, <1>5 DEF Contains
<1>8. Len(name) = n /\ name \in Seq(Char)
  BY <1>2, <1>3, <1>5, NamePositions, SMTT(30)
<1>9. ASSUME NEW i \in 1..n PROVE name[i] = host[i]
  <2>1. CASE i \in 1..Len(id)
    BY <2>1, <1>2, <1>5, NamePositions
  <2>2. CASE i = Len(id) + 1
    <3>1. h[Len(h) - Len(Suffix) + 1] = "."
      BY <1>3, <1>4, SuffixPositions, SMT
    <3>2. Len(h) - Len(Suffix) + 1 = i
      BY <2>2, <1>2, <1>3, <1>5, SuffixPositions, SMT
    <3> QED
      BY <2>2, <3>1, <3>2, <1>2, <1>5, NamePositions
  <2>3. CASE i > Len(id) + 1
    <3> DEFINE j == i - Len(id) - 1
    <3>1. j \in 1..Len(BaseDomain) /\ 1 + j \in 1..Len(Suffix) /\ i = Len(id) + 1 + j
      BY <2>3, <1>2, <1>3, <1>5, SuffixPositions, SMTT(30)
    <3>2. Len(h) - Len(Suffix) + (1 + j) = i
      BY <1>2, <1>3, <1>5, SuffixPositions, SMT
    <3> HIDE DEF j
    <3>3. h[i] = BaseDomain[j]
      BY <3>1, <3>2, <1>4, SuffixPositions, SMTT(30)
    <3>4. name[Len(id) + 1 + j] = BaseDomain[j]
      BY <3>1, <1>5, NamePositions, SMTT(30)
    <3> QED
      BY <3>1, <3>3, <3>4, <1>2
  <2> QED
    BY <2>1, <2>2, <2>3, <1>2, <1>5, SMTT(30)
<1> HIDE DEF name
<1>10. SubSeq(host, 1, Len(name)) = name
  BY <1>2, <1>8, <1>9, SMT
<1> QED
  BY <1>1, <1>2, <1>5, <1>6, <1>7, <1>8, <1>10, SMTT(30) DEF Names, name

\* SubdomainResolver.Resolve finds the tenant of every host that names one.
THEOREM ResolveComplete ==
    ASSUME NEW host \in Seq(Char), NEW id \in Seq(Char), Names(host, id)
    PROVE  Resolve(host) = id
<1> DEFINE n == Before(host, ":")
           h == StripPort(host)
           name == id \o <<".">> \o BaseDomain
<1>1. BaseDomain \in Seq(Char) /\ \A i \in 1..Len(BaseDomain) : BaseDomain[i] # ":"
  BY PathAssumption DEF Contains
<1>2. /\ name \in Seq(Char) /\ Len(name) = Len(id) + 1 + Len(BaseDomain)
      /\ \A i \in 1..Len(id) : name[i] = id[i]
      /\ name[Len(id) + 1] = "."
      /\ \A i \in 1..Len(BaseDomain) : name[Len(id) + 1 + i] = BaseDomain[i]
  BY NamePositions
<1>3. /\ Len(id) > 0 /\ ~Contains(id, ".") /\ \A i \in 1..Len(id) : id[i] # ":"
      /\ Len(host) >= Len(name) /\ SubSeq(host, 1, Len(name)) = name
      /\ Len(host) = Len(name) \/ host[Len(name) + 1] = ":"
  BY DEF Names, Contains
<1> HIDE DEF name
<1>4. \A i \in 1..Len(name) : name[i] = host[i]
  BY <1>2, <1>3, SMT
<1>5. ASSUME NEW i \in 1..Len(name) PROVE name[i] # ":"
  <2>1. CASE i \in 1..Len(id)
    BY <2>1, <1>2, <1>3
  <2>2. CASE i = Len(id) + 1
    BY <2>2, <1>2
  <2>3. CASE i > Len(id) + 1
    <3> DEFINE j == i - Len(id) - 1
    <3>1. j \in 1..Len(BaseDomain) /\ i = Len(id) + 1 + j
      BY <2>3, <1>1, <1>2, SMT
    <3> HIDE DEF j
    <3> QED
      BY <3>1, <1>1, <1>2, SMTT(30)
  <2> QED
    BY <2>1, <2>2, <2>3, <1>2, SMT
<1>6. /\ n \in 0..Len(host)
      /\ n = Len(host) \/ host[n + 1] = ":"
      /\ \A i \in 1..n : host[i] # ":"
  BY BeforeFirst
<1>7. h \in Seq(Char) /\ Len(h) = n /\ \A i \in 1..n : h[i] = host[i]
  BY StripPortPrefix
<1> HIDE DEF n, h
<1>8. n = Len(name)
  <2>1. n \in Nat /\ Len(name) \in Nat /\ Len(host) \in Nat
    BY <1>2, <1>6, SMT
  <2>2. ~(n < Len(name))
    <3> SUFFICES ASSUME n < Len(name) PROVE FALSE
      OBVIOUS
    <3>1. n + 1 \in 1..Len(name) /\ n # Len(host)
      BY <2>1, <1>3, SMT
    <3> QED
      BY <3>1, <1>4, <1>5, <1>6
  <2>3. ~(Len(name) < n)
    <3> SUFFICES ASSUME Len(name) < n PROVE FALSE
      OBVIOUS
    <3>1. Len(name) + 1 \in 1..n /\ Len(name) # Len(host)
      BY <2>1, <1>6, SMT
    <3> QED
      BY <3>1, <1>3, <1>6
  <2> QED
    BY <2>1, <2>2, <2>3, SMT
<1>9. h = name
  <2>1. Len(h) = Len(name) /\ \A i \in 1..Len(name) : h[i] = name[i]
    BY <1>4, <1>7, <1>8
  <2> QED
    BY <2>1, <1>2, <1>7, SMT
<1>10. HasSuffix(h, Suffix)
  <2>1. Len(h) - Len(Suffix) = Len(id) /\ Len(h) >= Len(Suffix)
    BY <1>1, <1>2, <1>9, SuffixPositions, SMT
  <2>2. ASSUME NEW i \in 1..Len(Suffix) PROVE h[Len(id) + i] = Suffix[i]
    <3>1. CASE i = 1
      <4>1. Len(id) + i = Len(id) + 1
        BY <3>1
      <4> QED
        BY <3>1, <4>1, <1>2, <1>9, SuffixPositions
    <3>2. CASE i # 1
      <4> DEFINE j == i - 1
      <4>1. j \in 1..Len(BaseDomain) /\ i = 1 + j
        BY <3>2, <1>1, SuffixPositions, SMT
      <4> HIDE DEF j
      <4>2. h[Len(id) + 1 + j] = BaseDomain[j] /\ Suffix[1 + j] = BaseDomain[j]
        BY <4>1, <1>2, <1>9, SuffixPositions
      <4>3. Len(id) + 1 + j = Len(id) + i
        BY <4>1, <1>1, SMT
      <4> QED
        BY <4>1, <4>2, <4>3
    <3> QED
      BY <3>1, <3>2
  <2> QED
    BY <2>1, <2>2 DEF HasSuffix
<1>11. TrimSuffix(h, Suffix) = id
  <2>1. Len(h) - Len(Suffix) = Len(id) /\ Len(id) <= Len(h)
    BY <1>1, <1>2, <1>9, SuffixPositions, SMT
  <2>2. \A i \in 1..Len(id) : h[i] = id[i]
    BY <1>2, <1>9
  <2>3. SubSeq(h, 1, Len(id)) = id
    BY <2>1, <2>2, <1>7, SMT
  <2> QED
    BY <2>1, <2>3 DEF TrimSuffix
<1>12. id # <<>>
  BY <1>3, SMT
<1> QED
  BY <1>3, <1>10, <1>11, <1>12 DEF Resolve, h

-----------------------------------------------------------------------------

\* The invariants of the request path, whatever its handlers write to.
THEOREM PathInvariant == Spec => [](TypeOK /\ ReferenceInv)
BY PathInit, TypeStep, ReferenceStep, PTL DEF Spec

\* Manager.Resolve behind nethttp.Wrap: a handler's tenant is the one its host
\* names, and a host that names a tenant of the store is never answered 404.
THEOREM HostsNameTenants == Spec => []HostNamesTenant
<1>1. ASSUME TypeOK, ReferenceInv PROVE HostNamesTenant
  <2>0. StoreTypes /\ RequestTypes /\ \A r \in Requests : RequestRefs(r)
    BY <1>1, TypeParts, ReferenceParts
  <2> SUFFICES ASSUME NEW r \in Requests, req[r] # None
               PROVE  /\ req[r].t # None => Names(req[r].host, object[req[r].t].id)
                      /\ req[r].status = 404 => \A id \in Existing : ~Names(req[r].host, id)
    BY DEF HostNamesTenant
  <2>1. req[r].host \in Seq(Char) /\ Existing \subseteq Seq(Char)
    BY <2>0, RequestHost, PathAssumption DEF RequestTypes
  <2>2. ASSUME req[r].t # None PROVE Names(req[r].host, object[req[r].t].id)
    <3>1. object[req[r].t].id = Resolve(req[r].host) /\ object[req[r].t] \in Tenants
      BY <2>0, <2>2, ObjectSets, SMTT(30) DEF RequestRefs, StoreTypes
    <3>2. Resolve(req[r].host) # ErrNoTenant
      BY <3>1, ObjectSets DEF Tenants
    <3> QED
      BY <2>1, <3>1, <3>2, ResolveSound
  <2>3. ASSUME req[r].status = 404, NEW id \in Existing, Names(req[r].host, id) PROVE FALSE
    <3>1. Resolve(req[r].host) \notin Existing
      BY <2>0, <2>3, SMTT(30) DEF RequestRefs
    <3>2. Resolve(req[r].host) = id
      BY <2>1, <2>3, ResolveComplete, SMT
    <3> QED
      BY <2>3, <3>1, <3>2
  <2> QED
    BY <2>2, <2>3, SMT
<1> QED
  BY <1>1, PathInvariant, PTL

\* cachekey.Key, used by handlers with the tenant of their context, keeps the
\* tenants apart: the ids that come out of a host have no colon.
THEOREM KeysAreIsolated == Spec => []KeysIsolated
<1>1. ASSUME TypeOK, ReferenceInv, HostNamesTenant PROVE KeysIsolated
  <2>0. StoreTypes /\ RequestTypes /\ \A r \in Requests : RequestRefs(r)
    BY <1>1, TypeParts, ReferenceParts
  <2> SUFFICES ASSUME NEW r \in Requests, NEW q \in Requests, At(r, "handler"), At(q, "handler"),
                      NEW key \in CacheKeys, NEW ley \in CacheKeys,
                      Key(object[req[r].t].id, key) = Key(object[req[q].t].id, ley)
               PROVE  object[req[r].t].id = object[req[q].t].id /\ key = ley
    BY DEF KeysIsolated
  <2>1. key \in Seq(Char) /\ ley \in Seq(Char)
    BY PathAssumption, SMTT(30)
  <2>2. ASSUME NEW p \in Requests, At(p, "handler")
        PROVE  object[req[p].t].id \in Seq(Char) /\ ~Contains(object[req[p].t].id, ":")
    <3>1. req[p].t \in Requests /\ object[req[p].t] \in Tenants
      BY <2>0, <2>2, HandlerTenant
    <3>2. req[p] # None /\ req[p].t # None
      BY <2>2, <3>1, ObjectSets, SMTT(30) DEF At
    <3>3. Names(req[p].host, object[req[p].t].id)
      BY <1>1, <3>2 DEF HostNamesTenant
    <3>4. object[req[p].t].id \in TenantIDs
      BY <3>1 DEF Tenants
    <3> QED
      BY <3>3, <3>4, PathAssumption, ZenonT(30) DEF Names
  <2> QED
    BY <2>1, <2>2, KeyInjective, SMT
<1> QED
  BY <1>1, PathInvariant, HostsNameTenants, PTL

\* MemoryStore.Get: handlers that write to the State of their tenant, and not to
\* its Roles, leave the store alone.
THEOREM StoreIsIsolated ==
    ASSUME "Roles" \notin HandlerWrites
    PROVE  Spec => StoreIsolated
<1>1. ASSUME TypeOK, ReferenceInv, NEW r \in Requests, HandlerStep(r) PROVE Stored' = Stored
  <2>0. StoreTypes /\ RequestRefs(r)
    BY <1>1, TypeParts, ReferenceParts
  <2>1. CASE GetUsers(r)
    BY <2>1 DEF GetUsers, storeVars, Stored
  <2>2. CASE WriteTenant(r)
    <3>1. req[r].t \in Requests /\ slice' = slice
      BY <2>0, <2>2, WriteStep, HandlerTenant
    <3>2. \A id \in TenantIDs : id \in Objects /\ id # req[r].t
      BY <3>1, ObjectSets
    <3>3. PICK state \in States : object' \in {object, [object EXCEPT ![req[r].t] = WithState(@, state)]}
      BY <2>0, <2>2, WriteStep
    <3>4. \A id \in TenantIDs : object'[id] = object[id]
      BY <2>0, <3>2, <3>3 DEF StoreTypes
    <3> QED
      BY <3>1, <3>4, SMTT(30) DEF Stored
  <2> QED
    BY <1>1, <2>1, <2>2 DEF HandlerStep
<1>2. ASSUME TypeOK, ReferenceInv PROVE [(\E r \in Requests : HandlerStep(r)) => UNCHANGED Stored]_vars
  BY <1>1, <1>2
<1> QED
  BY <1>2, PathInvariant, PTL DEF StoreIsolated

\* A request that leaves its handler does so by its own GetUsers.
LEMMA OnlyGetUsersAnswers ==
    ASSUME RequestTypes, [Next]_vars, NEW r \in Requests, At(r, "handler"), req'[r] # req[r]
    PROVE  GetUsers(r)
<1>1. ASSUME NEW q \in Requests, NEW new, q # r, req' = [req EXCEPT ![q] = new] PROVE FALSE
  BY <1>1 DEF RequestTypes
<1>2. ASSUME NEW q \in Requests, NEW host \in Hosts, Arrive(q, host) PROVE FALSE
  <2>1. req[q] = None
    BY <1>2 DEF Arrive
  <2>2. q # r
    BY <2>1 DEF At
  <2> QED
    BY <1>1, <1>2, <2>2, SMT DEF Arrive
<1>3. ASSUME NEW q \in Requests, GetHit(q) PROVE FALSE
  BY <1>1, <1>3 DEF GetHit, Handle, At
<1>4. ASSUME NEW q \in Requests, GetMiss(q) PROVE FALSE
  BY <1>1, <1>4 DEF GetMiss, Handle, At
<1>5. ASSUME NEW q \in Requests, GetFails(q) PROVE FALSE
  BY <1>1, <1>5, SMT DEF GetFails, Answer, At
<1>6. ASSUME NEW q \in Requests, q # r, GetUsers(q) PROVE FALSE
  BY <1>1, <1>6, SMT DEF GetUsers, Answer
<1> QED
  BY <1>2, <1>3, <1>4, <1>5, <1>6, RequestFrame

\* rbac.Can, asked with a tenant that may be out of date: it grants only what
\* the tenant's own definitions give to a role the store gave it.
THEOREM GrantsAreBacked ==
    ASSUME "Roles" \notin HandlerWrites
    PROVE  Spec => GrantsBacked
<1> DEFINE Backed(r) ==
       At(r, "handler") /\ req'[r].status = 200 =>
          LET id == Resolve(req[r].host)
          IN  \E role \in held[id] : "users:write" \in definitions[id][role]
<1>1. ASSUME TypeOK, ReferenceInv, RolesInv, [Next]_vars, NEW r \in Requests PROVE Backed(r)
  <2>0. StoreTypes /\ RequestTypes /\ RequestRefs(r)
    BY <1>1, TypeParts, ReferenceParts
  <2> SUFFICES ASSUME At(r, "handler"), req'[r].status = 200
               PROVE  LET id == Resolve(req[r].host)
                      IN  \E role \in held[id] : "users:write" \in definitions[id][role]
    OBVIOUS
  <2>1. req[r].status = 0
    BY <2>0 DEF At, RequestRefs
  <2>2. /\ req[r].t \in Objects /\ object[req[r].t] # None
        /\ object[req[r].t].id = Resolve(req[r].host)
    BY <2>0, HandlerTenant, ObjectSets, SMT
  <2>3. GetUsers(r)
    BY <1>1, <2>0, <2>1, OnlyGetUsersAnswers, SMT
  <2>4. Answer(r, IF Can(object[req[r].t], "users:write") THEN 200 ELSE 403)
    BY <2>3 DEF GetUsers
  <2>5. Can(object[req[r].t], "users:write")
    BY <2>0, <2>4, SMT DEF Answer, RequestTypes
  <2>6. Range(slice[object[req[r].t].roles]) \subseteq held[object[req[r].t].id]
    BY <1>1, <2>2 DEF RolesInv
  <2> QED
    BY <2>2, <2>5, <2>6 DEF Can
<1>2. ASSUME TypeOK, ReferenceInv, RolesInv, [Next]_vars PROVE [\A r \in Requests : Backed(r)]_vars
  BY <1>1, <1>2
<1>3. Spec => []RolesInv
  BY PathInit, PathInvariant, RolesStep, PTL DEF Spec
<1> QED
  BY <1>2, <1>3, PathInvariant, PTL DEF Spec, GrantsBacked

====
