\* Two requests, and two changes by Update, SetState or DefineRole.  Handlers may write to the State of the tenant they are given.
CONSTANTS
    Char = {"a", "b", "c", "d", ".", ":"}
    BaseDomain <- Domain
    ErrNoTenant = ErrNoTenant
    Requests = {r1, r2}
    Hosts <- HostHeaders
    TenantIDs <- IDs
    Existing <- Stores
    States = {"Active", "Banned"}
    Roles = {"admin", "viewer"}
    RoleLists <- Lists
    Permissions = {"users:write"}
    CacheKeys <- Keys
    HandlerWrites = {"State"}
    MaxChanges = 2
    None = None
SPECIFICATION Spec
SYMMETRY Symmetry
CHECK_DEADLOCK FALSE
INVARIANTS HostNamesTenant KeysIsolated
PROPERTIES StoreIsolated GrantsBacked
