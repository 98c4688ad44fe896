---------------------------- MODULE TenantNames ----------------------------
(***************************************************************************)
(* The names of tenants: how resolver.SubdomainResolver takes a TenantID   *)
(* out of a Host header, and how cachekey.Key puts it into a cache key.    *)
(* Strings are sequences of characters.                                    *)
(***************************************************************************)
EXTENDS Integers, Sequences

CONSTANTS
    Char,        \* the characters
    BaseDomain,  \* sr.baseDomain
    ErrNoTenant

\* The library functions of package strings, as far as Resolve uses them.
Contains(s, c) == \E i \in 1..Len(s) : s[i] = c
Before(s, c) == CHOOSE n \in 0..Len(s) : (n = Len(s) \/ s[n + 1] = c) /\ \A i \in 1..n : s[i] # c
HasSuffix(s, t) == Len(s) >= Len(t) /\ \A i \in 1..Len(t) : s[Len(s) - Len(t) + i] = t[i]
TrimSuffix(s, t) == SubSeq(s, 1, Len(s) - Len(t))

\* Resolve: strip an optional port, from the first ":".
StripPort(host) == SubSeq(host, 1, Before(host, ":"))

Suffix == <<".">> \o BaseDomain

\* Resolve: what is in front of the base domain, when it is one label.
Resolve(host) ==
    LET h == StripPort(host)
        subdomain == TrimSuffix(h, Suffix)
    IN  IF ~HasSuffix(h, Suffix) \/ subdomain = <<>> \/ Contains(subdomain, ".")
        THEN ErrNoTenant ELSE subdomain

Key_NoSeparator(tenantID, key) == <<"tenant", ":">> \o tenantID \o key
\* cachekey.Key: "tenant:%s:%s".
Key(tenantID, key) == <<"tenant", ":">> \o tenantID \o <<":">> \o key

-----------------------------------------------------------------------------
\* What Resolve has to compute: the host is the tenant's label, the base domain
\* and possibly a port, and the label has neither dots nor colons.
Names(host, id) ==
    /\ Len(id) > 0 /\ ~Contains(id, ".") /\ ~Contains(id, ":")
    /\ LET name == id \o <<".">> \o BaseDomain
       IN  /\ Len(host) >= Len(name)
           /\ SubSeq(host, 1, Len(name)) = name
           /\ Len(host) = Len(name) \/ host[Len(name) + 1] = ":"

=============================================================================
