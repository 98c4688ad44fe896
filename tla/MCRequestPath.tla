--------------------------- MODULE MCRequestPath ---------------------------
(***************************************************************************)
(* Model checking of RequestPath.  The base domain is "d"; the store has   *)
(* the tenants "a", "ab" and "a:b", and is also asked about "c".           *)
(***************************************************************************)
EXTENDS RequestPath, TLC

Domain == <<"d">>
Stores == {<<"a">>, <<"a", "b">>, <<"a", ":", "b">>}
IDs == Stores \cup {<<"c">>}

\* Also with a port, a colon where no port can be, an unknown tenant, two
\* labels, and no label.
HostHeaders ==
    {<<"a", ".", "d">>, <<"a", "b", ".", "d", ":", "b">>, <<"a", ":", "b", ".", "d">>,
     <<"c", ".", "d">>, <<"a", ".", "b", ".", "d">>, <<".", "d">>}

\* One role, and two.
Lists == {<<"viewer">>, <<"viewer", "admin">>}

Keys == {<<"b">>, <<"b", "b">>, <<"b", ":", "b">>, <<":">>}

Symmetry == Permutations(Requests)

=============================================================================
