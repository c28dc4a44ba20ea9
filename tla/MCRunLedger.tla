---------------------------- MODULE MCRunLedger -----------------------------
EXTENDS RunLedger

Context(gen, run, status, until) ==
    [gen |-> gen, run |-> run, status |-> status, issued |-> 0, from |-> 1, until |-> until,
     rev |-> 1]

MCRuns == {"a", "b"}

\* A first run, its successor, a conflicting revocation and a return of the first.
MCContexts == {Context(1, "a", "active", 2), Context(2, "b", "active", 3),
               Context(2, "a", "revoked", 3), Context(3, "a", "active", 3)}
=============================================================================
