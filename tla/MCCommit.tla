------------------------------ MODULE MCCommit ------------------------------
(***************************************************************************)
(* One share and one connection, and another with the daemon started by    *)
(* hand; two handler threads.                                              *)
(***************************************************************************)
EXTENDS Commit, TLC

CONSTANTS h1, h2, s1, s2, c1, c2, p1

Ask(op, on, pw) == [op |-> op, on |-> on, pw |-> pw]

AllRequests ==
    {Ask(op, s1, FALSE) : op \in {"share.add", "share.remove", "share.make_writable"}}
    \union {Ask("share.add", s2, FALSE)}
    \union {Ask("connection.add", c1, TRUE), Ask("connection.add", c2, FALSE)}
    \union {Ask(op, c1, FALSE) : op \in {"connection.remove", "connection.set_credentials",
                                         "connection.use_fallback"}}
    \union {Ask(op, c1, FALSE) : op \in {"apply", "teardown"}}

HandlersAreAlike == Permutations(Handlers)
=============================================================================
