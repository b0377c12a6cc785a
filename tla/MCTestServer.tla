--------------------------- MODULE MCTestServer ---------------------------
(* Model-checking instance of TestServer: a test and a start of a user's,  *)
(* on free ports, which may be those of the test, or with options that are *)
(* refused.  A user's Stop may meet another one, or a CheckTorDaemon.      *)
EXTENDS TestServer

Pair(s, c) == [r \in Roles |-> IF r = "socks" THEN s ELSE c]
Opt(p, f, d, t) == [ports |-> p, torrc |-> f, dataDir |-> d, startupTimeout |-> t]

MCPorts == {1, 2}
MCOtherPorts == {1}
MCTestOptions == Opt(Pair(1, 2), Pair(1, 2), "given", 0)
MCOptions == {MCTestOptions, Opt(Pair(Unset, Unset), Unset, Unset, 0),
              Opt(Pair(1, 2), Unset, Unset, -1)}
==========================================================================
