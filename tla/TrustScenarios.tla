--------------------------- MODULE TrustScenarios ---------------------------
(* Start states and requests for DesktopEnrollment: two logins, two agents, *)
(* and two to five requests per scenario.                                   *)
EXTENDS Integers, Sequences, TLC

Row(type, dev, key, login, gen, cert) ==
    [type |-> type, dev |-> dev, key |-> key, login |-> login, gen |-> gen, cert |-> cert, revoked |-> FALSE, old |-> FALSE]
Link(id) == [id |-> id, by |-> 0]

\* A browser and an endpoint under a root that clients manage, and a session between them with open sockets.
ClientIds == "o" :> Row("op", "d", "ko", "", 1, <<Link("o")>>) @@ "e" :> Row("ep", "a", "ke", "", 1, <<Link("e"), Link("o")>>)
\* The same under the server's authority: the browser is bound to its login.
ServerIds == "o" :> Row("op", "d", "ko", "l", 1, <<Link("o")>>) @@ "e" :> Row("ep", "a", "ke", "", 1, <<Link("e")>>)
Open == 0 :> [op |-> "o", agent |-> "a", live |-> TRUE, sent |-> TRUE]

Sc(mode, gen, i, s, left_) ==
    [root |-> [mode |-> mode, gen |-> gen, asked |-> 0], ids |-> i, desk |-> s, relays |-> DOMAIN s, left |-> left_]
Client(s, left_) == Sc("client", 1, ClientIds, s, left_)
Server(s, left_) == Sc("server", 1, ServerIds, s, left_)
Empty(left_) == Sc("none", 0, << >>, << >>, left_)

Get(m) == [kind |-> "get", n |-> m]
Operator(m, dev, key, gen, replace) ==
    [kind |-> "operator", n |-> m, id |-> "op" \o ToString(m), dev |-> dev, key |-> key, signer |-> "ko", gen |-> gen, replace |-> replace]
Endpoint(m, dev, key, gen, replace) == [Operator(m, dev, key, gen, replace) EXCEPT !.kind = "endpoint", !.id = "ep" \o ToString(m)]
Revoke(m, type, dev) == [kind |-> "revoke", n |-> m, type |-> type, dev |-> dev]
Put(m, dev, key) == [kind |-> "put", n |-> m, id |-> "ep" \o ToString(m), dev |-> dev, key |-> key]
Poll(m, dev) == [kind |-> "poll", n |-> m, dev |-> dev]
See(m, dev) == [kind |-> "see", n |-> m, dev |-> dev]
Gen(kind, m, gen) == [kind |-> kind, n |-> m, gen |-> gen]
Recover(m, gen, asked) == [kind |-> "recover", n |-> m, gen |-> gen, asked |-> asked]
Challenge(m, l, purpose, allowed) == [kind |-> "challenge", n |-> m, login |-> l, purpose |-> purpose, allowed |-> allowed]
Browser(m, c, l, dev, key) == [kind |-> "browser", n |-> m, c |-> c, login |-> l, id |-> "op" \o ToString(m), dev |-> dev, key |-> key]
Mac(m, c, l, dev, key, allowed) ==
    [kind |-> "mac", n |-> m, c |-> c, login |-> l, id |-> "ep" \o ToString(m), dev |-> dev, key |-> key, inst |-> "x", allowed |-> allowed]
OpenSession(m, l) == [kind |-> "open", n |-> m, login |-> l, dev |-> "d", agent |-> "a"]
Join(m, s) == [kind |-> "join", n |-> m, s |-> s]
Terminate(m, s) == [kind |-> "terminate", n |-> m, s |-> s]
Ends_(l) == [kind |-> "ends", login |-> l]
Expires(i) == [kind |-> "expires", id |-> i]

Migrations == {
    Client(Open, {Get(1), Operator(2, "d2", "k2", 1, FALSE), Endpoint(3, "b", "k3", 1, FALSE), Terminate(4, 0)}),
    Client(Open, {Get(1), Get(2), Revoke(3, "op", "d"), OpenSession(4, "l")}),
    Client(Open, {Challenge(1, "l", "browser", TRUE), Browser(2, 1, "l", "d", "ko"), Revoke(3, "ep", "a"), Endpoint(4, "a", "k4", 2, FALSE)}),
    Client(<< >>, {Gen("ask", 1, 1), Recover(2, 1, 1), Gen("reset", 3, 2), Gen("rotate", 4, 2), Get(5)}),
    Client(<< >>, {Operator(1, "d2", "k1", 1, FALSE), Operator(2, "d2", "k1", 1, FALSE), Revoke(3, "op", "d2")}),
    Client(<< >>, {Operator(1, "d", "k1", 1, TRUE), Endpoint(2, "a", "k2", 1, TRUE), Operator(3, "d", "ko", 1, FALSE)})}
Enrollments == {
    Empty({Challenge(1, "l", "browser", TRUE), Challenge(2, "l", "browser", TRUE), Browser(3, 1, "l", "d", "k"), Browser(4, 2, "l", "d", "k")}),
    Empty({Challenge(1, "l", "mac", TRUE), Challenge(2, "l", "mac", TRUE), Mac(3, 1, "l", "a", "k", TRUE), Mac(4, 2, "l", "a", "k", TRUE)}),
    Empty({Challenge(1, "l", "browser", TRUE), Challenge(2, "m", "browser", TRUE), Browser(3, 1, "l", "d", "k"), Browser(4, 2, "m", "d", "k"), Browser(5, 1, "l", "d", "k")}),
    Empty({Challenge(1, "l", "mac", TRUE), Challenge(2, "l", "mac", TRUE), Mac(3, 1, "l", "a", "k", TRUE), Mac(4, 2, "l", "b", "k", TRUE)}),
    Empty({Challenge(1, "l", "mac", FALSE), Mac(2, 1, "l", "a", "k", FALSE), Gen("bootstrap", 3, 1), Get(4), Operator(5, "d", "k", 1, FALSE), Gen("ask", 6, 1)}),
    Server(Open, {Challenge(1, "m", "browser", TRUE), Browser(2, 1, "m", "d", "ko"), Revoke(3, "op", "d"), OpenSession(4, "l")}),
    Server(<< >>, {Challenge(1, "m", "browser", TRUE), Browser(2, 1, "m", "d", "ko"), OpenSession(3, "l"), OpenSession(4, "m"), Join(5, 3)}),
    Server(<< >>, {Challenge(1, "l", "mac", TRUE), Mac(2, 1, "l", "a", "ke", TRUE), OpenSession(3, "l"), Join(5, 3), Terminate(6, 3), Poll(4, "a")}),
    Server(Open, {Join(1, 0), Terminate(2, 0), Terminate(3, 0), Revoke(4, "ep", "a")}),
    Server(Open, {Challenge(1, "l", "browser", TRUE), Browser(2, 1, "l", "d", "k2"), Gen("rotate", 3, 2), Gen("reset", 4, 2), Gen("bootstrap", 5, 1), Recover(6, 1, 1)})}
Endpoints == {
    Server(<< >>, {Put(1, "b", "k1"), Endpoint(2, "b", "k1", 1, FALSE), Endpoint(3, "b", "k1", 1, FALSE)}),
    Server(<< >>, {Put(1, "b", "k1"), Endpoint(2, "b", "k1", 1, FALSE), Put(3, "b", "k3"), See(4, "b"), Revoke(5, "ep", "b")}),
    Server(<< >>, {Put(1, "a", "k1"), Endpoint(2, "a", "k1", 1, FALSE), Endpoint(3, "a", "k1", 1, TRUE), Put(4, "a", "ke")}),
    Server(<< >>, {Operator(1, "d2", "k1", 1, FALSE), Revoke(2, "op", "d"), Expires("o"), Operator(3, "d3", "k3", 1, FALSE)}),
    Server(<< >>, {Put(1, "a", "ke"), See(2, "a"), Expires("e"), Put(3, "a", "ke"), Endpoint(4, "a", "ke", 1, FALSE), OpenSession(5, "l")})}
Pruning == {
    Server(<< >>, {Ends_("l"), Revoke(1, "op", "d"), Challenge(2, "m", "browser", TRUE), Browser(3, 2, "m", "d", "ko"), OpenSession(4, "l")}),
    Server(Open, {Ends_("l"), Ends_("m"), Challenge(1, "m", "browser", TRUE), Browser(2, 1, "m", "d", "ko")}),
    Server(<< >>, {Ends_("m"), Challenge(1, "m", "browser", TRUE), Browser(2, 1, "m", "d2", "k2"), Revoke(3, "op", "d2")}),
    Empty({Ends_("l"), Challenge(1, "l", "browser", TRUE), Browser(2, 1, "l", "d", "k"), Browser(3, 1, "m", "d", "k")})}
\* The names of operators' identities.
OperatorIds == {"o"} \union {"op" \o ToString(m) : m \in 1 .. 6}
TrustScenarios == {Empty({})} \union Migrations \union Enrollments \union Endpoints \union Pruning
=============================================================================
