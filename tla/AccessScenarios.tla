--------------------------- MODULE AccessScenarios --------------------------
(* Start states and requests for HomeAccess: a home with two admins and a    *)
(* member, or no home yet, and two to six requests per scenario.             *)
EXTENDS Integers, TLC

CONSTANT Features

User(email) == [email |-> email, password |-> "pw", login |-> TRUE, must |-> FALSE, name |-> ""]
Session(u) == [user |-> u, live |-> TRUE, old |-> FALSE]
Token(a) == [agent |-> a, live |-> TRUE, old |-> FALSE]
Invite(email) == [email |-> email, accepted |-> FALSE, old |-> FALSE]

\* Before first setup; an account may be left over from a setup that failed.
Fresh(u, left_) ==
    [users |-> u, ext |-> << >>, home |-> [none |-> TRUE], members |-> << >>, invites |-> << >>, sessions |-> << >>,
     backoff |-> << >>, agents |-> << >>, tokens |-> << >>, left |-> left_]
\* Admins ann and bob, member cy with an Entra identity, account dee outside the home; one session each.
House(m, i, left_) ==
    [users |-> [ann |-> User("a@x"), bob |-> User("b@x"), cy |-> User("c@x"), dee |-> User("d@x")],
     ext |-> "sub_c" :> "cy", home |-> [name |-> "Home", policy |-> "admins_only"], members |-> m, invites |-> i,
     sessions |-> [sa |-> Session("ann"), sb |-> Session("bob"), sc |-> Session("cy"), sd |-> Session("dee")],
     backoff |-> "c@x" :> [failures |-> 4, blocked |-> FALSE],
     agents |-> "mac" :> "primary", tokens |-> "t0" :> Token("mac"), left |-> left_]
Three == [ann |-> "admin", bob |-> "admin", cy |-> "member"]
One == [ann |-> "admin", cy |-> "member"]

Register(m, email) == [kind |-> "register", n |-> m, email |-> email, password |-> "pw"]
Login(m, email, pw) == [kind |-> "login", n |-> m, email |-> email, password |-> pw]
Change(m, s_, old_) == [kind |-> "change", n |-> m, s |-> s_, old |-> old_, password |-> "new"]
Do(kind_, m, s_) == [kind |-> kind_, n |-> m, s |-> s_]
Socket(m, t_) == [kind |-> "socket", n |-> m, t |-> t_]
InviteTo(m, s_, email_) == Do("invite", m, s_) @@ [email |-> email_]
Cancel(m, s_, i_) == Do("cancel", m, s_) @@ [i |-> i_]
Accept(m, s_, i_) == Do("accept", m, s_) @@ [i |-> i_]
Signup(m, i_, email_) == [kind |-> "signup", n |-> m, i |-> i_, email |-> email_, password |-> "pw"]
Entra(m, i_) == [kind |-> "entra", n |-> m, i |-> i_]
Callback(m, state_, subject_, email_, s_) ==
    [kind |-> "callback", n |-> m, state |-> state_, subject |-> subject_, email |-> email_, s |-> s_]
On(kind_, m, s_, u_) == Do(kind_, m, s_) @@ [u |-> u_]
Role(m, s_, u_, to_) == On("role", m, s_, u_) @@ [to |-> to_]
Reset(m, s_, u_, must_) == On("reset", m, s_, u_) @@ [must |-> must_]
Perms(m, s_, set_) == Do("perms", m, s_) @@ [set |-> set_]
MemberPerms(m, s_, u_, set_) == On("mperms", m, s_, u_) @@ [set |-> set_]
Use(m, s_, f) == Do("use", m, s_) @@ [feature |-> f]
Policy(m, s_, p) == Do("policy", m, s_) @@ [policy |-> p]
NewToken(m, s_, a_, type_) == Do("token", m, s_) @@ [a |-> a_, type |-> type_]
RevokeToken(m, s_, t_, purge_) == Do("revoke_token", m, s_) @@ [t |-> t_, purge |-> purge_]
RemoveAgent(m, s_, a_) == Do("remove_agent", m, s_) @@ [a |-> a_]
Connect(m, t_) == [kind |-> "connect", n |-> m, t |-> t_]
Aged(table_, id_) == [kind |-> "expires", table |-> table_, id |-> id_]

Setup == {
    Fresh(<< >>, {Register("r1", "a@x"), Register("r2", "b@x"), Login("r3", "b@x", "pw")}),
    Fresh(<< >>, {Register("r1", "a@x"), Register("r2", "a@x"), Do("invite", "r3", "r1") @@ [email |-> "b@x"]}),
    Fresh(<< >>, {Register("r1", "a@x"), Entra("e1", ""), Callback("c1", "e1", "sub_1", "b@x", "")}),
    Fresh(<< >>, {Entra("e1", ""), Entra("e2", ""), Callback("c1", "e1", "sub_1", "a@x", ""), Callback("c2", "e2", "sub_2", "b@x", "")}),
    Fresh("old" :> User("a@x"), {Register("r1", "a@x"), Register("r2", "b@x"), Entra("e1", ""), Callback("c1", "e1", "sub_1", "a@x", "")})}
Joining == {
    House(Three, "i" :> Invite("d@x"), {Accept("r1", "sd", "i"), Cancel("r2", "sa", "i"), Accept("r3", "sd", "i")}),
    House(Three, "i" :> Invite("d@x"), {Accept("r1", "sc", "i"), Accept("r2", "sd", "i"), Aged("invites", "i"), On("remove", "r4", "sa", "dee")}),
    House(Three, "i" :> Invite("e@x"), {Signup("r1", "i", "e@x"), Signup("r2", "i", "e@x"), Cancel("r3", "sa", "i")}),
    House(Three, "i" :> Invite("e@x"), {Signup("r1", "i", "e@x"), Signup("r5", "i", "f@x"), Entra("e1", "i"), Callback("c1", "e1", "sub_c", "", ""), Cancel("r3", "sb", "i")}),
    House(Three, "i" :> Invite("e@x"), {Signup("r1", "i", "e@x"), Entra("e1", "i"), Callback("c1", "e1", "sub_e", "", ""), Aged("flows", "e1"), On("remove", "r4", "sa", "c1")}),
    House(Three, "i" :> Invite("e@x"), {Entra("e1", "i"), Entra("e2", "i"), Callback("c1", "e1", "sub_e", "", ""), Callback("c2", "e2", "sub_f", "", ""), Cancel("r3", "sa", "i")}),
    House(Three, << >>, {InviteTo("r1", "sa", "d@x"), Accept("r2", "sd", "r1"), Signup("r3", "r1", "d@x"), InviteTo("r4", "sc", "d@x"), Entra("e1", "r1"), Entra("e2", "none")})}
Linking == {
    House(Three, << >>, {Do("link", "k1", "sd"), Callback("c1", "k1", "sub_d", "", "sd"), Do("logout", "r1", "sd")}),
    House(Three, << >>, {Do("link", "k1", "sd"), Do("link", "k2", "sa"), Callback("c1", "k1", "sub_d", "", "sd"), Callback("c2", "k2", "sub_d", "", "sa")}),
    House(Three, << >>, {Do("link", "k1", "sc"), Callback("c1", "k1", "sub_2", "", "sc"), Do("link", "k2", "sa"), Callback("c2", "k2", "sub_c", "", "sb"), Callback("c3", "no", "sub_c", "", "")}),
    House(Three, << >>, {Entra("e1", ""), Callback("c1", "e1", "sub_c", "", ""), Entra("e2", ""), Callback("c2", "e2", "sub_z", "z@x", "")})}
Members == {
    House(Three, << >>, {Role("r1", "sa", "bob", "member"), Role("r2", "sb", "ann", "member")}),
    House(Three, << >>, {On("remove", "r1", "sa", "cy"), Role("r2", "sb", "cy", "admin"), On("rename", "r3", "sc", "cy"), On("rename", "r4", "sc", "ann")}),
    House(One, << >>, {Role("r1", "sa", "ann", "member"), On("remove", "r2", "sa", "ann"), Role("r3", "sa", "cy", "admin"), On("remove", "r4", "sc", "bob")}),
    House(One, "i" :> Invite("a@x"), {Accept("r1", "sa", "i"), Do("name", "r2", "sa")}),
    House(One, << >>, {MemberPerms("r1", "sa", "cy", [f \in Features |-> IF f = "files" THEN "off" ELSE "unset"]), Use("r2", "sc", "files"), Use("r3", "sc", "notes"), Perms("r4", "sa", "notes" :> FALSE), Use("r5", "sa", "notes")}),
    House(Three, << >>, {Perms("r1", "sa", "notes" :> FALSE), Perms("r2", "sb", "files" :> FALSE), Policy("r3", "sb", "all_users"), Use("r4", "sd", "notes")}),
    House(Three, << >>, {On("remove", "r1", "sa", "bob"), On("remove", "r2", "sb", "bob"), On("remove", "r3", "sa", "cy"), On("remove", "r4", "sb", "cy")}),
    House(Three, << >>, {On("rename", "r1", "sa", "cy"), On("remove", "r2", "sb", "cy"), MemberPerms("r3", "sa", "cy", [f \in Features |-> "on"])})}
SignIn == {
    House(Three, << >>, {Login("r1", "c@x", "no"), Login("r2", "c@x", "no"), Login("r3", "c@x", "pw"), Aged("backoff", "c@x")}),
    House(Three, << >>, {Login("r1", "c@x", "pw"), Reset("r2", "sa", "cy", TRUE), Do("ticket", "r3", "sc"), Socket("r4", "r3"), Change("r5", "r1", "pw")}),
    House(Three, << >>, {Reset("r1", "sa", "cy", TRUE), Login("r2", "c@x", "r1"), Do("ticket", "r3", "r2"), Change("r4", "r2", "r1")}),
    House(Three, << >>, {Do("ticket", "r1", "sc"), Socket("r2", "r1"), Socket("r3", "r1"), Do("logout", "r4", "sc"), Aged("tickets", "r1"), Aged("sessions", "sc")}),
    House(Three, << >>, {Change("r1", "sa", "pw"), Change("r2", "sa", "no"), Reset("r3", "sb", "ann", FALSE), Reset("r4", "sa", "ann", FALSE), Login("r5", "z@x", "pw")}),
    House(Three, << >>, {Login("r1", "c@x", "pw"), Do("ticket", "r2", "r1"), Socket("r3", "r2"), Reset("r4", "sa", "cy", TRUE), Login("r5", "c@x", "r4"), Do("ticket", "r6", "sc")})}
Fleet == {
    House(Three, << >>, {NewToken("r1", "sa", "mac", ""), RemoveAgent("r2", "sb", "mac"), NewToken("r3", "sb", "mac", "worker"), Connect("r4", "t0")}),
    House(Three, << >>, {RemoveAgent("r1", "sa", "mac"), NewToken("r2", "sa", "pc", "primary"), NewToken("r3", "sb", "nas", "")}),
    House(Three, << >>, {RemoveAgent("r1", "sa", "mac"), RemoveAgent("r2", "sb", "mac"), NewToken("r3", "sa", "mac", "primary"), Connect("r4", "r3"), Connect("r5", "t0")}),
    House(Three, << >>, {NewToken("r1", "sa", "pc", "primary"), NewToken("r2", "sa", "mac", "worker"), NewToken("r3", "sb", "pc", ""), RevokeToken("r4", "sa", "t0", FALSE), Connect("r5", "t0")}),
    House(Three, << >>, {NewToken("r1", "sa", "pc", "worker"), RevokeToken("r2", "sa", "t0", TRUE), RevokeToken("r3", "sb", "t0", FALSE), Aged("tokens", "r1"), Connect("r4", "r1")})}
AccessScenarios == {Fresh(<< >>, {})} \union Setup \union Joining \union Linking \union Members \union SignIn \union Fleet
=============================================================================
