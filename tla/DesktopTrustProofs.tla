------------------------- MODULE DesktopTrustProofs -------------------------
(***************************************************************************)
(* What was revoked stays out and sessions follow the trust tables, for    *)
(* any number of identities, requests, sessions and logins.  First the     *)
(* shape of a request at each of its steps, and what every statement on    *)
(* the tables preserves; then the argument: every request waits for what   *)
(* still holds when it goes on (Fits), so its next step keeps the tables   *)
(* in order (IInv).  Ops are the names of operators' identities.           *)
(***************************************************************************)
EXTENDS DesktopEnrollment, TLAPS

CONSTANT Ops

-----------------------------------------------------------------------------
(* Certificates *)

IsChain(c) == \E S : c \in Seq(S) /\ Len(c) > 0

LEMMA ChainOne ==
    ASSUME NEW x
    PROVE  IsChain(<<x>>) /\ Len(<<x>>) = 1 /\ <<x>>[1] = x
<1>1. <<x>> \in Seq({x}) /\ Len(<<x>>) > 0
  OBVIOUS
<1>2. IsChain(<<x>>)
  BY Zenon, <1>1 DEF IsChain
<1>3. Len(<<x>>) = 1 /\ <<x>>[1] = x
  OBVIOUS
<1> QED
  BY Zenon, <1>2, <1>3

LEMMA ChainCons ==
    ASSUME NEW x, NEW c, IsChain(c)
    PROVE  IsChain(<<x>> \o c) /\ Len(<<x>> \o c) # 1 /\ (<<x>> \o c)[1] = x
<1>1. PICK S : c \in Seq(S) /\ Len(c) > 0
  BY Zenon DEF IsChain
<1>2. c \in Seq(S \cup {x}) /\ <<x>> \in Seq(S \cup {x})
  BY <1>1
<1>3. <<x>> \o c \in Seq(S \cup {x}) /\ Len(<<x>> \o c) = 1 + Len(c) /\ (<<x>> \o c)[1] = x
  BY <1>2
<1> QED
  BY <1>1, <1>2, <1>3 DEF IsChain

\* The last link of an active chain is an identity whose certificate has no other link.
LEMMA ActiveChainEnds ==
    ASSUME NEW c, NEW gen, IsChain(c), desktopCertificateChainIsActive(c, gen)
    PROVE  \E i \in DOMAIN ids : ~ids[i].revoked /\ ids[i].gen = gen /\ Len(ids[i].cert) = 1
<1>1. PICK S : c \in Seq(S) /\ Len(c) > 0
  BY Zenon DEF IsChain
<1>2. Len(c) \in 1 .. Len(c) /\ Len(SubSeq(c, Len(c), Len(c))) = 1
  BY <1>1
<1>3. PICK k \in 1 .. Len(c) : k = Len(c)
  BY Zenon, <1>2
<1>4. PICK e : e = c[k].id
  OBVIOUS
<1>5. e \in DOMAIN ids /\ Active(e) /\ ids[e].gen = gen /\ ids[e].cert = SubSeq(c, k, Len(c))
  BY Zenon, <1>4 DEF desktopCertificateChainIsActive
<1>6. Len(ids[e].cert) = 1
  BY Zenon, <1>2, <1>3, <1>5
<1> QED
  BY Zenon, <1>5, <1>6 DEF Active

LEMMA ActiveChainStarts ==
    ASSUME NEW c, NEW gen, desktopCertificateChainIsActive(c, gen)
    PROVE  c[1].id \in DOMAIN ids /\ ~ids[c[1].id].revoked /\ ids[c[1].id].gen = gen
<1>0. Len(c) \in 1 .. 9
  BY Zenon DEF desktopCertificateChainIsActive
<1>1. PICK len \in 1 .. 9 : len = Len(c)
  BY Zenon, <1>0
<1>2. 1 \in 1 .. Len(c)
  BY <1>1
<1> QED
  BY Zenon, <1>2 DEF desktopCertificateChainIsActive, Active

-----------------------------------------------------------------------------
(* The requests *)

RowOk(row) == DOMAIN row = Fields /\ row.type \in {"op", "ep"} /\ (row.type = "ep" => row.login = Unset)

\* A request that will install a row under its id.
Enrolling(q) ==
    /\ "id" \in DOMAIN q /\ q.kind \in {"browser", "endpoint", "mac"}
    /\ RowOk(q.row) /\ (q.row.type = "op" <=> q.id \in Ops)

\* What a request at its step has read, as far as it is its own.
Shape(q) ==
    /\ {"pc", "gen0", "row", "cur", "seen", "kind"} \subseteq DOMAIN q
    /\ q.pc \in {"install", "create", "look_again", "refresh", "pending_existing", "upsert"} => Enrolling(q)
    /\ q.pc \in {"ensure", "ensure_tx"} /\ q.kind # "get" => Enrolling(q)
    /\ q.pc = "refresh" => (q.row.type = "op" <=> q.cur \in Ops)
    /\ q.pc = "pending" => /\ q.kind = "endpoint" /\ {"id", "dev"} \subseteq DOMAIN q
                           /\ q.id \notin Ops /\ q.dev \in Agents
    /\ q.pc = "agent" => q.kind = "mac" /\ "id" \in DOMAIN q /\ q.id \notin Ops
    /\ q.pc = "verify" => /\ q.kind \in {"operator", "endpoint"} /\ "id" \in DOMAIN q
                          /\ (q.kind = "operator" <=> q.id \in Ops)
    /\ q.pc \in {"existing", "insert"} =>
         /\ "id" \in DOMAIN q /\ RowOk(q.row) /\ (q.row.type = "op" <=> q.id \in Ops)
         /\ IsChain(q.row.cert) /\ Len(q.row.cert) # 1 /\ q.row.cert[1].id = q.id
    /\ q.pc \in {"revoke_live", "revoke_tx"} => q.kind = "revoke"
    /\ q.pc = "relays" => q.kind \in {"revoke", "browser", "endpoint", "mac", "terminate", "open"}
    /\ q.pc = "terminate" => q.kind = "terminate"
    /\ q.pc \in {"session", "offer"} =>
         q.kind = "open" /\ "agent" \in DOMAIN q /\ q.cur \in Ops /\ q.row.cert[1].id = q.cur

ShapeInv == \A n \in DOMAIN requests : Shape(requests[n])

\* The identities, as far as the requests read them, and what is asked for.
IdsInv ==
    \A i \in DOMAIN ids :
        /\ RowOk(ids[i]) /\ (ids[i].type = "op" <=> i \in Ops)
        /\ IsChain(ids[i].cert) /\ ids[i].cert[1].id = i
PendingInv == DOMAIN pending = Agents /\ \A a \in Agents : pending[a] # None => pending[a].id \notin Ops

\* What a step of request n does to the table.
Moves(n) ==
    /\ DOMAIN requests' \subseteq DOMAIN requests /\ DOMAIN requests \ {n} \subseteq DOMAIN requests'
    /\ \A m \in DOMAIN requests' : m # n => requests'[m] = requests[m]
    /\ n \in DOMAIN requests' => Shape(requests'[n])

LEMMA AnsweredMoves ==
    ASSUME NEW n, NEW answer, Answered(n, answer)
    PROVE  Moves(n)
BY Zenon DEF Answered, Moves, Without

LEMMA GoesMoves ==
    ASSUME NEW n \in DOMAIN requests, NEW pc, Goes(n, pc), Shape([requests[n] EXCEPT !.pc = pc])
    PROVE  Moves(n)
BY Zenon DEF Goes, Moves

LEMMA InstalledMoves ==
    ASSUME NEW n \in DOMAIN requests, Shape(requests[n]), requests[n].kind \in {"browser", "endpoint", "mac"}, Installed(n)
    PROVE  Moves(n)
<1>1. CASE Answered(n, "ok")
  BY Zenon, <1>1, AnsweredMoves
<1>2. CASE Goes(n, "delete_pending")
  <2>1. Shape([requests[n] EXCEPT !.pc = "delete_pending"])
    BY Zenon DEF Shape
  <2> QED
    BY Zenon, <1>2, <2>1, GoesMoves
<1>3. CASE Goes(n, "revoke_tokens")
  <2>1. Shape([requests[n] EXCEPT !.pc = "revoke_tokens"])
    BY Zenon DEF Shape
  <2> QED
    BY Zenon, <1>3, <2>1, GoesMoves
<1> QED
  BY Zenon, <1>1, <1>2, <1>3 DEF Installed

LEMMA HasAuthorityMoves ==
    ASSUME NEW n \in DOMAIN requests, NEW gen, Shape(requests[n]), requests[n].pc \in {"ensure", "ensure_tx"}, HasAuthority(n, gen)
    PROVE  Moves(n)
<1>1. CASE requests[n].kind = "get"
  BY Zenon, <1>1, AnsweredMoves DEF HasAuthority
<1>2. CASE requests[n].kind # "get"
  <2>1. Shape([[requests[n] EXCEPT !.pc = "install"] EXCEPT !.gen0 = gen])
    BY Zenon, <1>2 DEF Shape, Enrolling
  <2> QED
    BY Zenon, <1>2, <2>1 DEF HasAuthority, Installs, Moves
<1> QED
  BY Zenon, <1>1, <1>2

\* One lemma per step that reads on, and one for all that answer.
LEMMA EnsureMoves ==
    ASSUME NEW n \in DOMAIN requests, Shape(requests[n]), root.mode = "none" => requests[n].kind # "get",
           EnsureReads(n) \/ EnsureServerManagedDesktopTrust(n) \/ EnsureAborts(n)
    PROVE  Moves(n)
<1>1. CASE EnsureReads(n)
  <2>1. CASE root.mode = "server"
    BY Zenon, <1>1, <2>1, HasAuthorityMoves DEF EnsureReads, At
  <2>2. CASE root.mode # "server"
    <3>1. Shape([requests[n] EXCEPT !.pc = "ensure_tx"])
      BY Zenon, <1>1 DEF EnsureReads, At, Shape, Enrolling
    <3> QED
      BY Zenon, <1>1, <2>2, <3>1, GoesMoves DEF EnsureReads
  <2> QED
    BY Zenon, <2>1, <2>2
<1>2. CASE EnsureServerManagedDesktopTrust(n)
  <2>0. requests[n].pc = "ensure_tx"
    BY Zenon, <1>2 DEF EnsureServerManagedDesktopTrust, At
  <2>1. CASE root.mode = "none"
    <3>1. HasAuthority(n, 1)
      BY Zenon, <1>2, <2>1 DEF EnsureServerManagedDesktopTrust, HasAuthority
    <3> QED
      BY Zenon, <2>0, <3>1, HasAuthorityMoves
  <2>2. CASE root.mode # "none"
    BY Zenon, <1>2, <2>0, <2>2, HasAuthorityMoves DEF EnsureServerManagedDesktopTrust
  <2> QED
    BY Zenon, <2>1, <2>2
<1>3. CASE EnsureAborts(n)
  BY Zenon, <1>3, AnsweredMoves DEF EnsureAborts, mapDesktopStoreError
<1> QED
  BY Zenon, <1>1, <1>2, <1>3

LEMMA InstallMoves ==
    ASSUME IdsInv, NEW n \in DOMAIN requests, Shape(requests[n]),
           InstallReads(n) \/ InstallCreates(n) \/ getActiveDesktopIdentity(n) \/ RefreshDesktopIdentity(n)
           \/ RefreshAborts(n) \/ InstallReplaces(n) \/ revokeDesktopRelays(n)
    PROVE  Moves(n)
<1>1. CASE InstallReads(n)
  <2> DEFINE found == Current(RowOf(n).type, RowOf(n).dev)
  <2>0. requests[n].pc = "install" /\ Enrolling(requests[n])
    BY Zenon, <1>1 DEF InstallReads, At, Shape
  <2>1. CASE found = {}
    <3>1. Shape([requests[n] EXCEPT !.pc = "create"])
      BY Zenon, <2>0 DEF Shape, Enrolling
    <3> QED
      BY Zenon, <1>1, <2>1, <3>1, GoesMoves DEF InstallReads
  <2>2. CASE found # {}
    <3>1. PICK i : i = CHOOSE j \in found : TRUE
      OBVIOUS
    <3>2. i \in DOMAIN ids /\ ids[i].type = RowOf(n).type
      BY Zenon, <2>2, <3>1 DEF Current
    <3>3. CASE Answered(n, "ok")
      BY Zenon, <3>3, AnsweredMoves
    <3>4. ASSUME NEW pc \in {"refresh", "replace"}, requests' = [requests EXCEPT ![n].cur = i, ![n].pc = pc]
          PROVE  Moves(n)
      <4>1. Shape([[requests[n] EXCEPT !.cur = i] EXCEPT !.pc = pc])
        BY Zenon, <2>0, <3>2, <3>4 DEF Shape, Enrolling, IdsInv, RowOf
      <4> QED
        BY Zenon, <3>4, <4>1 DEF Moves
    <3> HIDE DEF found
    <3>5. Answered(n, "ok") \/ \E pc \in {"refresh", "replace"} : requests' = [requests EXCEPT ![n].cur = i, ![n].pc = pc]
      BY Zenon, <1>1, <2>2, <3>1 DEF InstallReads, found
    <3> QED
      BY Zenon, <3>3, <3>4, <3>5
  <2> QED
    BY Zenon, <2>1, <2>2
<1>2. CASE InstallCreates(n)
  <2>0. requests[n].pc = "create" /\ Enrolling(requests[n])
    BY Zenon, <1>2 DEF InstallCreates, At, Shape
  <2>1. Installed(n) \/ Goes(n, "look_again") \/ Answered(n, "error")
    BY Zenon, <1>2 DEF InstallCreates, CreateDesktopIdentity
  <2>2. Shape([requests[n] EXCEPT !.pc = "look_again"])
    BY Zenon, <2>0 DEF Shape, Enrolling
  <2> QED
    BY Zenon, <2>0, <2>1, <2>2, InstalledMoves, GoesMoves, AnsweredMoves DEF Enrolling
<1>3. CASE getActiveDesktopIdentity(n)
  <2>0. requests[n].pc = "look_again" /\ Enrolling(requests[n])
    BY Zenon, <1>3 DEF getActiveDesktopIdentity, At, Shape
  <2>1. Installed(n) \/ Answered(n, "conflict")
    BY Zenon, <1>3 DEF getActiveDesktopIdentity
  <2> QED
    BY Zenon, <2>0, <2>1, InstalledMoves, AnsweredMoves DEF Enrolling
<1>4. CASE RefreshDesktopIdentity(n)
  <2>0. requests[n].pc = "refresh" /\ Enrolling(requests[n])
    BY Zenon, <1>4 DEF RefreshDesktopIdentity, At, Shape
  <2>1. \/ \E answer : Answered(n, answer)
        \/ requests' = [requests EXCEPT ![n].pc = "relays", ![n].seen = LiveIn(requests[n].cur)]
    BY Zenon, <1>4 DEF RefreshDesktopIdentity
  <2>2. Shape([[requests[n] EXCEPT !.pc = "relays"] EXCEPT !.seen = LiveIn(requests[n].cur)])
    BY Zenon, <2>0 DEF Shape, Enrolling
  <2>3. CASE requests' = [requests EXCEPT ![n].pc = "relays", ![n].seen = LiveIn(requests[n].cur)]
    BY Zenon, <2>2, <2>3 DEF Moves
  <2> QED
    BY Zenon, <2>1, <2>3, AnsweredMoves
<1>5. CASE RefreshAborts(n) \/ InstallReplaces(n)
  BY Zenon, <1>5, AnsweredMoves DEF RefreshAborts, mapDesktopStoreError, InstallReplaces
<1>6. CASE revokeDesktopRelays(n)
  <2>0. requests[n].kind \in {"revoke", "browser", "endpoint", "mac", "terminate", "open"}
    BY Zenon, <1>6 DEF revokeDesktopRelays, At, Shape
  <2>1. CASE requests[n].kind \in {"revoke", "terminate", "open"}
    BY Zenon, <1>6, <2>1, AnsweredMoves DEF revokeDesktopRelays, RelaysRevoked
  <2>2. CASE requests[n].kind \in {"browser", "endpoint", "mac"}
    BY Zenon, <1>6, <2>2, InstalledMoves DEF revokeDesktopRelays, RelaysRevoked
  <2> QED
    BY Zenon, <2>0, <2>1, <2>2
<1> QED
  BY Zenon, <1>1, <1>2, <1>3, <1>4, <1>5, <1>6

LEMMA ApprovalMoves ==
    ASSUME IdsInv, PendingInv, NEW n \in DOMAIN requests, Shape(requests[n]),
           verifyDesktopApprover(n) \/ ApprovalLooks(n) \/ ApprovalInserts(n) \/ PendingReads(n) \/ PendingLooks(n)
           \/ DeleteDesktopPendingEnrollment(n)
    PROVE  Moves(n)
<1>1. CASE verifyDesktopApprover(n)
  <2> DEFINE r == requests[n]
  <2> DEFINE type == IF r.kind = "operator" THEN "op" ELSE "ep"
  <2>0. r.pc = "verify"
    BY Zenon, <1>1 DEF verifyDesktopApprover, At
  <2>1. ASSUME NEW a \in Approvers(r.gen, r.signer),
               requests' = [requests EXCEPT ![n].pc = "existing",
                            ![n].row = certificateWithIssuer(Identity(r, type, r.dev, r.key, Unset), r.id, r.gen, n, a)]
        PROVE  Moves(n)
    <3> DEFINE row == certificateWithIssuer(Identity(r, type, r.dev, r.key, Unset), r.id, r.gen, n, a)
    <3>1. IsChain(ids[a].cert)
      BY Zenon DEF Approvers, IdsInv
    <3>2. RowOk(row) /\ row.type = type /\ row.cert = <<[id |-> r.id, by |-> n]>> \o ids[a].cert
      BY Zenon DEF certificateWithIssuer, Identity, RowOk, Fields
    <3> HIDE DEF row
    <3>a. PICK x : x = [id |-> r.id, by |-> n]
      BY Zenon
    <3>b. x.id = r.id
      BY Zenon, <3>a
    <3>3. IsChain(row.cert) /\ Len(row.cert) # 1 /\ row.cert[1].id = r.id
      BY <3>1, <3>2, <3>a, <3>b, ChainCons
    <3>4. Shape([[r EXCEPT !.pc = "existing"] EXCEPT !.row = row])
      BY Zenon, <2>0, <3>2, <3>3 DEF Shape
    <3> QED
      BY Zenon, <2>1, <3>4 DEF Moves, row
  <2>2. (\E answer : Answered(n, answer))
        \/ \E a \in Approvers(r.gen, r.signer) :
               requests' = [requests EXCEPT ![n].pc = "existing",
                            ![n].row = certificateWithIssuer(Identity(r, type, r.dev, r.key, Unset), r.id, r.gen, n, a)]
    BY Zenon, <1>1 DEF verifyDesktopApprover
  <2> QED
    BY Zenon, <2>1, <2>2, AnsweredMoves
<1>2. CASE ApprovalLooks(n)
  <2>0. requests[n].pc = "existing"
    BY Zenon, <1>2 DEF ApprovalLooks, At
  <2>1. \/ Goes(n, "insert") \/ Answered(n, "conflict")
        \/ \E i : requests' = [requests EXCEPT ![n].pc = "replace", ![n].cur = i]
    BY Zenon, <1>2 DEF ApprovalLooks
  <2>2. Shape([requests[n] EXCEPT !.pc = "insert"])
    BY Zenon, <2>0 DEF Shape
  <2>3. ASSUME NEW i, requests' = [requests EXCEPT ![n].pc = "replace", ![n].cur = i]
        PROVE  Moves(n)
    <3>1. Shape([[requests[n] EXCEPT !.pc = "replace"] EXCEPT !.cur = i])
      BY Zenon, <2>0 DEF Shape
    <3> QED
      BY Zenon, <2>3, <3>1 DEF Moves
  <2> QED
    BY Zenon, <2>1, <2>2, <2>3, GoesMoves, AnsweredMoves
<1>3. CASE ApprovalInserts(n)
  <2>1. Shape([requests[n] EXCEPT !.pc = "delete_pending"])
    BY Zenon DEF Shape
  <2>2. Goes(n, "delete_pending") \/ \E answer : Answered(n, answer)
    BY Zenon, <1>3 DEF ApprovalInserts
  <2> QED
    BY Zenon, <2>1, <2>2, GoesMoves, AnsweredMoves
<1>4. CASE PendingReads(n)
  <2> DEFINE r == requests[n]
  <2> DEFINE asked == pending[r.dev]
  <2>0. r.pc = "pending"
    BY Zenon, <1>4 DEF PendingReads, At
  <2>1. CASE asked = None
    BY Zenon, <1>4, <2>1, AnsweredMoves DEF PendingReads
  <2>2. CASE asked # None
    <3> DEFINE row == Identity(r, "ep", r.dev, asked.key, Unset)
    <3> DEFINE q == [r EXCEPT !.pc = "pending_existing", !.id = asked.id, !.row = row]
    <3>1. RowOk(row) /\ row.type = "ep"
      BY Zenon DEF Identity, RowOk, Fields
    <3>2. asked.id \notin Ops
      BY Zenon, <2>0, <2>2 DEF Shape, PendingInv
    <3> HIDE DEF row
    <3>3. Shape(q)
      BY Zenon, <2>0, <3>1, <3>2 DEF Shape, Enrolling
    <3>4. requests' = [requests EXCEPT ![n] = q]
      BY Zenon, <1>4, <2>2 DEF PendingReads, row
    <3> HIDE DEF q
    <3> QED
      BY Zenon, <3>3, <3>4 DEF Moves
  <2> QED
    BY Zenon, <2>1, <2>2
<1>5. CASE PendingLooks(n)
  <2>1. Shape([requests[n] EXCEPT !.pc = "ensure"])
    BY Zenon, <1>5 DEF PendingLooks, At, Shape, Enrolling
  <2> QED
    BY Zenon, <1>5, <2>1, GoesMoves, AnsweredMoves DEF PendingLooks
<1>6. CASE DeleteDesktopPendingEnrollment(n)
  BY Zenon, <1>6, AnsweredMoves DEF DeleteDesktopPendingEnrollment
<1> QED
  BY Zenon, <1>1, <1>2, <1>3, <1>4, <1>5, <1>6

LEMMA RevocationMoves ==
    ASSUME NEW n \in DOMAIN requests, Shape(requests[n]),
           ListLiveDesktopSessionIDs(n) \/ RevokeDesktopIdentity(n) \/ RevokeAborts(n)
           \/ IssueDesktopRecoveryChallenge(n) \/ ConsumeDesktopRecoveryChallenge(n) \/ ReplacesTrust(n)
    PROVE  Moves(n)
<1>1. CASE ListLiveDesktopSessionIDs(n)
  <2>1. PICK seen : requests' = [requests EXCEPT ![n].pc = "revoke_tx", ![n].seen = seen]
    BY Zenon, <1>1 DEF ListLiveDesktopSessionIDs
  <2>2. Shape([[requests[n] EXCEPT !.pc = "revoke_tx"] EXCEPT !.seen = seen])
    BY Zenon, <1>1 DEF ListLiveDesktopSessionIDs, At, Shape
  <2> QED
    BY Zenon, <2>1, <2>2 DEF Moves
<1>2. CASE RevokeDesktopIdentity(n)
  <2>1. \/ Answered(n, "conflict")
        \/ \E seen : requests' = [requests EXCEPT ![n].pc = "relays", ![n].seen = seen]
    <3>1. CASE CanRevoke(requests[n].cur) /\ LiveIn(requests[n].cur) = {}
      <4>1. requests' = [requests EXCEPT ![n].pc = "relays", ![n].seen = requests[n].seen]
        BY Zenon, <1>2, <3>1 DEF RevokeDesktopIdentity
      <4> QED
        BY Zenon, <4>1
    <3> QED
      BY Zenon, <1>2, <3>1 DEF RevokeDesktopIdentity
  <2>2. ASSUME NEW seen, requests' = [requests EXCEPT ![n].pc = "relays", ![n].seen = seen]
        PROVE  Moves(n)
    <3>1. Shape([[requests[n] EXCEPT !.pc = "relays"] EXCEPT !.seen = seen])
      BY Zenon, <1>2 DEF RevokeDesktopIdentity, At, Shape
    <3> QED
      BY Zenon, <2>2, <3>1 DEF Moves
  <2> QED
    BY Zenon, <2>1, <2>2, AnsweredMoves
<1>3. CASE RevokeAborts(n) \/ IssueDesktopRecoveryChallenge(n) \/ ConsumeDesktopRecoveryChallenge(n) \/ ReplacesTrust(n)
  BY Zenon, <1>3, AnsweredMoves DEF RevokeAborts, mapDesktopStoreError,
     IssueDesktopRecoveryChallenge, ConsumeDesktopRecoveryChallenge, ReplacesTrust
<1> QED
  BY Zenon, <1>1, <1>2, <1>3

LEMMA MacMoves ==
    ASSUME NEW n \in DOMAIN requests, Shape(requests[n]),
           MacReadsAgent(n) \/ UpsertAgent(n) \/ RevokeAgentTokensForAgent(n) \/ CreateAgentToken(n)
    PROVE  Moves(n)
<1>1. CASE MacReadsAgent(n)
  <2> DEFINE r == requests[n]
  <2>1. PICK a : requests' = [requests EXCEPT ![n].pc = "upsert", ![n].dev = a, ![n].row = Identity(r, "ep", a, r.key, Unset)]
    BY Zenon, <1>1 DEF MacReadsAgent
  <2> DEFINE row == Identity(r, "ep", a, r.key, Unset)
  <2>2. RowOk(row) /\ row.type = "ep"
    BY Zenon DEF Identity, RowOk, Fields
  <2> HIDE DEF row
  <2>3. Shape([[[r EXCEPT !.pc = "upsert"] EXCEPT !.dev = a] EXCEPT !.row = row])
    BY Zenon, <1>1, <2>2 DEF MacReadsAgent, At, Shape, Enrolling
  <2> QED
    BY Zenon, <2>1, <2>3 DEF Moves, row
<1>2. CASE UpsertAgent(n)
  <2>1. Shape([requests[n] EXCEPT !.pc = "ensure"])
    BY Zenon, <1>2 DEF UpsertAgent, At, Shape, Enrolling
  <2> QED
    BY Zenon, <1>2, <2>1, GoesMoves, AnsweredMoves DEF UpsertAgent
<1>3. CASE RevokeAgentTokensForAgent(n)
  <2>1. Shape([requests[n] EXCEPT !.pc = "create_token"])
    BY Zenon DEF Shape
  <2> QED
    BY Zenon, <1>3, <2>1, GoesMoves DEF RevokeAgentTokensForAgent
<1>4. CASE CreateAgentToken(n)
  BY Zenon, <1>4, AnsweredMoves DEF CreateAgentToken
<1> QED
  BY Zenon, <1>1, <1>2, <1>3, <1>4

LEMMA SessionMoves ==
    ASSUME NEW n \in DOMAIN requests, Shape(requests[n]),
           CreateDesktopSession(n) \/ sendDesktopOffer(n) \/ JoinsRelay(n) \/ TerminateDesktopSession(n)
    PROVE  Moves(n)
<1>1. CASE CreateDesktopSession(n)
  <2>1. Shape([requests[n] EXCEPT !.pc = "offer"])
    BY Zenon, <1>1 DEF CreateDesktopSession, At, Shape
  <2>2. Goes(n, "offer") \/ \E answer : Answered(n, answer)
    BY Zenon, <1>1 DEF CreateDesktopSession
  <2> QED
    BY Zenon, <2>1, <2>2, GoesMoves, AnsweredMoves
<1>2. CASE sendDesktopOffer(n)
  <2>1. \/ \E answer : Answered(n, answer)
        \/ requests' = [requests EXCEPT ![n].pc = "relays", ![n].seen = {n}]
    BY Zenon, <1>2 DEF sendDesktopOffer
  <2>2. CASE requests' = [requests EXCEPT ![n].pc = "relays", ![n].seen = {n}]
    <3>1. Shape([[requests[n] EXCEPT !.pc = "relays"] EXCEPT !.seen = {n}])
      BY Zenon, <1>2 DEF sendDesktopOffer, At, Shape
    <3> QED
      BY Zenon, <2>2, <3>1 DEF Moves
  <2> QED
    BY Zenon, <2>1, <2>2, AnsweredMoves
<1>3. CASE JoinsRelay(n)
  BY Zenon, <1>3, AnsweredMoves DEF JoinsRelay
<1>4. CASE TerminateDesktopSession(n)
  <2>1. Shape([requests[n] EXCEPT !.pc = "relays"])
    BY Zenon, <1>4 DEF TerminateDesktopSession, At, Shape
  <2> QED
    BY Zenon, <1>4, <2>1, GoesMoves, AnsweredMoves DEF TerminateDesktopSession
<1> QED
  BY Zenon, <1>1, <1>2, <1>3, <1>4

LEMMA StepMoves ==
    ASSUME IdsInv, PendingInv, NEW n \in DOMAIN requests, Shape(requests[n]), root.mode = "none" => requests[n].kind # "get" \/ requests[n].pc \notin {"ensure", "ensure_tx"},
           Step(n)
    PROVE  Moves(n)
BY Zenon, EnsureMoves, InstallMoves, ApprovalMoves, RevocationMoves, MacMoves, SessionMoves DEF
   Step, EnsureReads, EnsureServerManagedDesktopTrust, EnsureAborts, At

-----------------------------------------------------------------------------
(* What arrives *)

\* What is still to happen: requests bring their own names.
LeftInv ==
    /\ \A r \in left :
        /\ "kind" \in DOMAIN r /\ DOMAIN r \cap {"pc", "gen0", "row", "cur", "seen"} = {}
        /\ r.kind \in {"operator", "browser"} => "id" \in DOMAIN r /\ r.id \in Ops
        /\ r.kind \in {"endpoint", "mac", "put"} => "id" \in DOMAIN r /\ r.id \notin Ops
        /\ r.kind \in {"endpoint", "put", "see"} => "dev" \in DOMAIN r /\ r.dev \in Agents
        /\ r.kind = "open" => "agent" \in DOMAIN r
        /\ Named(r) => r.n \notin DOMAIN requests
    /\ \A r, q \in left : Named(r) /\ Named(q) /\ r.n = q.n => r = q

\* A request that arrives waits at a first step, or is answered at once.
Enters ==
    \E r \in left :
        /\ Named(r) /\ left' = left \ {r}
        /\ \/ UNCHANGED requests
           \/ \E q : /\ requests' = With(requests, r.n, q) /\ Shape(q)
                     /\ q.pc \notin {"existing", "insert", "offer", "install", "create", "look_again", "refresh"}
                     /\ q.pc \in {"ensure", "ensure_tx"} /\ q.kind = "get" => root.mode # "none"

LEMMA RequestIs ==
    ASSUME NEW r, NEW pc, "kind" \in DOMAIN r, DOMAIN r \cap {"pc", "gen0", "row", "cur", "seen"} = {}
    PROVE  /\ DOMAIN Request(r, pc) = DOMAIN r \cup {"pc", "gen0", "row", "cur", "seen"}
           /\ Request(r, pc).pc = pc /\ \A f \in DOMAIN r : Request(r, pc)[f] = r[f]
BY Zenon DEF Request, Over

LEMMA StartsEnters ==
    ASSUME LeftInv, NEW r \in left, Named(r), left' = left \ {r}, NEW pc, Starts(r, pc),
           \/ pc = "ensure" /\ r.kind = "get" /\ root.mode # "none"
           \/ pc = "pending" /\ r.kind = "endpoint"
           \/ pc = "verify" /\ r.kind \in {"operator", "endpoint"}
           \/ pc \in {"ask", "recover", "replace_trust", "accept"}
    PROVE  Enters
<1> DEFINE q == Request(r, pc)
<1>1. /\ DOMAIN q = DOMAIN r \cup {"pc", "gen0", "row", "cur", "seen"}
      /\ q.pc = pc /\ \A f \in DOMAIN r : q[f] = r[f]
  BY Zenon, RequestIs DEF LeftInv
<1>2. requests' = With(requests, r.n, q)
  BY Zenon DEF Starts
<1> HIDE DEF q
<1>3. Shape(q)
  BY Zenon, <1>1 DEF Shape, LeftInv
<1> QED
  BY Zenon, <1>1, <1>2, <1>3 DEF Enters, LeftInv

\* The same with what the handler has read in the step.
LEMMA ReadsEnters ==
    ASSUME LeftInv, NEW r \in left, Named(r), left' = left \ {r}, NEW q,
           NEW pc, NEW row, NEW cur, q = [[Request(r, pc) EXCEPT !.cur = cur] EXCEPT !.row = row], requests' = With(requests, r.n, q),
           \/ pc = "revoke_live" /\ r.kind = "revoke"
           \/ pc = "agent" /\ r.kind = "mac"
           \/ pc = "ensure" /\ r.kind = "browser" /\ RowOk(row) /\ row.type = "op"
           \/ pc = "session" /\ r.kind = "open" /\ cur \in Ops /\ row.cert[1].id = cur
    PROVE  Enters
<1>1. /\ DOMAIN Request(r, pc) = DOMAIN r \cup {"pc", "gen0", "row", "cur", "seen"}
      /\ Request(r, pc).pc = pc /\ \A f \in DOMAIN r : Request(r, pc)[f] = r[f]
  BY RequestIs DEF LeftInv
<1>2. DOMAIN q = DOMAIN r \cup {"pc", "gen0", "row", "cur", "seen"} /\ q.pc = pc /\ q.cur = cur /\ q.row = row
  BY Zenon, <1>1
<1>3. \A f \in DOMAIN r : q[f] = r[f]
  BY Zenon, <1>1 DEF LeftInv
<1>4. Shape(q)
  BY ZenonT(60), <1>2, <1>3 DEF Shape, Enrolling, LeftInv
<1>5. q.kind = r.kind
  BY Zenon, <1>3 DEF LeftInv
<1> QED
  BY Zenon, <1>2, <1>4, <1>5 DEF Enters

LEMMA EndEnters ==
    ASSUME LeftInv, NEW r \in left, Named(r), left' = left \ {r}, r.kind = "terminate", NEW q,
           NEW pc \in {"terminate", "relays"}, NEW seen, q = [Request(r, pc) EXCEPT !.seen = seen],
           requests' = With(requests, r.n, q)
    PROVE  Enters
<1>1. /\ DOMAIN Request(r, pc) = DOMAIN r \cup {"pc", "gen0", "row", "cur", "seen"}
      /\ Request(r, pc).pc = pc /\ \A f \in DOMAIN r : Request(r, pc)[f] = r[f]
  BY ZenonT(60), RequestIs DEF LeftInv
<1>2. DOMAIN q = DOMAIN r \cup {"pc", "gen0", "row", "cur", "seen"} /\ q.pc = pc
  BY Zenon, <1>1
<1>3. "kind" \in DOMAIN r /\ "kind" # "seen"
  BY Zenon DEF LeftInv
<1>4. q.kind = "terminate"
  BY Zenon, <1>1, <1>3
<1>5. Shape(q)
  BY Zenon, <1>2, <1>3, <1>4 DEF Shape
<1> QED
  BY Zenon, <1>2, <1>5 DEF Enters

LEMMA ArrivesEnters ==
    ASSUME LeftInv, IdsInv, root.mode \in {"none", "client", "server"}, Arrives
    PROVE  Enters
<1>a. ASSUME NEW r \in left, Named(r), left' = left \ {r}, UNCHANGED requests
      PROVE  Enters
  BY Zenon, <1>a DEF Enters
<1>1. CASE handleDesktopTrustGet
  <2>1. PICK r \in left : handleDesktopTrustGet!(r)
    BY Zenon, <1>1 DEF handleDesktopTrustGet
  <2>2. Named(r) /\ left' = left \ {r} /\ r.kind = "get"
    BY Zenon, <2>1 DEF Happens, Named
  <2>3. UNCHANGED requests \/ (Starts(r, "ensure") /\ root.mode # "none")
    BY Zenon, <2>1 DEF AnsweredAtOnce
  <2> QED
    BY Zenon, <2>2, <2>3, <1>a, StartsEnters
<1>2. CASE ApprovalReads
  <2>1. PICK r \in left : ApprovalReads!(r)
    BY Zenon, <1>2 DEF ApprovalReads
  <2>2. Named(r) /\ left' = left \ {r} /\ r.kind \in {"operator", "endpoint"}
    BY Zenon, <2>1 DEF Happens, Named
  <2>3. UNCHANGED requests \/ (Starts(r, "pending") /\ r.kind = "endpoint") \/ Starts(r, "verify")
    BY Zenon, <2>1 DEF AnsweredAtOnce
  <2> QED
    BY Zenon, <2>2, <2>3, <1>a, StartsEnters
<1>3. CASE handleDesktopPendingEnrollmentPut \/ handleDesktopPendingEnrollmentGet \/ handleAgentDesktopEnrollment
           \/ BootstrapsTrust \/ RequestRefused \/ MacForbidden \/ handleDesktopAutoChallenge
  <2>1. PICK r \in left : Named(r) /\ left' = left \ {r} /\ UNCHANGED requests
    BY Zenon, <1>3 DEF handleDesktopPendingEnrollmentPut, handleDesktopPendingEnrollmentGet,
       handleAgentDesktopEnrollment, BootstrapsTrust, RequestRefused, MacForbidden,
       handleDesktopAutoChallenge, Happens, Named, AnsweredAtOnce
  <2> QED
    BY Zenon, <2>1, <1>a
<1>4. CASE handleDesktopRecovery \/ handleDesktopRotation \/ handleDesktopReset
  <2>1. PICK r \in left : /\ Named(r) /\ left' = left \ {r}
                          /\ UNCHANGED requests \/ \E pc \in {"ask", "recover", "replace_trust"} : Starts(r, pc)
    BY Zenon, <1>4 DEF handleDesktopRecovery, handleDesktopRotation, handleDesktopReset, Happens,
       Named, AnsweredAtOnce
  <2> QED
    BY Zenon, <2>1, <1>a, StartsEnters
<1>5. CASE revokeDesktopIdentity
  <2>1. PICK r \in left : revokeDesktopIdentity!(r)
    BY Zenon, <1>5 DEF revokeDesktopIdentity
  <2>2. Named(r) /\ left' = left \ {r} /\ r.kind = "revoke"
    BY Zenon, <2>1 DEF Happens, Named
  <2>3. UNCHANGED requests \/ \E cur : requests' = With(requests, r.n, [Request(r, "revoke_live") EXCEPT !.cur = cur])
    BY Zenon, <2>1 DEF AnsweredAtOnce
  <2>4. ASSUME NEW cur, requests' = With(requests, r.n, [Request(r, "revoke_live") EXCEPT !.cur = cur])
        PROVE  Enters
    <3>1. PICK row : row = Request(r, "revoke_live").row
      OBVIOUS
    <3>2. [Request(r, "revoke_live") EXCEPT !.cur = cur] = [[Request(r, "revoke_live") EXCEPT !.cur = cur] EXCEPT !.row = row]
      BY Zenon, <3>1
    <3> QED
      BY Zenon, <2>2, <2>4, <3>2, ReadsEnters
  <2> QED
    BY Zenon, <2>2, <2>3, <2>4, <1>a
<1>6. CASE validateDesktopAutoEnrollment
  <2>1. PICK r \in left : validateDesktopAutoEnrollment!(r)
    BY Zenon, <1>6 DEF validateDesktopAutoEnrollment
  <2>2. Named(r) /\ left' = left \ {r} /\ r.kind \in {"browser", "mac"}
    BY Zenon, <2>1 DEF Happens, Named
  <2> DEFINE row == Identity(r, "op", r.dev, r.key, r.login)
  <2> DEFINE pc == IF r.kind = "mac" THEN "agent" ELSE "ensure"
  <2>3. UNCHANGED requests \/ requests' = With(requests, r.n, [Request(r, pc) EXCEPT !.row = row])
    BY Zenon, <2>1 DEF AnsweredAtOnce
  <2>4. RowOk(row) /\ row.type = "op"
    BY Zenon DEF Identity, RowOk, Fields
  <2> HIDE DEF row
  <2>5. CASE requests' = With(requests, r.n, [Request(r, pc) EXCEPT !.row = row])
    <3>1. PICK cur : cur = Request(r, pc).cur
      OBVIOUS
    <3>2. [Request(r, pc) EXCEPT !.row = row] = [[Request(r, pc) EXCEPT !.cur = cur] EXCEPT !.row = row]
      BY Zenon, <3>1
    <3> QED
      BY Zenon, <2>2, <2>4, <2>5, <3>2, ReadsEnters
  <2> QED
    BY Zenon, <2>2, <2>3, <2>5, <1>a
<1>7. CASE CreateReads
  <2>1. PICK r \in left : CreateReads!(r)
    BY Zenon, <1>7 DEF CreateReads
  <2>2. Named(r) /\ left' = left \ {r} /\ r.kind = "open"
    BY Zenon, <2>1 DEF Happens, Named
  <2> DEFINE ops == {i \in ActiveOf("op", r.dev) : ids[i].login \in {Unset, r.login}}
  <2>3. UNCHANGED requests \/ \E i \in ops : requests' = With(requests, r.n, [Request(r, "session") EXCEPT !.cur = i, !.row = ids[i]])
    <3>1. CASE ops = {}
      BY Zenon, <2>1, <3>1 DEF AnsweredAtOnce
    <3>2. CASE ops # {}
      <4>1. PICK i \in ops : i = CHOOSE j \in ops : TRUE
        BY Zenon, <3>2
      <4> QED
        BY Zenon, <2>1, <3>2, <4>1 DEF AnsweredAtOnce
    <3> QED
      BY Zenon, <3>1, <3>2
  <2>4. ASSUME NEW i \in ops, requests' = With(requests, r.n, [Request(r, "session") EXCEPT !.cur = i, !.row = ids[i]])
        PROVE  Enters
    <3>1. i \in Ops /\ ids[i].cert[1].id = i
      BY Zenon DEF ActiveOf, Current, IdsInv
    <3> QED
      BY Zenon, <2>2, <2>4, <3>1, ReadsEnters
  <2> QED
    BY Zenon, <2>2, <2>3, <2>4, <1>a
<1>8. CASE ConsumesCredential
  <2>1. PICK r \in left : ConsumesCredential!(r)
    BY Zenon, <1>8 DEF ConsumesCredential
  <2>2. Named(r) /\ left' = left \ {r}
    BY Zenon, <2>1 DEF Happens, Named
  <2>3. UNCHANGED requests \/ Starts(r, "accept")
    BY Zenon, <2>1 DEF AnsweredAtOnce
  <2> QED
    BY Zenon, <2>2, <2>3, <1>a, StartsEnters
<1>9. CASE TerminateReads
  <2>1. PICK r \in left : TerminateReads!(r)
    BY Zenon, <1>9 DEF TerminateReads
  <2>2. Named(r) /\ left' = left \ {r} /\ r.kind = "terminate"
    BY Zenon, <2>1 DEF Happens, Named
  <2>3. PICK pc, seen, q : /\ pc \in {"terminate", "relays"} /\ q = [Request(r, pc) EXCEPT !.seen = seen]
                           /\ requests' = With(requests, r.n, q)
    BY Zenon, <2>1
  <2> QED
    BY Zenon, <2>2, <2>3, EndEnters
<1> QED
  BY Zenon, <1>1, <1>2, <1>3, <1>4, <1>5, <1>6, <1>7, <1>8, <1>9 DEF Arrives

LEMMA ArrivesKeeps ==
    ASSUME LeftInv, PendingInv, Arrives
    PROVE  UNCHANGED <<root, ids, desk, relays, history>> /\ PendingInv'
<1>1. CASE handleDesktopPendingEnrollmentPut
  <2>1. PICK r \in left : handleDesktopPendingEnrollmentPut!(r)
    BY Zenon, <1>1 DEF handleDesktopPendingEnrollmentPut
  <2>2. r.kind = "put" /\ r.id \notin Ops
    BY Zenon, <2>1 DEF Happens, LeftInv
  <2>3. \E row : (row = None \/ row.id = r.id) /\ pending' = [pending EXCEPT ![r.dev] = row]
    BY Zenon, <2>1
  <2> QED
    BY Zenon, <2>1, <2>2, <2>3 DEF PendingInv
<1>2. CASE handleDesktopPendingEnrollmentGet
  <2>1. PICK r \in left : /\ pending' = pending \/ pending' = [pending EXCEPT ![r.dev] = None]
                          /\ UNCHANGED <<root, ids, desk, relays, history>>
    BY Zenon, <1>2 DEF handleDesktopPendingEnrollmentGet
  <2> QED
    BY Zenon, <2>1 DEF PendingInv
<1>3. CASE ~handleDesktopPendingEnrollmentPut /\ ~handleDesktopPendingEnrollmentGet
  <2>1. UNCHANGED <<tables, relays, history>> \/ UNCHANGED <<root, ids, pending, desk, relays, history>>
    BY Zenon, <1>3 DEF Arrives, handleDesktopTrustGet, ApprovalReads, handleAgentDesktopEnrollment,
       revokeDesktopIdentity, handleDesktopRecovery, handleDesktopRotation, handleDesktopReset,
       BootstrapsTrust, RequestRefused, MacForbidden, handleDesktopAutoChallenge,
       validateDesktopAutoEnrollment, CreateReads, ConsumesCredential, TerminateReads
  <2> QED
    BY Zenon, <2>1 DEF PendingInv, tables
<1> QED
  BY Zenon, <1>1, <1>2, <1>3

-----------------------------------------------------------------------------
(* The tables *)

RootInv ==
    /\ DOMAIN root = {"mode", "gen", "asked"} /\ root.mode \in {"none", "client", "server"}
    /\ root.mode = "none" => DOMAIN ids = {}

\* What is in force and not of the current generation was approved by a chain that is dead.
OldInv ==
    \A i \in DOMAIN ids : ids[i].revoked \/ ids[i].gen = root.gen \/ (i \in approvals /\ Len(ids[i].cert) # 1)

\* Keys are unique, and a banned key is the key of a row that is revoked.
KeyInv ==
    /\ \A i, j \in DOMAIN ids : ids[i].key = ids[j].key => i = j
    /\ \A k \in banned : \E i \in DOMAIN ids : ids[i].key = k
    /\ \A i \in DOMAIN ids : ids[i].revoked \/ ids[i].key \notin banned

DeskInv ==
    \A s \in DOMAIN desk :
        DOMAIN desk[s] = {"op", "agent", "live", "sent"} /\ desk[s].op \in DOMAIN ids /\ desk[s].op \in Ops

\* OfferedSessionsAreTrusted, with its definitions expanded.
OfferInv ==
    \A s \in DOMAIN desk : desk[s].live /\ desk[s].sent =>
        /\ ~ids[desk[s].op].revoked
        /\ \E e \in DOMAIN ids : /\ ids[e].type = "ep" /\ ids[e].dev = desk[s].agent /\ ~ids[e].revoked
                                /\ ids[e].gen = ids[desk[s].op].gen

LEMMA TerminatedIs ==
    ASSUME DeskInv, NEW S
    PROVE  /\ DOMAIN Terminated(S) = DOMAIN desk
           /\ \A s \in DOMAIN desk :
                 /\ DOMAIN Terminated(S)[s] = DOMAIN desk[s]
                 /\ Terminated(S)[s].op = desk[s].op /\ Terminated(S)[s].agent = desk[s].agent
                 /\ Terminated(S)[s].sent = desk[s].sent
                 /\ s \in S => ~Terminated(S)[s].live
                 /\ s \notin S => Terminated(S)[s] = desk[s]
BY Zenon DEF Terminated, DeskInv

\* A new row, under the unique indexes.
LEMMA InsertKeeps ==
    ASSUME IdsInv, OldInv, KeyInv, DeskInv, OfferInv, NEW id, NEW row,
           RowOk(row), row.type = "op" <=> id \in Ops, IsChain(row.cert), row.cert[1].id = id,
           row.gen = root.gen \/ (id \in approvals /\ Len(row.cert) # 1),
           Unique(id, row), ids' = With(ids, id, row), root'.gen = root.gen, UNCHANGED <<desk, banned, approvals>>
    PROVE  IdsInv' /\ OldInv' /\ KeyInv' /\ DeskInv' /\ OfferInv'
<1>1. id \notin DOMAIN ids /\ DOMAIN ids' = DOMAIN ids \cup {id} /\ ids'[id] = row
      /\ \A i \in DOMAIN ids : ids'[i] = ids[i] /\ i # id
  BY Zenon DEF Unique, With
<1>2. IdsInv'
  BY <1>1 DEF IdsInv
<1>3. OldInv'
  BY <1>1 DEF OldInv
<1>4. \A i \in DOMAIN ids : ids[i].key # row.key
  BY Zenon DEF Unique
<1>5. row.key \notin banned
  BY Zenon, <1>4 DEF KeyInv
<1>6. KeyInv'
  BY <1>1, <1>4, <1>5 DEF KeyInv
<1>7. DeskInv'
  BY Zenon, <1>1 DEF DeskInv
<1>8. OfferInv'
  BY <1>1 DEF OfferInv, DeskInv
<1> QED
  BY Zenon, <1>2, <1>3, <1>6, <1>7, <1>8

\* A row that is written again with a new signature: its sessions end.
LEMMA RefreshKeeps ==
    ASSUME IdsInv, OldInv, KeyInv, DeskInv, OfferInv, NEW i, NEW row, CanRevoke(i), StaysUnique(i, row),
           RowOk(row), row.type = "op" <=> i \in Ops, IsChain(row.cert), row.cert[1].id = i, row.gen = root.gen,
           RefreshIdentity(i, row), UNCHANGED <<root, banned, approvals>>
    PROVE  IdsInv' /\ OldInv' /\ KeyInv' /\ DeskInv' /\ OfferInv'
<1>1. i \in DOMAIN ids /\ ~ids[i].revoked /\ DOMAIN ids' = DOMAIN ids /\ ids'[i] = row
      /\ \A j \in DOMAIN ids : j # i => ids'[j] = ids[j]
  BY Zenon DEF CanRevoke, RefreshIdentity
<1>2. IdsInv'
  BY <1>1 DEF IdsInv
<1>3. OldInv'
  BY Zenon, <1>1 DEF OldInv
<1>4. \A j \in DOMAIN ids : j # i => ids[j].key # row.key
  BY Zenon DEF StaysUnique
<1>5. ids[i].key \notin banned /\ row.key \notin banned
  BY Zenon, <1>1, <1>4 DEF KeyInv
<1>6. KeyInv'
  <2>1. \A k \in banned : \E j \in DOMAIN ids : j # i /\ ids[j].key = k
    BY Zenon, <1>5 DEF KeyInv
  <2> QED
    BY <1>1, <1>4, <1>5, <2>1 DEF KeyInv
<1>7. desk' = Terminated(LiveIn(i))
  BY Zenon DEF RefreshIdentity
<1>8. DeskInv'
  BY SMTT(30), <1>1, <1>7, TerminatedIs DEF DeskInv
<1>9. OfferInv'
  <2>1. SUFFICES ASSUME NEW s \in DOMAIN desk', desk'[s].live, desk'[s].sent
                 PROVE  /\ ~ids'[desk'[s].op].revoked
                        /\ \E e \in DOMAIN ids' : /\ ids'[e].type = "ep" /\ ids'[e].dev = desk'[s].agent /\ ~ids'[e].revoked
                                                 /\ ids'[e].gen = ids'[desk'[s].op].gen
    BY Zenon DEF OfferInv
  <2>2. s \in DOMAIN desk /\ s \notin LiveIn(i) /\ desk'[s] = desk[s]
    BY Zenon, <1>7, <2>1, TerminatedIs
  <2>3. s \notin Scope(i)
    BY Zenon, <2>1, <2>2 DEF LiveIn, Live
  <2>4. desk[s].op \in DOMAIN ids /\ desk[s].op \in Ops
    BY Zenon, <2>2 DEF DeskInv
  <2>5. desk[s].op # i
    BY Zenon, <1>1, <2>2, <2>3, <2>4 DEF Scope, IdsInv
  <2>6. PICK e \in DOMAIN ids : /\ ids[e].type = "ep" /\ ids[e].dev = desk[s].agent /\ ~ids[e].revoked
                               /\ ids[e].gen = ids[desk[s].op].gen
    BY Zenon, <2>1, <2>2 DEF OfferInv
  <2>7. e # i
    BY Zenon, <2>2, <2>3, <2>6 DEF Scope
  <2>8. ~ids[desk[s].op].revoked
    BY Zenon, <2>1, <2>2 DEF OfferInv
  <2> QED
    BY <1>1, <2>2, <2>4, <2>5, <2>6, <2>7, <2>8
<1> QED
  BY Zenon, <1>2, <1>3, <1>6, <1>8, <1>9

\* A revocation: the key is banned, and the sessions of the identity end.
LEMMA RevokeKeeps ==
    ASSUME IdsInv, OldInv, KeyInv, DeskInv, OfferInv, NEW i, CanRevoke(i), RevokeIdentity(i),
           banned' = banned \union {ids[i].key}, UNCHANGED <<root, approvals>>
    PROVE  IdsInv' /\ OldInv' /\ KeyInv' /\ DeskInv' /\ OfferInv'
<1>0. i \in DOMAIN ids /\ DOMAIN ids[i] = Fields
  BY Zenon DEF CanRevoke, IdsInv, RowOk
<1>1. /\ DOMAIN ids' = DOMAIN ids /\ \A j \in DOMAIN ids : j # i => ids'[j] = ids[j]
      /\ DOMAIN ids'[i] = Fields /\ ids'[i].revoked
      /\ ids'[i].type = ids[i].type /\ ids'[i].login = ids[i].login /\ ids'[i].cert = ids[i].cert /\ ids'[i].key = ids[i].key
  BY Zenon, <1>0 DEF RevokeIdentity, Fields
<1>2. IdsInv'
  BY <1>1 DEF IdsInv, RowOk
<1>3. OldInv'
  BY Zenon, <1>1 DEF OldInv
<1>6. KeyInv'
  BY <1>0, <1>1 DEF KeyInv
<1>7. desk' = Terminated(LiveIn(i))
  BY Zenon DEF RevokeIdentity
<1>8. DeskInv'
  BY <1>1, <1>7, TerminatedIs DEF DeskInv
<1>9. OfferInv'
  <2>1. SUFFICES ASSUME NEW s \in DOMAIN desk', desk'[s].live, desk'[s].sent
                 PROVE  /\ ~ids'[desk'[s].op].revoked
                        /\ \E e \in DOMAIN ids' : /\ ids'[e].type = "ep" /\ ids'[e].dev = desk'[s].agent /\ ~ids'[e].revoked
                                                 /\ ids'[e].gen = ids'[desk'[s].op].gen
    BY Zenon DEF OfferInv
  <2>2. s \in DOMAIN desk /\ s \notin LiveIn(i) /\ desk'[s] = desk[s]
    BY Zenon, <1>7, <2>1, TerminatedIs
  <2>3. s \notin Scope(i)
    BY Zenon, <2>1, <2>2 DEF LiveIn, Live
  <2>4. desk[s].op \in DOMAIN ids /\ desk[s].op \in Ops
    BY Zenon, <2>2 DEF DeskInv
  <2>5. desk[s].op # i
    BY Zenon, <1>0, <2>2, <2>3, <2>4 DEF Scope, IdsInv
  <2>6. PICK e \in DOMAIN ids : /\ ids[e].type = "ep" /\ ids[e].dev = desk[s].agent /\ ~ids[e].revoked
                               /\ ids[e].gen = ids[desk[s].op].gen
    BY Zenon, <2>1, <2>2 DEF OfferInv
  <2>7. e # i
    BY Zenon, <2>2, <2>3, <2>6 DEF Scope
  <2>8. ~ids[desk[s].op].revoked
    BY Zenon, <2>1, <2>2 DEF OfferInv
  <2> QED
    BY <1>1, <2>2, <2>4, <2>5, <2>6, <2>7, <2>8
<1> QED
  BY Zenon, <1>2, <1>3, <1>6, <1>8, <1>9

\* The migration: everything is revoked, every session ends.
LEMMA MigrateKeeps ==
    ASSUME IdsInv, KeyInv, DeskInv, MigrateTrust,
           banned' = banned \union {ids[i].key : i \in {j \in DOMAIN ids : ~ids[j].revoked}}
    PROVE  IdsInv' /\ OldInv' /\ KeyInv' /\ DeskInv' /\ OfferInv'
<1>1. /\ DOMAIN ids' = DOMAIN ids
      /\ \A i \in DOMAIN ids :
           /\ DOMAIN ids'[i] = Fields /\ ids'[i].revoked /\ ids'[i].type = ids[i].type
           /\ ids'[i].login = ids[i].login /\ ids'[i].cert = ids[i].cert /\ ids'[i].key = ids[i].key
  BY DEF MigrateTrust, IdsInv, RowOk, Fields
<1>2. IdsInv'
  BY <1>1 DEF IdsInv, RowOk
<1>3. OldInv'
  BY Zenon, <1>1 DEF OldInv
<1>4. KeyInv'
  BY <1>1 DEF KeyInv
<1>5. desk' = Terminated(Live)
  BY Zenon DEF MigrateTrust
<1>6. DeskInv'
  BY <1>1, <1>5, TerminatedIs DEF DeskInv
<1>7. OfferInv'
  BY Zenon, <1>5, TerminatedIs DEF OfferInv, Live
<1> QED
  BY Zenon, <1>2, <1>3, <1>4, <1>6, <1>7

\* Sessions that end leave the rest in order.
LEMMA TerminateKeeps ==
    ASSUME DeskInv, OfferInv, NEW S, desk' = Terminated(S), UNCHANGED ids
    PROVE  DeskInv' /\ OfferInv'
<1>1. DeskInv'
  BY TerminatedIs DEF DeskInv
<1>2. OfferInv'
  <2>1. \A s \in DOMAIN desk' : desk'[s].live => s \in DOMAIN desk /\ desk'[s] = desk[s]
    BY Zenon, TerminatedIs
  <2> QED
    BY <2>1 DEF OfferInv
<1> QED
  BY Zenon, <1>1, <1>2

\* A session that is created, not offered yet.
LEMMA OpenKeeps ==
    ASSUME DeskInv, OfferInv, NEW n, NEW o \in DOMAIN ids, NEW a, o \in Ops,
           desk' = With(desk, n, [op |-> o, agent |-> a, live |-> TRUE, sent |-> FALSE]), UNCHANGED ids
    PROVE  DeskInv' /\ OfferInv'
<1>1. /\ DOMAIN desk' = DOMAIN desk \cup {n} /\ desk'[n] = [op |-> o, agent |-> a, live |-> TRUE, sent |-> FALSE]
      /\ \A s \in DOMAIN desk : s # n => desk'[s] = desk[s]
  BY Zenon DEF With
<1>a. DOMAIN desk'[n] = {"op", "agent", "live", "sent"}
  BY Zenon, <1>1
<1>b. desk'[n].op = o
  BY <1>1
<1>c. ~desk'[n].sent
  BY <1>1
<1>2. DOMAIN desk'[n] = {"op", "agent", "live", "sent"} /\ desk'[n].op = o /\ ~desk'[n].sent
  BY Zenon, <1>a, <1>b, <1>c
<1>3. DeskInv'
  <2>1. SUFFICES ASSUME NEW s \in DOMAIN desk'
                 PROVE  /\ DOMAIN desk'[s] = {"op", "agent", "live", "sent"}
                        /\ desk'[s].op \in DOMAIN ids' /\ desk'[s].op \in Ops
    BY Zenon DEF DeskInv
  <2>2. CASE s = n
    BY Zenon, <1>2, <2>2
  <2>3. CASE s # n
    BY Zenon, <1>1, <2>3 DEF DeskInv
  <2> QED
    BY Zenon, <2>2, <2>3
<1>4. OfferInv'
  <2>1. SUFFICES ASSUME NEW s \in DOMAIN desk', desk'[s].live, desk'[s].sent
                 PROVE  /\ ~ids[desk'[s].op].revoked
                        /\ \E e \in DOMAIN ids : /\ ids[e].type = "ep" /\ ids[e].dev = desk'[s].agent /\ ~ids[e].revoked
                                                /\ ids[e].gen = ids[desk'[s].op].gen
    BY Zenon DEF OfferInv
  <2>2. s # n
    BY Zenon, <1>c, <2>1
  <2>3. s \in DOMAIN desk /\ desk'[s] = desk[s]
    BY Zenon, <1>1, <2>2
  <2> QED
    BY ZenonT(60), <2>1, <2>3 DEF OfferInv
<1> QED
  BY Zenon, <1>3, <1>4

\* The offer, on what sendDesktopOffer has checked.
LEMMA OfferKeeps ==
    ASSUME IdsInv, DeskInv, OfferInv, NEW n \in DOMAIN desk, NEW r, desk[n].op = r.row.cert[1].id, desk[n].agent = r.agent,
           StillTrusted(r), desk' = [desk EXCEPT ![n].sent = TRUE], UNCHANGED ids
    PROVE  DeskInv' /\ OfferInv'
<1>1. /\ DOMAIN desk' = DOMAIN desk /\ DOMAIN desk'[n] = DOMAIN desk[n]
      /\ desk'[n].op = desk[n].op /\ desk'[n].agent = desk[n].agent
      /\ \A s \in DOMAIN desk : s # n => desk'[s] = desk[s]
  BY Zenon DEF DeskInv
<1>2. DeskInv'
  BY Zenon, <1>1 DEF DeskInv
<1>3. ~ids[desk[n].op].revoked /\ ids[desk[n].op].gen = root.gen
  BY ActiveChainStarts DEF StillTrusted
<1>4. \E e \in DOMAIN ids : ids[e].type = "ep" /\ ids[e].dev = desk[n].agent /\ ~ids[e].revoked /\ ids[e].gen = root.gen
  BY Zenon DEF StillTrusted, ActiveOf, Current
<1>5. OfferInv'
  BY <1>1, <1>3, <1>4 DEF OfferInv
<1> QED
  BY Zenon, <1>2, <1>5

\* A certificate that expires.
LEMMA ExpireKeeps ==
    ASSUME IdsInv, OldInv, KeyInv, DeskInv, OfferInv, NEW i \in DOMAIN ids,
           ids' = [ids EXCEPT ![i].old = TRUE], UNCHANGED <<root, desk, banned, approvals>>
    PROVE  IdsInv' /\ OldInv' /\ KeyInv' /\ DeskInv' /\ OfferInv'
<1>0. DOMAIN ids[i] = Fields
  BY Zenon DEF IdsInv, RowOk
<1>1. /\ DOMAIN ids' = DOMAIN ids /\ \A j \in DOMAIN ids : j # i => ids'[j] = ids[j]
      /\ DOMAIN ids'[i] = Fields /\ ids'[i].revoked = ids[i].revoked /\ ids'[i].gen = ids[i].gen /\ ids'[i].dev = ids[i].dev
      /\ ids'[i].type = ids[i].type /\ ids'[i].login = ids[i].login /\ ids'[i].cert = ids[i].cert /\ ids'[i].key = ids[i].key
  BY Zenon, <1>0 DEF Fields
<1>2. IdsInv'
  BY <1>1 DEF IdsInv, RowOk
<1>3. OldInv'
  BY <1>1 DEF OldInv
<1>4. KeyInv'
  BY <1>1 DEF KeyInv
<1>5. DeskInv'
  BY Zenon, <1>1 DEF DeskInv
<1>6. OfferInv'
  <2>1. SUFFICES ASSUME NEW s \in DOMAIN desk, desk[s].live, desk[s].sent
                 PROVE  /\ ~ids'[desk[s].op].revoked
                        /\ \E e \in DOMAIN ids' : /\ ids'[e].type = "ep" /\ ids'[e].dev = desk[s].agent /\ ~ids'[e].revoked
                                                 /\ ids'[e].gen = ids'[desk[s].op].gen
    BY DEF OfferInv
  <2>2. ids'[desk[s].op].revoked = ids[desk[s].op].revoked /\ ids'[desk[s].op].gen = ids[desk[s].op].gen
    BY Zenon, <1>1 DEF DeskInv
  <2>3. PICK e \in DOMAIN ids : /\ ids[e].type = "ep" /\ ids[e].dev = desk[s].agent /\ ~ids[e].revoked
                               /\ ids[e].gen = ids[desk[s].op].gen
    BY Zenon, <2>1 DEF OfferInv
  <2>4. ids'[e].type = ids[e].type /\ ids'[e].dev = ids[e].dev /\ ids'[e].revoked = ids[e].revoked /\ ids'[e].gen = ids[e].gen
    BY Zenon, <1>1
  <2> QED
    BY <1>1, <2>1, <2>2, <2>3, <2>4 DEF OfferInv
<1> QED
  BY Zenon, <1>2, <1>3, <1>4, <1>5, <1>6

\* The maintenance: only operators' identities are bound to a login.
LEMMA PruneKeeps ==
    ASSUME IdsInv, OldInv, KeyInv, DeskInv, OfferInv, Unset \notin Logins, Prunable,
           ids' = [i \in DOMAIN ids \ Bound |-> ids[i]], banned' = banned \ {ids[i].key : i \in Bound},
           UNCHANGED <<root, desk, approvals>>
    PROVE  IdsInv' /\ OldInv' /\ KeyInv' /\ DeskInv' /\ OfferInv'
<1>1. DOMAIN ids' = DOMAIN ids \ Bound /\ \A i \in DOMAIN ids' : ids'[i] = ids[i]
  OBVIOUS
<1>2. IdsInv'
  BY Zenon, <1>1 DEF IdsInv
<1>3. OldInv'
  BY Zenon, <1>1 DEF OldInv
<1>4. KeyInv'
  BY Zenon, <1>1 DEF KeyInv
<1>5. DeskInv'
  BY Zenon, <1>1 DEF DeskInv, Prunable
<1>6. \A e \in DOMAIN ids : ids[e].type = "ep" => e \notin Bound
  BY Zenon DEF IdsInv, RowOk, Bound, Ended
<1>7. OfferInv'
  BY <1>1, <1>5, <1>6 DEF OfferInv, DeskInv
<1> QED
  BY Zenon, <1>2, <1>3, <1>4, <1>5, <1>7

-----------------------------------------------------------------------------
(* The requests and the tables *)

\* What a request at its step relies on: it has the server's authority of the current generation, or
\* a verified approval, or a session of its own.
Fits(rt, dk, cr, n, q) ==
    /\ q.pc \in {"install", "create", "look_again", "refresh"} => rt.mode = "server" /\ q.gen0 = rt.gen
    /\ q.pc \in {"existing", "insert"} => rt.mode # "none" /\ (q.row.gen = rt.gen \/ q.id \in cr)
    /\ q.pc \in {"ensure", "ensure_tx"} /\ q.kind = "get" => rt.mode # "none"
    /\ q.pc = "offer" => n \in DOMAIN dk /\ dk[n].op = q.cur /\ dk[n].agent = q.agent

FitsInv == \A n \in DOMAIN requests : Fits(root, desk, approvals, n, requests[n])

TablesInv == RootInv /\ IdsInv /\ OldInv /\ KeyInv /\ DeskInv /\ OfferInv

LEMMA TablesStay ==
    ASSUME TablesInv, UNCHANGED <<root, ids, desk, banned, approvals>> PROVE TablesInv'
<1>1. RootInv' /\ IdsInv'
  BY Zenon DEF TablesInv, RootInv, IdsInv
<1>2. OldInv' /\ KeyInv'
  BY Zenon DEF TablesInv, OldInv, KeyInv
<1>3. DeskInv' /\ OfferInv'
  BY Zenon DEF TablesInv, DeskInv, OfferInv
<1> QED
  BY Zenon, <1>1, <1>2, <1>3 DEF TablesInv

\* The other requests still fit after a step of request n, and so does n.
OthersFit(n) == \A m \in DOMAIN requests : m # n => Fits(root', desk', approvals', m, requests[m])
OwnFits(n) == n \in DOMAIN requests' => Fits(root', desk', approvals', n, requests'[n])

Waits == {"install", "create", "look_again", "refresh", "existing", "insert", "ensure", "ensure_tx", "offer"}

LEMMA AnsweredFits ==
    ASSUME NEW n, NEW answer, Answered(n, answer)
    PROVE  OwnFits(n)
BY Zenon DEF Answered, OwnFits, Without

LEMMA FreeFits ==
    ASSUME NEW n, n \in DOMAIN requests' => requests'[n].pc \notin Waits
    PROVE  OwnFits(n)
BY Zenon DEF OwnFits, Fits, Waits

LEMMA GoesIs ==
    ASSUME NEW n \in DOMAIN requests, NEW pc, "pc" \in DOMAIN requests[n], Goes(n, pc)
    PROVE  /\ DOMAIN requests' = DOMAIN requests /\ requests'[n].pc = pc /\ requests'[n].gen0 = requests[n].gen0 /\ requests'[n].row = requests[n].row
           /\ requests'[n].id = requests[n].id /\ requests'[n].cur = requests[n].cur /\ requests'[n].agent = requests[n].agent
           /\ requests'[n].kind = requests[n].kind
<1>1. DOMAIN requests' = DOMAIN requests /\ requests'[n] = [requests[n] EXCEPT !.pc = pc]
  BY Zenon DEF Goes
<1>2. requests'[n].pc = pc
  BY Zenon, <1>1
<1> QED
  BY <1>1, <1>2

LEMMA InstalledFits ==
    ASSUME NEW n \in DOMAIN requests, Shape(requests[n]), requests[n].kind \in {"browser", "endpoint", "mac"}, Installed(n)
    PROVE  OwnFits(n)
<1>1. CASE Answered(n, "ok")
  BY Zenon, <1>1, AnsweredFits
<1>2. ASSUME NEW pc \in {"delete_pending", "revoke_tokens"}, Goes(n, pc)
      PROVE  OwnFits(n)
  <2>1. "pc" \in DOMAIN requests[n]
    BY Zenon DEF Shape
  <2> QED
    BY Zenon, <1>2, <2>1 DEF Goes, OwnFits, Fits
<1> QED
  BY Zenon, <1>1, <1>2 DEF Installed

LEMMA AuthorityFits ==
    ASSUME NEW n \in DOMAIN requests, Shape(requests[n]), NEW gen, HasAuthority(n, gen) \/ Installs(n, gen),
           root'.mode = "server", root'.gen = gen
    PROVE  OwnFits(n)
<1>1. CASE Answered(n, "ok")
  BY Zenon, <1>1, AnsweredFits
<1>2. CASE Installs(n, gen)
  <2>1. /\ requests'[n] = [[requests[n] EXCEPT !.pc = "install"] EXCEPT !.gen0 = gen]
        /\ {"pc", "gen0"} \subseteq DOMAIN requests[n]
    BY Zenon, <1>2 DEF Installs, Shape
  <2>2. requests'[n].pc = "install" /\ requests'[n].gen0 = gen
    BY Zenon, <2>1
  <2> QED
    BY Zenon, <2>2 DEF OwnFits, Fits
<1> QED
  BY Zenon, <1>1, <1>2 DEF HasAuthority

\* The tables are as they were, for the other requests.
LEMMA OthersStay ==
    ASSUME FitsInv, NEW n, root'.mode = root.mode, root'.gen = root.gen, approvals \subseteq approvals',
           DOMAIN desk \subseteq DOMAIN desk',
           \A s \in DOMAIN desk : s # n => desk'[s].op = desk[s].op /\ desk'[s].agent = desk[s].agent
    PROVE  OthersFit(n)
BY Zenon DEF FitsInv, OthersFit, Fits

\* Steps that only read, or write what nothing here depends on.
Quiet(n) ==
    \/ EnsureReads(n) \/ EnsureAborts(n) \/ InstallReads(n) \/ getActiveDesktopIdentity(n) \/ RefreshAborts(n)
    \/ InstallReplaces(n) \/ verifyDesktopApprover(n) \/ ApprovalLooks(n) \/ PendingReads(n) \/ PendingLooks(n)
    \/ DeleteDesktopPendingEnrollment(n) \/ ListLiveDesktopSessionIDs(n) \/ RevokeAborts(n)
    \/ ConsumeDesktopRecoveryChallenge(n) \/ ReplacesTrust(n) \/ MacReadsAgent(n) \/ UpsertAgent(n)
    \/ RevokeAgentTokensForAgent(n) \/ CreateAgentToken(n)

LEMMA QuietKeeps ==
    ASSUME NEW n, Quiet(n)
    PROVE  UNCHANGED <<root, ids, desk, relays, history>> /\ requests[n].pc # "relays"
BY Zenon DEF Quiet, EnsureReads, EnsureAborts, InstallReads, getActiveDesktopIdentity,
   RefreshAborts, InstallReplaces, verifyDesktopApprover, ApprovalLooks, PendingReads, PendingLooks,
   DeleteDesktopPendingEnrollment, ListLiveDesktopSessionIDs, RevokeAborts, mapDesktopStoreError,
   ConsumeDesktopRecoveryChallenge, ReplacesTrust, MacReadsAgent, UpsertAgent,
   RevokeAgentTokensForAgent, CreateAgentToken, At, tables

\* An approval that is verified was verified against the current generation.
LEMMA VerifyFits ==
    ASSUME RootInv, IdsInv, OldInv, NEW n \in DOMAIN requests, Shape(requests[n]), verifyDesktopApprover(n)
    PROVE  OwnFits(n)
<1> DEFINE r == requests[n]
<1> DEFINE type == IF r.kind = "operator" THEN "op" ELSE "ep"
<1>1. ASSUME NEW a \in Approvers(r.gen, r.signer),
             requests' = [requests EXCEPT ![n].pc = "existing",
                          ![n].row = certificateWithIssuer(Identity(r, type, r.dev, r.key, Unset), r.id, r.gen, n, a)]
      PROVE  OwnFits(n)
  <2> DEFINE row == certificateWithIssuer(Identity(r, type, r.dev, r.key, Unset), r.id, r.gen, n, a)
  <2>1. a \in DOMAIN ids /\ IsChain(ids[a].cert) /\ desktopCertificateChainIsActive(ids[a].cert, r.gen)
    BY Zenon DEF Approvers, IdsInv
  <2>2. PICK i \in DOMAIN ids : ~ids[i].revoked /\ ids[i].gen = r.gen /\ Len(ids[i].cert) = 1
    BY Zenon, <2>1, ActiveChainEnds
  <2>3. root.gen = r.gen /\ root.mode # "none"
    BY Zenon, <2>1, <2>2 DEF OldInv, RootInv
  <2>4. row.gen = r.gen
    BY Zenon DEF certificateWithIssuer, Identity
  <2> HIDE DEF row
  <2>5. requests'[n] = [[r EXCEPT !.pc = "existing"] EXCEPT !.row = row] /\ {"pc", "row"} \subseteq DOMAIN r
    BY Zenon, <1>1 DEF Shape, row
  <2>6. requests'[n].pc = "existing" /\ requests'[n].row = row
    BY Zenon, <2>5
  <2>7. UNCHANGED root
    BY Zenon DEF verifyDesktopApprover, tables
  <2> QED
    BY Zenon, <2>3, <2>4, <2>6, <2>7 DEF OwnFits, Fits
<1>2. (\E answer : Answered(n, answer))
      \/ \E a \in Approvers(r.gen, r.signer) :
             requests' = [requests EXCEPT ![n].pc = "existing",
                          ![n].row = certificateWithIssuer(Identity(r, type, r.dev, r.key, Unset), r.id, r.gen, n, a)]
  BY Zenon DEF verifyDesktopApprover
<1> QED
  BY Zenon, <1>1, <1>2, AnsweredFits

LEMMA QuietFits ==
    ASSUME RootInv, IdsInv, OldInv, FitsInv, NEW n \in DOMAIN requests, Shape(requests[n]), Quiet(n)
    PROVE  OwnFits(n)
<1>0. UNCHANGED <<root, desk, approvals>> /\ Fits(root, desk, approvals, n, requests[n]) /\ {"pc", "row", "cur", "kind"} \subseteq DOMAIN requests[n]
  BY Zenon, QuietKeeps DEF FitsInv, Shape, history
<1>a. ASSUME NEW answer, Answered(n, answer)
      PROVE  OwnFits(n)
  BY Zenon, <1>a, AnsweredFits
<1>1. CASE EnsureReads(n)
  <2>1. CASE root.mode = "server"
    BY Zenon, <1>0, <1>1, <2>1, AuthorityFits DEF EnsureReads
  <2>2. CASE Goes(n, "ensure_tx")
    BY Zenon, <1>0, <1>1, <2>2 DEF EnsureReads, At, Goes, OwnFits, Fits
  <2> QED
    BY Zenon, <1>1, <2>1, <2>2 DEF EnsureReads
<1>2. CASE EnsureAborts(n) \/ RefreshAborts(n) \/ RevokeAborts(n) \/ InstallReplaces(n) \/ DeleteDesktopPendingEnrollment(n)
           \/ ConsumeDesktopRecoveryChallenge(n) \/ ReplacesTrust(n) \/ CreateAgentToken(n)
  <2>1. \E answer : Answered(n, answer)
    BY Zenon, <1>2 DEF EnsureAborts, RefreshAborts, RevokeAborts, mapDesktopStoreError,
       InstallReplaces, DeleteDesktopPendingEnrollment, ConsumeDesktopRecoveryChallenge,
       ReplacesTrust, CreateAgentToken
  <2> QED
    BY Zenon, <2>1, <1>a
<1>3. CASE InstallReads(n)
  <2>0. requests[n].pc = "install" /\ root.mode = "server" /\ requests[n].gen0 = root.gen
    BY Zenon, <1>0, <1>3 DEF InstallReads, At, Fits
  <2>1. \/ \E answer : Answered(n, answer)
        \/ Goes(n, "create")
        \/ \E i, pc : pc \in {"refresh", "replace"} /\ requests' = [requests EXCEPT ![n].cur = i, ![n].pc = pc]
    BY Zenon, <1>3 DEF InstallReads
  <2>2. CASE Goes(n, "create")
    <3>1. requests'[n].pc = "create" /\ requests'[n].gen0 = requests[n].gen0
      BY Zenon, <1>0, <2>2, GoesIs
    <3> QED
      BY Zenon, <1>0, <2>0, <3>1 DEF OwnFits, Fits
  <2>3. ASSUME NEW i, NEW pc \in {"refresh", "replace"}, requests' = [requests EXCEPT ![n].cur = i, ![n].pc = pc]
        PROVE  OwnFits(n)
    <3>1. requests'[n] = [[requests[n] EXCEPT !.cur = i] EXCEPT !.pc = pc]
      BY Zenon, <2>3
    <3>2. requests'[n].pc = pc /\ requests'[n].gen0 = requests[n].gen0
      BY <1>0, <3>1
    <3> QED
      BY Zenon, <1>0, <2>0, <3>2 DEF OwnFits, Fits
  <2> QED
    BY Zenon, <2>1, <2>2, <2>3, <1>a
<1>4. CASE getActiveDesktopIdentity(n)
  BY Zenon, <1>4, <1>a, InstalledFits DEF getActiveDesktopIdentity, At, Shape, Enrolling
<1>5. CASE verifyDesktopApprover(n)
  BY Zenon, <1>5, VerifyFits
<1>6. CASE ApprovalLooks(n)
  <2>1. \/ Goes(n, "insert") \/ Answered(n, "conflict")
        \/ \E i : requests' = [requests EXCEPT ![n].pc = "replace", ![n].cur = i]
    BY Zenon, <1>6 DEF ApprovalLooks
  <2>2. CASE Goes(n, "insert")
    <3>1. requests'[n].pc = "insert" /\ requests'[n].row = requests[n].row /\ requests'[n].id = requests[n].id
      BY Zenon, <1>0, <2>2, GoesIs
    <3>2. root.mode # "none" /\ (requests[n].row.gen = root.gen \/ requests[n].id \in approvals)
      BY Zenon, <1>0, <1>6 DEF ApprovalLooks, At, Fits
    <3> QED
      BY Zenon, <1>0, <3>1, <3>2 DEF OwnFits, Fits
  <2>3. ASSUME NEW i, requests' = [requests EXCEPT ![n].pc = "replace", ![n].cur = i]
        PROVE  OwnFits(n)
    <3>1. requests'[n] = [[requests[n] EXCEPT !.pc = "replace"] EXCEPT !.cur = i]
      BY Zenon, <2>3
    <3>2. requests'[n].pc = "replace"
      BY Zenon, <1>0, <3>1
    <3> QED
      BY Zenon, <3>2, FreeFits DEF Waits
  <2> QED
    BY Zenon, <2>1, <2>2, <2>3, <1>a
<1>7. CASE PendingReads(n)
  <2>1. \/ \E answer : Answered(n, answer)
        \/ \E id, row : requests' = [requests EXCEPT ![n] = [requests[n] EXCEPT !.pc = "pending_existing", !.id = id, !.row = row]]
    BY Zenon, <1>7 DEF PendingReads
  <2>2. ASSUME NEW id, NEW row, requests' = [requests EXCEPT ![n] = [requests[n] EXCEPT !.pc = "pending_existing", !.id = id, !.row = row]]
        PROVE  OwnFits(n)
    <3>1. requests'[n].pc = "pending_existing"
      BY Zenon, <1>0, <2>2
    <3> QED
      BY Zenon, <3>1, FreeFits DEF Waits
  <2> QED
    BY Zenon, <2>1, <2>2, <1>a
<1>8. CASE PendingLooks(n) \/ UpsertAgent(n)
  <2>1. Goes(n, "ensure") \/ \E answer : Answered(n, answer)
    BY Zenon, <1>8 DEF PendingLooks, UpsertAgent
  <2>2. requests[n].kind # "get"
    BY Zenon, <1>8 DEF PendingLooks, UpsertAgent, At, Shape, Enrolling
  <2>3. CASE Goes(n, "ensure")
    BY Zenon, <1>0, <2>2, <2>3 DEF Goes, OwnFits, Fits
  <2> QED
    BY Zenon, <2>1, <2>3, <1>a
<1>9. CASE ListLiveDesktopSessionIDs(n)
  <2>1. PICK seen : requests' = [requests EXCEPT ![n].pc = "revoke_tx", ![n].seen = seen]
    BY Zenon, <1>9 DEF ListLiveDesktopSessionIDs
  <2>2. requests'[n] = [[requests[n] EXCEPT !.pc = "revoke_tx"] EXCEPT !.seen = seen]
    BY Zenon, <2>1
  <2>3. requests'[n].pc = "revoke_tx"
    BY Zenon, <1>0, <2>2
  <2> QED
    BY Zenon, <2>3, FreeFits DEF Waits
<1>10. CASE MacReadsAgent(n)
  <2>1. PICK a, row : requests' = [requests EXCEPT ![n].pc = "upsert", ![n].dev = a, ![n].row = row]
    BY Zenon, <1>10 DEF MacReadsAgent
  <2>2. requests'[n] = [[[requests[n] EXCEPT !.pc = "upsert"] EXCEPT !.dev = a] EXCEPT !.row = row]
    BY Zenon, <2>1
  <2>3. requests'[n].pc = "upsert"
    BY Zenon, <1>0, <2>2
  <2> QED
    BY Zenon, <2>3, FreeFits DEF Waits
<1>11. CASE RevokeAgentTokensForAgent(n)
  BY Zenon, <1>0, <1>11, FreeFits DEF RevokeAgentTokensForAgent, Goes, Waits
<1> QED
  BY Zenon, <1>1, <1>2, <1>3, <1>4, <1>5, <1>6, <1>7, <1>8, <1>9, <1>10, <1>11 DEF Quiet

\* The sockets that are open stay accounted for, when no request is done closing some and sessions
\* that end are told to the relay or counted.
LEMMA RelaysStay ==
    ASSUME RelaysFollowSessions, NEW n, Moves(n), requests[n].pc # "relays", relays' \subseteq relays, orphans \subseteq orphans',
           \A s \in relays' : s \in Live => s \in Live' \/ s \in orphans' \/ (n \in DOMAIN requests' /\ requests'[n].pc = "relays" /\ s \in requests'[n].seen)
    PROVE  RelaysFollowSessions'
<1>1. SUFFICES ASSUME NEW s \in relays'
               PROVE  s \in Live' \cup orphans' \/ \E m \in DOMAIN requests' : requests'[m].pc = "relays" /\ s \in requests'[m].seen
  BY Zenon DEF RelaysFollowSessions
<1>2. CASE s \in Live \cup orphans
  BY Zenon, <1>2
<1>3. ASSUME NEW m \in DOMAIN requests, requests[m].pc = "relays", s \in requests[m].seen
      PROVE  s \in Live' \cup orphans' \/ \E k \in DOMAIN requests' : requests'[k].pc = "relays" /\ s \in requests'[k].seen
  BY Zenon, <1>3 DEF Moves
<1> QED
  BY Zenon, <1>2, <1>3 DEF RelaysFollowSessions

LEMMA QuietStep ==
    ASSUME TablesInv, FitsInv, RelaysFollowSessions, NEW n \in DOMAIN requests, Shape(requests[n]), Moves(n), Quiet(n)
    PROVE  TablesInv' /\ OthersFit(n) /\ OwnFits(n) /\ RelaysFollowSessions'
<1>1. UNCHANGED <<root, ids, desk, relays, banned, approvals, orphans>> /\ requests[n].pc # "relays"
  BY Zenon, QuietKeeps DEF history
<1>2. TablesInv'
  BY Zenon, <1>1, TablesStay
<1>3. OthersFit(n)
  BY Zenon, <1>1, OthersStay
<1>4. OwnFits(n)
  BY Zenon, QuietFits DEF TablesInv
<1>5. RelaysFollowSessions'
  BY Zenon, <1>1, RelaysStay DEF Live
<1> QED
  BY Zenon, <1>2, <1>3, <1>4, <1>5

LEMMA EnsureStep ==
    ASSUME TablesInv, FitsInv, ShapeInv, RelaysFollowSessions, NEW n \in DOMAIN requests, Moves(n),
           EnsureServerManagedDesktopTrust(n)
    PROVE  TablesInv' /\ OthersFit(n) /\ OwnFits(n) /\ RelaysFollowSessions'
<1>0. requests[n].pc = "ensure_tx" /\ Shape(requests[n]) /\ UNCHANGED relays
  BY Zenon DEF EnsureServerManagedDesktopTrust, At, ShapeInv
<1>1. CASE root.mode = "none"
  <2>1. /\ root' = [mode |-> "server", gen |-> 1, asked |-> 0] /\ Installs(n, 1)
        /\ UNCHANGED <<ids, desk, banned, approvals, orphans>>
    BY Zenon, <1>1 DEF EnsureServerManagedDesktopTrust, history
  <2>2. DOMAIN root' = {"mode", "gen", "asked"} /\ root'.mode = "server" /\ root'.gen = 1
    BY Zenon, <2>1
  <2>3. TablesInv'
    <3>1. DOMAIN ids = {}
      BY Zenon, <1>1 DEF TablesInv, RootInv
    <3>2. RootInv' /\ IdsInv' /\ OldInv' /\ KeyInv' /\ DeskInv'
      BY Zenon, <2>1, <2>2, <3>1 DEF TablesInv, RootInv, IdsInv, OldInv, KeyInv, DeskInv
    <3>3. OfferInv'
      BY Zenon, <2>1 DEF TablesInv, OfferInv
    <3> QED
      BY Zenon, <3>2, <3>3 DEF TablesInv
  <2>4. OthersFit(n)
    BY Zenon, <1>1, <2>1, <2>2 DEF FitsInv, OthersFit, Fits
  <2>5. OwnFits(n)
    BY Zenon, <1>0, <2>1, <2>2, AuthorityFits
  <2>6. RelaysFollowSessions'
    BY Zenon, <1>0, <2>1, RelaysStay DEF Live
  <2> QED
    BY Zenon, <2>3, <2>4, <2>5, <2>6
<1>2. CASE root.mode = "server"
  <2>1. HasAuthority(n, root.gen) /\ UNCHANGED <<root, ids, desk, banned, approvals, orphans>>
    BY Zenon, <1>2 DEF EnsureServerManagedDesktopTrust, history
  <2>2. TablesInv'
    BY Zenon, <2>1, TablesStay
  <2>3. OthersFit(n)
    BY Zenon, <2>1, OthersStay
  <2>4. OwnFits(n)
    BY Zenon, <1>0, <1>2, <2>1, AuthorityFits
  <2>5. RelaysFollowSessions'
    BY Zenon, <1>0, <2>1, RelaysStay DEF Live
  <2> QED
    BY Zenon, <2>2, <2>3, <2>4, <2>5
<1>3. CASE root.mode = "client"
  <2>1. /\ MigrateTrust /\ HasAuthority(n, root.gen + 1)
        /\ banned' = banned \union {ids[i].key : i \in {j \in DOMAIN ids : ~ids[j].revoked}}
        /\ approvals' = approvals \union {requests[m].id : m \in Approving}
        /\ orphans' = orphans \union (relays \cap Live)
    BY Zenon, <1>3 DEF EnsureServerManagedDesktopTrust
  <2>2. DOMAIN root' = {"mode", "gen", "asked"} /\ root'.mode = "server" /\ root'.gen = root.gen + 1
    BY Zenon, <2>1 DEF MigrateTrust
  <2>3. TablesInv'
    BY Zenon, <2>1, <2>2, MigrateKeeps DEF TablesInv, RootInv
  <2>4. desk' = Terminated(Live)
    BY Zenon, <2>1 DEF MigrateTrust
  <2>5. OthersFit(n)
    <3>1. SUFFICES ASSUME NEW m \in DOMAIN requests, m # n
                   PROVE  Fits(root', desk', approvals', m, requests[m])
      BY Zenon DEF OthersFit
    <3>2. Fits(root, desk, approvals, m, requests[m])
      BY Zenon DEF FitsInv
    <3>3. requests[m].pc \in {"existing", "insert"} => requests[m].id \in approvals'
      BY Zenon, <2>1 DEF Approving
    <3>4. m \in DOMAIN desk => m \in DOMAIN desk' /\ desk'[m].op = desk[m].op /\ desk'[m].agent = desk[m].agent
      BY Zenon, <2>4, TerminatedIs DEF TablesInv
    <3> QED
      BY Zenon, <1>3, <2>2, <3>2, <3>3, <3>4 DEF Fits
  <2>6. OwnFits(n)
    BY Zenon, <1>0, <2>1, <2>2, AuthorityFits
  <2>7. RelaysFollowSessions'
    BY Zenon, <1>0, <2>1, RelaysStay
  <2> QED
    BY Zenon, <2>3, <2>5, <2>6, <2>7
<1> QED
  BY Zenon, <1>1, <1>2, <1>3 DEF TablesInv, RootInv

LEMMA CreateStep ==
    ASSUME TablesInv, FitsInv, RelaysFollowSessions, NEW n \in DOMAIN requests, Shape(requests[n]), Moves(n), InstallCreates(n)
    PROVE  TablesInv' /\ OthersFit(n) /\ OwnFits(n) /\ RelaysFollowSessions'
<1>0. /\ requests[n].pc = "create" /\ Enrolling(requests[n]) /\ UNCHANGED <<root, desk, relays, banned, approvals, orphans>>
      /\ "pc" \in DOMAIN requests[n]
  BY Zenon DEF InstallCreates, At, Shape, history
<1>1. root.mode = "server" /\ requests[n].gen0 = root.gen
  BY Zenon, <1>0 DEF FitsInv, Fits
<1> DEFINE row == signServerDesktopIdentity(requests[n].row, requests[n].id, requests[n].gen0, n)
<1>2. Installed(n) \/ Goes(n, "look_again") \/ Answered(n, "error")
  BY Zenon DEF InstallCreates, CreateDesktopIdentity
<1>3. UNCHANGED ids \/ (Unique(requests[n].id, row) /\ ids' = With(ids, requests[n].id, row))
  BY Zenon DEF InstallCreates, CreateDesktopIdentity
<1>4. OwnFits(n)
  <2>1. CASE Goes(n, "look_again")
    <3>1. requests'[n].pc = "look_again" /\ requests'[n].gen0 = requests[n].gen0
      BY Zenon, <1>0, <2>1, GoesIs
    <3> QED
      BY Zenon, <1>0, <1>1, <3>1 DEF OwnFits, Fits
  <2> QED
    BY Zenon, <1>0, <1>2, <2>1, InstalledFits, AnsweredFits DEF Enrolling
<1>5. OthersFit(n)
  BY Zenon, <1>0, OthersStay
<1>6. RelaysFollowSessions'
  BY Zenon, <1>0, RelaysStay DEF Live
<1>7. TablesInv'
  <2>1. PICK x : x = [id |-> requests[n].id, by |-> n]
    BY Zenon
  <2>2. x.id = requests[n].id
    BY Zenon, <2>1
  <2>3. row = [[requests[n].row EXCEPT !.gen = root.gen] EXCEPT !.cert = <<x>>]
    BY Zenon, <1>1, <2>1 DEF signServerDesktopIdentity
  <2>4. RowOk(requests[n].row) /\ (requests[n].row.type = "op" <=> requests[n].id \in Ops)
    BY Zenon, <1>0 DEF Enrolling
  <2>5. PICK c : c = <<x>>
    BY Zenon
  <2>6. IsChain(c) /\ c[1] = x
    BY Zenon, <2>5, ChainOne
  <2>7. RowOk(row) /\ row.type = requests[n].row.type /\ row.gen = root.gen /\ row.cert = c
    BY Zenon, <2>3, <2>4, <2>5 DEF RowOk, Fields
  <2> HIDE DEF row
  <2>8. CASE UNCHANGED ids
    BY Zenon, <1>0, <2>8, TablesStay
  <2>9. CASE Unique(requests[n].id, row) /\ ids' = With(ids, requests[n].id, row)
    <3>1. IdsInv' /\ OldInv' /\ KeyInv' /\ DeskInv' /\ OfferInv'
      BY Zenon, <1>0, <2>2, <2>4, <2>6, <2>7, <2>9, InsertKeeps DEF TablesInv
    <3>2. RootInv'
      BY Zenon, <1>0, <1>1 DEF TablesInv, RootInv
    <3> QED
      BY Zenon, <3>1, <3>2 DEF TablesInv
  <2> QED
    BY Zenon, <1>3, <2>8, <2>9
<1> QED
  BY Zenon, <1>4, <1>5, <1>6, <1>7

LEMMA RefreshStep ==
    ASSUME TablesInv, FitsInv, RelaysFollowSessions, NEW n \in DOMAIN requests, Shape(requests[n]), Moves(n), RefreshDesktopIdentity(n)
    PROVE  TablesInv' /\ OthersFit(n) /\ OwnFits(n) /\ RelaysFollowSessions'
<1>0. /\ requests[n].pc = "refresh" /\ Enrolling(requests[n]) /\ UNCHANGED <<root, relays, banned, approvals, orphans>>
      /\ {"pc", "seen"} \subseteq DOMAIN requests[n] /\ (requests[n].row.type = "op" <=> requests[n].cur \in Ops)
  BY Zenon DEF RefreshDesktopIdentity, At, Shape, history
<1>1. root.mode = "server" /\ requests[n].gen0 = root.gen
  BY Zenon, <1>0 DEF FitsInv, Fits
<1>2. PICK i : i = requests[n].cur
  OBVIOUS
<1>3. PICK row : row = signServerDesktopIdentity(requests[n].row, i, requests[n].gen0, n)
  OBVIOUS
<1>4. \/ UNCHANGED <<ids, desk>> /\ \E answer : Answered(n, answer)
      \/ /\ CanRevoke(i) /\ StaysUnique(i, row) /\ RefreshIdentity(i, row)
         /\ requests' = [requests EXCEPT ![n].pc = "relays", ![n].seen = LiveIn(i)]
  BY Zenon, <1>2, <1>3 DEF RefreshDesktopIdentity
<1>5. CASE UNCHANGED <<ids, desk>> /\ \E answer : Answered(n, answer)
  <2>1. TablesInv'
    BY Zenon, <1>0, <1>5, TablesStay
  <2>2. OthersFit(n)
    BY Zenon, <1>0, <1>5, OthersStay
  <2>3. OwnFits(n)
    BY Zenon, <1>5, AnsweredFits
  <2>4. RelaysFollowSessions'
    BY Zenon, <1>0, <1>5, RelaysStay DEF Live
  <2> QED
    BY Zenon, <2>1, <2>2, <2>3, <2>4
<1>6. CASE /\ CanRevoke(i) /\ StaysUnique(i, row) /\ RefreshIdentity(i, row)
           /\ requests' = [requests EXCEPT ![n].pc = "relays", ![n].seen = LiveIn(i)]
  <2>1. PICK x : x = [id |-> i, by |-> n]
    BY Zenon
  <2>2. x.id = i
    BY Zenon, <2>1
  <2>3. row = [[requests[n].row EXCEPT !.gen = root.gen] EXCEPT !.cert = <<x>>]
    BY Zenon, <1>1, <1>3, <2>1 DEF signServerDesktopIdentity
  <2>4. RowOk(requests[n].row) /\ (requests[n].row.type = "op" <=> i \in Ops)
    BY Zenon, <1>0, <1>2 DEF Enrolling
  <2>5. PICK c : c = <<x>>
    BY Zenon
  <2>6. IsChain(c) /\ c[1] = x
    BY Zenon, <2>5, ChainOne
  <2>7. RowOk(row) /\ row.type = requests[n].row.type /\ row.gen = root.gen /\ row.cert = c
    BY Zenon, <2>3, <2>4, <2>5 DEF RowOk, Fields
  <2>8. IdsInv' /\ OldInv' /\ KeyInv' /\ DeskInv' /\ OfferInv'
    BY Zenon, <1>0, <1>6, <2>2, <2>4, <2>6, <2>7, RefreshKeeps DEF TablesInv
  <2>9. RootInv'
    BY Zenon, <1>0, <1>1 DEF TablesInv, RootInv
  <2>10. desk' = Terminated(LiveIn(i))
    BY Zenon, <1>6 DEF RefreshIdentity
  <2>11. OthersFit(n)
    BY Zenon, <1>0, <2>10, TerminatedIs, OthersStay DEF TablesInv
  <2>12. requests'[n] = [[requests[n] EXCEPT !.pc = "relays"] EXCEPT !.seen = LiveIn(i)]
    BY Zenon, <1>6
  <2>13. n \in DOMAIN requests' /\ requests'[n].pc = "relays" /\ requests'[n].seen = LiveIn(i)
    BY Zenon, <1>0, <1>6, <2>12
  <2>14. OwnFits(n)
    BY Zenon, <2>13, FreeFits DEF Waits
  <2>15. \A s \in Live : s \in Live' \/ s \in LiveIn(i)
    BY Zenon, <2>10, TerminatedIs DEF TablesInv, Live
  <2>16. RelaysFollowSessions'
    BY Zenon, <1>0, <2>13, <2>15, RelaysStay
  <2> QED
    BY Zenon, <2>8, <2>9, <2>11, <2>14, <2>16 DEF TablesInv
<1> QED
  BY Zenon, <1>4, <1>5, <1>6

LEMMA RevokeStep ==
    ASSUME TablesInv, FitsInv, RelaysFollowSessions, NEW n \in DOMAIN requests, Shape(requests[n]), Moves(n), RevokeDesktopIdentity(n)
    PROVE  TablesInv' /\ OthersFit(n) /\ OwnFits(n) /\ RelaysFollowSessions'
<1>0. /\ requests[n].pc = "revoke_tx" /\ UNCHANGED <<root, relays, approvals, orphans>>
      /\ {"pc", "seen"} \subseteq DOMAIN requests[n]
  BY Zenon DEF RevokeDesktopIdentity, At, Shape
<1>1. PICK i : i = requests[n].cur
  OBVIOUS
<1>2. CASE ~CanRevoke(i)
  <2>0. UNCHANGED <<ids, desk, banned>> /\ Answered(n, "conflict")
    BY Zenon, <1>1, <1>2 DEF RevokeDesktopIdentity
  <2>1. TablesInv'
    BY Zenon, <1>0, <2>0, TablesStay
  <2>2. OthersFit(n)
    BY Zenon, <1>0, <2>0, OthersStay
  <2>3. OwnFits(n)
    BY Zenon, <2>0, AnsweredFits
  <2>4. RelaysFollowSessions'
    BY Zenon, <1>0, <2>0, RelaysStay DEF Live
  <2> QED
    BY Zenon, <2>1, <2>2, <2>3, <2>4
<1>3. CASE CanRevoke(i)
  <2>0. RevokeIdentity(i) /\ banned' = banned \union {ids[i].key}
    BY Zenon, <1>1, <1>3 DEF RevokeDesktopIdentity
  <2>1. PICK seen : requests' = [requests EXCEPT ![n].pc = "relays", ![n].seen = seen] /\ LiveIn(i) \subseteq seen
    <3>1. CASE LiveIn(i) = {}
      <4>1. requests' = [requests EXCEPT ![n].pc = "relays", ![n].seen = requests[n].seen]
        BY Zenon, <1>1, <1>3, <3>1 DEF RevokeDesktopIdentity
      <4> QED
        BY Zenon, <3>1, <4>1
    <3>2. CASE LiveIn(i) # {}
      <4>1. requests' = [requests EXCEPT ![n].pc = "relays", ![n].seen = LiveIn(i)]
        BY Zenon, <1>1, <1>3, <3>2 DEF RevokeDesktopIdentity
      <4> QED
        BY Zenon, <4>1
    <3> QED
      BY Zenon, <3>1, <3>2
  <2>2. IdsInv' /\ OldInv' /\ KeyInv' /\ DeskInv' /\ OfferInv'
    BY Zenon, <1>0, <1>3, <2>0, RevokeKeeps DEF TablesInv
  <2>3. RootInv'
    BY Zenon, <1>0, <2>0 DEF TablesInv, RootInv, RevokeIdentity
  <2>4. desk' = Terminated(LiveIn(i))
    BY Zenon, <2>0 DEF RevokeIdentity
  <2>5. OthersFit(n)
    BY Zenon, <1>0, <2>4, TerminatedIs, OthersStay DEF TablesInv
  <2>6. requests'[n] = [[requests[n] EXCEPT !.pc = "relays"] EXCEPT !.seen = seen]
    BY Zenon, <2>1
  <2>7. n \in DOMAIN requests' /\ requests'[n].pc = "relays" /\ requests'[n].seen = seen
    BY Zenon, <1>0, <2>1, <2>6
  <2>8. OwnFits(n)
    BY Zenon, <2>7, FreeFits DEF Waits
  <2>9. \A s \in Live : s \in Live' \/ s \in LiveIn(i)
    BY Zenon, <2>4, TerminatedIs DEF TablesInv, Live
  <2>10. RelaysFollowSessions'
    BY Zenon, <1>0, <2>1, <2>7, <2>9, RelaysStay
  <2> QED
    BY Zenon, <2>2, <2>3, <2>5, <2>8, <2>10 DEF TablesInv
<1> QED
  BY Zenon, <1>2, <1>3

LEMMA InsertStep ==
    ASSUME TablesInv, FitsInv, RelaysFollowSessions, NEW n \in DOMAIN requests, Shape(requests[n]), Moves(n), ApprovalInserts(n)
    PROVE  TablesInv' /\ OthersFit(n) /\ OwnFits(n) /\ RelaysFollowSessions'
<1>0. /\ requests[n].pc = "insert" /\ UNCHANGED <<root, desk, relays, banned, approvals, orphans>>
      /\ "pc" \in DOMAIN requests[n]
  BY Zenon DEF ApprovalInserts, At, Shape, history
<1>1. root.mode # "none" /\ (requests[n].row.gen = root.gen \/ requests[n].id \in approvals)
  BY Zenon, <1>0 DEF FitsInv, Fits
<1>2. Goes(n, "delete_pending") \/ \E answer : Answered(n, answer)
  BY Zenon DEF ApprovalInserts
<1>3. UNCHANGED ids \/ (Unique(requests[n].id, requests[n].row) /\ ids' = With(ids, requests[n].id, requests[n].row))
  BY Zenon DEF ApprovalInserts, CreateDesktopIdentity
<1>4. OwnFits(n)
  <2>1. CASE Goes(n, "delete_pending")
    BY SMTT(30), <1>0, <2>1, GoesIs, FreeFits DEF Waits
  <2> QED
    BY Zenon, <1>2, <2>1, AnsweredFits
<1>5. OthersFit(n)
  BY Zenon, <1>0, OthersStay
<1>6. RelaysFollowSessions'
  BY Zenon, <1>0, RelaysStay DEF Live
<1>7. TablesInv'
  <2>1. CASE UNCHANGED ids
    BY Zenon, <1>0, <2>1, TablesStay
  <2>2. CASE Unique(requests[n].id, requests[n].row) /\ ids' = With(ids, requests[n].id, requests[n].row)
    <3>1. PICK id, row : id = requests[n].id /\ row = requests[n].row
      OBVIOUS
    <3>2. /\ RowOk(row) /\ (row.type = "op" <=> id \in Ops)
          /\ IsChain(row.cert) /\ Len(row.cert) # 1 /\ row.cert[1].id = id
      BY Zenon, <1>0, <3>1 DEF Shape
    <3>4. IdsInv' /\ OldInv' /\ KeyInv' /\ DeskInv' /\ OfferInv'
      BY Zenon, <1>0, <1>1, <2>2, <3>1, <3>2, InsertKeeps DEF TablesInv
    <3>5. RootInv'
      BY Zenon, <1>0, <1>1 DEF TablesInv, RootInv
    <3> QED
      BY Zenon, <3>4, <3>5 DEF TablesInv
  <2> QED
    BY Zenon, <1>3, <2>1, <2>2
<1> QED
  BY Zenon, <1>4, <1>5, <1>6, <1>7

LEMMA RelaysStep ==
    ASSUME TablesInv, FitsInv, RelaysFollowSessions, NEW n \in DOMAIN requests, Shape(requests[n]), Moves(n), revokeDesktopRelays(n)
    PROVE  TablesInv' /\ OthersFit(n) /\ OwnFits(n) /\ RelaysFollowSessions'
<1>0. /\ requests[n].pc = "relays" /\ UNCHANGED <<root, ids, desk, banned, approvals, orphans>> /\ relays' = relays \ requests[n].seen
      /\ requests[n].kind \in {"revoke", "browser", "endpoint", "mac", "terminate", "open"}
  BY Zenon DEF revokeDesktopRelays, At, Shape, tables, history
<1>1. TablesInv'
  BY Zenon, <1>0, TablesStay
<1>2. OthersFit(n)
  BY Zenon, <1>0, OthersStay
<1>3. OwnFits(n)
  <2>1. CASE requests[n].kind \in {"revoke", "terminate", "open"}
    BY Zenon, <2>1, AnsweredFits DEF revokeDesktopRelays, RelaysRevoked
  <2>2. CASE requests[n].kind \in {"browser", "endpoint", "mac"}
    BY Zenon, <2>2, InstalledFits DEF revokeDesktopRelays, RelaysRevoked
  <2> QED
    BY Zenon, <1>0, <2>1, <2>2
<1>4. RelaysFollowSessions'
  <2>1. SUFFICES ASSUME NEW s \in relays'
                 PROVE  s \in Live' \cup orphans' \/ \E m \in DOMAIN requests' : requests'[m].pc = "relays" /\ s \in requests'[m].seen
    BY Zenon DEF RelaysFollowSessions
  <2>2. s \in relays /\ s \notin requests[n].seen
    BY Zenon, <1>0
  <2>3. CASE s \in Live \cup orphans
    BY Zenon, <1>0, <2>3 DEF Live
  <2>4. ASSUME NEW m \in DOMAIN requests, requests[m].pc = "relays", s \in requests[m].seen
        PROVE  \E k \in DOMAIN requests' : requests'[k].pc = "relays" /\ s \in requests'[k].seen
    BY Zenon, <2>2, <2>4 DEF Moves
  <2> QED
    BY Zenon, <2>2, <2>3, <2>4 DEF RelaysFollowSessions
<1> QED
  BY Zenon, <1>1, <1>2, <1>3, <1>4

LEMMA AskStep ==
    ASSUME TablesInv, FitsInv, RelaysFollowSessions, NEW n \in DOMAIN requests, Moves(n), IssueDesktopRecoveryChallenge(n)
    PROVE  TablesInv' /\ OthersFit(n) /\ OwnFits(n) /\ RelaysFollowSessions'
<1>0. /\ requests[n].pc = "ask" /\ UNCHANGED <<ids, desk, relays, banned, approvals, orphans>> /\ root' = [root EXCEPT !.asked = n]
      /\ Answered(n, "ok")
  BY Zenon DEF IssueDesktopRecoveryChallenge, At, history
<1>1. DOMAIN root' = DOMAIN root /\ root'.mode = root.mode /\ root'.gen = root.gen
  BY <1>0
<1>2. TablesInv'
  <2>1. RootInv'
    BY Zenon, <1>0, <1>1 DEF TablesInv, RootInv
  <2>2. IdsInv' /\ OldInv'
    BY Zenon, <1>0, <1>1 DEF TablesInv, IdsInv, OldInv
  <2>3. KeyInv'
    BY Zenon, <1>0 DEF TablesInv, KeyInv
  <2>4. DeskInv' /\ OfferInv'
    BY Zenon, <1>0 DEF TablesInv, DeskInv, OfferInv
  <2> QED
    BY Zenon, <2>1, <2>2, <2>3, <2>4 DEF TablesInv
<1>3. OthersFit(n)
  BY Zenon, <1>0, <1>1, OthersStay
<1>4. OwnFits(n)
  BY Zenon, <1>0, AnsweredFits
<1>5. RelaysFollowSessions'
  BY Zenon, <1>0, RelaysStay DEF Live
<1> QED
  BY Zenon, <1>2, <1>3, <1>4, <1>5

LEMMA OpenStep ==
    ASSUME TablesInv, FitsInv, RelaysFollowSessions, NEW n \in DOMAIN requests, Shape(requests[n]), Moves(n), CreateDesktopSession(n)
    PROVE  TablesInv' /\ OthersFit(n) /\ OwnFits(n) /\ RelaysFollowSessions'
<1>0. /\ requests[n].pc = "session" /\ UNCHANGED <<root, ids, relays, banned, approvals, orphans>>
      /\ "pc" \in DOMAIN requests[n] /\ requests[n].cur \in Ops
  BY Zenon DEF CreateDesktopSession, At, Shape, history
<1>1. PICK o, a : o = requests[n].cur /\ a = requests[n].agent
  OBVIOUS
<1>2. \/ UNCHANGED desk /\ \E answer : Answered(n, answer)
      \/ /\ o \in DOMAIN ids /\ Goes(n, "offer")
         /\ desk' = With(desk, n, [op |-> o, agent |-> a, live |-> TRUE, sent |-> FALSE])
  BY Zenon, <1>1 DEF CreateDesktopSession
<1>3. RootInv'
  BY Zenon, <1>0 DEF TablesInv, RootInv
<1>4. IdsInv' /\ OldInv' /\ KeyInv'
  BY Zenon, <1>0 DEF TablesInv, IdsInv, OldInv, KeyInv
<1>5. CASE UNCHANGED desk /\ \E answer : Answered(n, answer)
  <2>1. DeskInv' /\ OfferInv'
    BY Zenon, <1>0, <1>5 DEF TablesInv, DeskInv, OfferInv
  <2>2. OthersFit(n)
    BY Zenon, <1>0, <1>5, OthersStay
  <2>3. OwnFits(n)
    BY Zenon, <1>5, AnsweredFits
  <2>4. RelaysFollowSessions'
    BY Zenon, <1>0, <1>5, RelaysStay DEF Live
  <2> QED
    BY Zenon, <1>3, <1>4, <2>1, <2>2, <2>3, <2>4 DEF TablesInv
<1>6. CASE /\ o \in DOMAIN ids /\ Goes(n, "offer")
           /\ desk' = With(desk, n, [op |-> o, agent |-> a, live |-> TRUE, sent |-> FALSE])
  <2>1. DeskInv' /\ OfferInv'
    BY Zenon, <1>0, <1>1, <1>6, OpenKeeps DEF TablesInv
  <2>2. /\ DOMAIN desk' = DOMAIN desk \cup {n} /\ desk'[n] = [op |-> o, agent |-> a, live |-> TRUE, sent |-> FALSE]
        /\ \A s \in DOMAIN desk : s # n => desk'[s] = desk[s]
    BY Zenon, <1>6 DEF With
  <2>3. desk'[n].op = o /\ desk'[n].agent = a
    BY SMTT(30), <2>2
  <2>4. desk'[n].live
    BY SMTT(30), <2>2
  <2>5. OthersFit(n)
    BY Zenon, <1>0, <2>2, OthersStay
  <2>6. requests'[n].pc = "offer" /\ requests'[n].cur = o /\ requests'[n].agent = a
    BY Zenon, <1>0, <1>1, <1>6, GoesIs
  <2>7. n \in DOMAIN desk'
    BY Zenon, <2>2
  <2>8. OwnFits(n)
    BY Zenon, <2>3, <2>6, <2>7 DEF OwnFits, Fits
  <2>9. \A s \in Live : s \in Live'
    <3>1. SUFFICES ASSUME NEW s \in DOMAIN desk, desk[s].live
                   PROVE  s \in DOMAIN desk' /\ desk'[s].live
      BY Zenon DEF Live
    <3>2. CASE s = n
      BY Zenon, <2>4, <2>7, <3>2
    <3>3. CASE s # n
      BY Zenon, <2>2, <3>1, <3>3
    <3> QED
      BY Zenon, <3>2, <3>3
  <2>10. RelaysFollowSessions'
    BY Zenon, <1>0, <2>9, RelaysStay
  <2> QED
    BY Zenon, <1>3, <1>4, <2>1, <2>5, <2>8, <2>10 DEF TablesInv
<1> QED
  BY Zenon, <1>2, <1>5, <1>6

LEMMA OfferStep ==
    ASSUME TablesInv, FitsInv, RelaysFollowSessions, NEW n \in DOMAIN requests, Shape(requests[n]), Moves(n), sendDesktopOffer(n)
    PROVE  TablesInv' /\ OthersFit(n) /\ OwnFits(n) /\ RelaysFollowSessions'
<1>0. /\ requests[n].pc = "offer" /\ UNCHANGED <<root, ids, relays, banned, approvals, orphans>>
      /\ requests[n].row.cert[1].id = requests[n].cur /\ {"pc", "seen"} \subseteq DOMAIN requests[n]
  BY Zenon DEF sendDesktopOffer, At, Shape, history
<1>1. n \in DOMAIN desk /\ desk[n].op = requests[n].cur /\ desk[n].agent = requests[n].agent
  BY Zenon, <1>0 DEF FitsInv, Fits
<1>2. \/ UNCHANGED desk
      \/ StillTrusted(requests[n]) /\ desk' = [desk EXCEPT ![n].sent = TRUE]
      \/ desk' = Terminated({n}) /\ requests' = [requests EXCEPT ![n].pc = "relays", ![n].seen = {n}]
  BY Zenon DEF sendDesktopOffer
<1>a. ASSUME requests' = [requests EXCEPT ![n].pc = "relays", ![n].seen = {n}]
      PROVE  n \in DOMAIN requests' /\ requests'[n].pc = "relays" /\ requests'[n].seen = {n}
  <2>1. n \in DOMAIN requests' /\ requests'[n] = [[requests[n] EXCEPT !.pc = "relays"] EXCEPT !.seen = {n}]
    BY Zenon, <1>a
  <2> QED
    BY Zenon, <1>0, <2>1
<1>3. OwnFits(n)
  <2>1. \/ \E answer : Answered(n, answer)
        \/ requests' = [requests EXCEPT ![n].pc = "relays", ![n].seen = {n}]
    BY Zenon DEF sendDesktopOffer
  <2>2. CASE requests' = [requests EXCEPT ![n].pc = "relays", ![n].seen = {n}]
    BY Zenon, <1>a, <2>2, FreeFits DEF Waits
  <2> QED
    BY Zenon, <2>1, <2>2, AnsweredFits
<1>4. RootInv'
  BY Zenon, <1>0 DEF TablesInv, RootInv
<1>5. IdsInv' /\ OldInv' /\ KeyInv'
  BY Zenon, <1>0 DEF TablesInv, IdsInv, OldInv, KeyInv
<1>6. CASE UNCHANGED desk
  <2>1. DeskInv' /\ OfferInv'
    BY Zenon, <1>0, <1>6 DEF TablesInv, DeskInv, OfferInv
  <2>2. OthersFit(n)
    BY Zenon, <1>0, <1>6, OthersStay
  <2>3. RelaysFollowSessions'
    BY Zenon, <1>0, <1>6, RelaysStay DEF Live
  <2> QED
    BY Zenon, <1>3, <1>4, <1>5, <2>1, <2>2, <2>3 DEF TablesInv
<1>7. CASE StillTrusted(requests[n]) /\ desk' = [desk EXCEPT ![n].sent = TRUE]
  <2>1. PICK r : r = requests[n]
    OBVIOUS
  <2>2. DeskInv' /\ OfferInv'
    BY Zenon, <1>0, <1>1, <1>7, <2>1, OfferKeeps DEF TablesInv
  <2>3. /\ DOMAIN desk' = DOMAIN desk /\ desk'[n] = [desk[n] EXCEPT !.sent = TRUE]
        /\ \A s \in DOMAIN desk : s # n => desk'[s] = desk[s]
    BY Zenon, <1>1, <1>7
  <2>4. OthersFit(n)
    BY Zenon, <1>0, <2>3, OthersStay
  <2>5. desk'[n].live = desk[n].live
    BY <1>1, <2>3
  <2>6. \A s \in Live : s \in Live'
    BY Zenon, <2>3, <2>5 DEF Live
  <2>7. RelaysFollowSessions'
    BY Zenon, <1>0, <1>7, <2>6, RelaysStay
  <2> QED
    BY Zenon, <1>3, <1>4, <1>5, <2>2, <2>4, <2>7 DEF TablesInv
<1>8. CASE desk' = Terminated({n}) /\ requests' = [requests EXCEPT ![n].pc = "relays", ![n].seen = {n}]
  <2>1. DeskInv' /\ OfferInv'
    BY Zenon, <1>0, <1>8, TerminateKeeps DEF TablesInv
  <2>2. OthersFit(n)
    BY Zenon, <1>0, <1>8, TerminatedIs, OthersStay DEF TablesInv
  <2>3. \A s \in Live : s \in Live' \/ s = n
    BY SMTT(60), <1>8, TerminatedIs DEF TablesInv, Live
  <2>4. RelaysFollowSessions'
    <3>1. n \in DOMAIN requests' /\ requests'[n].pc = "relays" /\ \A s \in Live : s \in Live' \/ s \in requests'[n].seen
      BY Zenon, <1>a, <1>8, <2>3
    <3> QED
      BY Zenon, <1>0, <3>1, RelaysStay
  <2> QED
    BY Zenon, <1>3, <1>4, <1>5, <2>1, <2>2, <2>4 DEF TablesInv
<1> QED
  BY Zenon, <1>2, <1>6, <1>7, <1>8

\* A side that registers after the end of its session is counted.
LEMMA JoinStep ==
    ASSUME TablesInv, FitsInv, RelaysFollowSessions, NEW n \in DOMAIN requests, Moves(n), JoinsRelay(n)
    PROVE  TablesInv' /\ OthersFit(n) /\ OwnFits(n) /\ RelaysFollowSessions'
<1>0. /\ requests[n].pc = "accept" /\ UNCHANGED <<root, ids, desk, banned, approvals>>
      /\ \E answer : Answered(n, answer)
  BY Zenon DEF JoinsRelay, At, tables
<1>1. orphans \subseteq orphans' /\ \A s \in relays' : s \in relays \/ s \in Live \/ s \in orphans'
  BY Zenon DEF JoinsRelay
<1>2. TablesInv'
  BY Zenon, <1>0, TablesStay
<1>3. OthersFit(n)
  BY Zenon, <1>0, OthersStay
<1>4. OwnFits(n)
  BY Zenon, <1>0, AnsweredFits
<1>5. Live' = Live
  BY Zenon, <1>0 DEF Live
<1>6. RelaysFollowSessions'
  <2>1. SUFFICES ASSUME NEW s \in relays, s \notin Live \cup orphans
                 PROVE  \E k \in DOMAIN requests' : requests'[k].pc = "relays" /\ s \in requests'[k].seen
    BY Zenon, <1>1, <1>5 DEF RelaysFollowSessions
  <2>2. PICK m \in DOMAIN requests : requests[m].pc = "relays" /\ s \in requests[m].seen
    BY Zenon, <2>1 DEF RelaysFollowSessions
  <2> QED
    BY Zenon, <1>0, <2>2 DEF Moves
<1> QED
  BY Zenon, <1>2, <1>3, <1>4, <1>6

LEMMA TerminateStep ==
    ASSUME TablesInv, FitsInv, RelaysFollowSessions, NEW n \in DOMAIN requests, Shape(requests[n]), Moves(n),
           TerminateDesktopSession(n)
    PROVE  TablesInv' /\ OthersFit(n) /\ OwnFits(n) /\ RelaysFollowSessions'
<1>0. /\ requests[n].pc = "terminate" /\ UNCHANGED <<root, ids, relays, banned, approvals, orphans>>
      /\ "pc" \in DOMAIN requests[n] /\ "seen" \in DOMAIN requests[n]
  BY Zenon DEF TerminateDesktopSession, At, Shape, history
<1>1. PICK S : S = requests[n].seen
  OBVIOUS
<1>2. \/ UNCHANGED desk /\ Answered(n, "conflict")
      \/ desk' = Terminated(S) /\ Goes(n, "relays")
  BY Zenon, <1>1 DEF TerminateDesktopSession
<1>3. CASE UNCHANGED desk /\ Answered(n, "conflict")
  <2>1. TablesInv'
    BY Zenon, <1>0, <1>3, TablesStay
  <2>2. OthersFit(n)
    BY Zenon, <1>0, <1>3, OthersStay
  <2>3. OwnFits(n)
    BY Zenon, <1>3, AnsweredFits
  <2>4. RelaysFollowSessions'
    BY Zenon, <1>0, <1>3, RelaysStay DEF Live
  <2> QED
    BY Zenon, <2>1, <2>2, <2>3, <2>4
<1>4. CASE desk' = Terminated(S) /\ Goes(n, "relays")
  <2>1. DeskInv' /\ OfferInv'
    BY Zenon, <1>0, <1>4, TerminateKeeps DEF TablesInv
  <2>2. RootInv' /\ IdsInv' /\ OldInv' /\ KeyInv'
    BY Zenon, <1>0 DEF TablesInv, RootInv, IdsInv, OldInv, KeyInv
  <2>3. OthersFit(n)
    BY Zenon, <1>0, <1>4, TerminatedIs, OthersStay DEF TablesInv
  <2>4. n \in DOMAIN requests' /\ requests'[n] = [requests[n] EXCEPT !.pc = "relays"]
    BY Zenon, <1>4 DEF Goes
  <2>5. requests'[n].pc = "relays" /\ requests'[n].seen = S
    BY Zenon, <1>0, <1>1, <2>4
  <2>6. OwnFits(n)
    BY Zenon, <2>5, FreeFits DEF Waits
  <2>7. \A s \in Live : s \in Live' \/ s \in S
    BY SMTT(30), <1>4, TerminatedIs DEF TablesInv, Live
  <2>8. RelaysFollowSessions'
    BY Zenon, <1>0, <2>4, <2>5, <2>7, RelaysStay
  <2> QED
    BY Zenon, <2>1, <2>2, <2>3, <2>6, <2>8 DEF TablesInv
<1> QED
  BY Zenon, <1>2, <1>3, <1>4

-----------------------------------------------------------------------------
(* The inductive invariant *)

IInv == TablesInv /\ ShapeInv /\ PendingInv /\ LeftInv /\ FitsInv /\ RelaysFollowSessions

LEMMA StepKeeps ==
    ASSUME IInv, NEW n \in DOMAIN requests, Step(n), UNCHANGED left
    PROVE  IInv'
<1>0. TablesInv /\ ShapeInv /\ PendingInv /\ LeftInv /\ FitsInv /\ RelaysFollowSessions /\ Shape(requests[n])
  BY Zenon DEF IInv, ShapeInv
<1>1. Moves(n)
  <2>1. root.mode = "none" => requests[n].kind # "get" \/ requests[n].pc \notin {"ensure", "ensure_tx"}
    BY Zenon, <1>0 DEF FitsInv, Fits
  <2> QED
    BY Zenon, <1>0, <2>1, StepMoves DEF TablesInv
<1>2. TablesInv' /\ OthersFit(n) /\ OwnFits(n) /\ RelaysFollowSessions'
  BY Zenon, <1>0, <1>1, QuietStep, EnsureStep, CreateStep, RefreshStep, RevokeStep, InsertStep,
     RelaysStep, AskStep, OpenStep, OfferStep, JoinStep, TerminateStep DEF Step, Quiet
<1>3. ShapeInv'
  BY Zenon, <1>0, <1>1 DEF ShapeInv, Moves
<1>4. FitsInv'
  BY Zenon, <1>1, <1>2 DEF FitsInv, OthersFit, OwnFits, Moves
<1>5. LeftInv'
  BY Zenon, <1>0, <1>1 DEF LeftInv, Moves
<1>6. PendingInv'
  <2>1. CASE DeleteDesktopPendingEnrollment(n)
    BY Zenon, <1>0, <2>1 DEF DeleteDesktopPendingEnrollment, PendingInv
  <2>2. CASE ~DeleteDesktopPendingEnrollment(n)
    <3>1. UNCHANGED pending
      BY Zenon, <2>2 DEF Step, EnsureReads, EnsureServerManagedDesktopTrust, EnsureAborts,
         InstallReads, InstallCreates, getActiveDesktopIdentity, RefreshDesktopIdentity,
         RefreshAborts, InstallReplaces, revokeDesktopRelays, verifyDesktopApprover, ApprovalLooks,
         ApprovalInserts, PendingReads, PendingLooks, ListLiveDesktopSessionIDs,
         RevokeDesktopIdentity, RevokeAborts, IssueDesktopRecoveryChallenge,
         ConsumeDesktopRecoveryChallenge, ReplacesTrust, MacReadsAgent, UpsertAgent,
         RevokeAgentTokensForAgent, CreateAgentToken, CreateDesktopSession, sendDesktopOffer,
         JoinsRelay, TerminateDesktopSession, mapDesktopStoreError, tables
    <3> QED
      BY Zenon, <1>0, <3>1 DEF PendingInv
  <2> QED
    BY Zenon, <2>1, <2>2
<1> QED
  BY Zenon, <1>2, <1>3, <1>4, <1>5, <1>6 DEF IInv

LEMMA ArrivalKeeps ==
    ASSUME IInv, Arrives
    PROVE  IInv'
<1>0. TablesInv /\ ShapeInv /\ PendingInv /\ LeftInv /\ FitsInv /\ RelaysFollowSessions
  BY Zenon DEF IInv
<1>1. UNCHANGED <<root, ids, desk, relays, banned, approvals, orphans>> /\ PendingInv'
  BY Zenon, <1>0, ArrivesKeeps DEF history
<1>2. Enters
  BY Zenon, <1>0, ArrivesEnters DEF TablesInv, RootInv
<1>3. PICK r \in left : Enters!(r)
  BY Zenon, <1>2 DEF Enters
<1>4. TablesInv'
  BY Zenon, <1>0, <1>1, TablesStay
<1>5. CASE UNCHANGED requests
  <2>1. ShapeInv' /\ FitsInv'
    BY Zenon, <1>0, <1>1, <1>5 DEF ShapeInv, FitsInv
  <2>2. LeftInv'
    BY Zenon, <1>0, <1>3, <1>5 DEF LeftInv
  <2>3. RelaysFollowSessions'
    BY Zenon, <1>0, <1>1, <1>5 DEF RelaysFollowSessions, Live
  <2> QED
    BY Zenon, <1>1, <1>4, <2>1, <2>2, <2>3 DEF IInv
<1>6. ASSUME NEW q, requests' = With(requests, r.n, q), Shape(q),
             q.pc \notin {"existing", "insert", "offer", "install", "create", "look_again", "refresh"},
             q.pc \in {"ensure", "ensure_tx"} /\ q.kind = "get" => root.mode # "none"
      PROVE  IInv'
  <2>1. r.n \notin DOMAIN requests
    BY Zenon, <1>0, <1>3 DEF LeftInv
  <2>2. DOMAIN requests' = DOMAIN requests \cup {r.n} /\ requests'[r.n] = q /\ \A m \in DOMAIN requests : m # r.n /\ requests'[m] = requests[m]
    BY Zenon, <1>6, <2>1 DEF With
  <2>3. ShapeInv'
    BY Zenon, <1>0, <1>6, <2>2 DEF ShapeInv
  <2>4. Fits(root, desk, approvals, r.n, q)
    BY Zenon, <1>6 DEF Fits
  <2>5. FitsInv'
    BY Zenon, <1>0, <1>1, <2>2, <2>4 DEF FitsInv
  <2>6. LeftInv'
    BY Zenon, <1>0, <1>3, <2>2 DEF LeftInv
  <2>7. RelaysFollowSessions'
    BY Zenon, <1>0, <1>1, <2>2 DEF RelaysFollowSessions, Live
  <2> QED
    BY Zenon, <1>1, <1>4, <2>3, <2>5, <2>6, <2>7 DEF IInv
<1> QED
  BY Zenon, <1>3, <1>5, <1>6

\* What happens beside the requests.
LEMMA EventKeeps ==
    ASSUME IInv, Unset \notin Logins, LoginEnds \/ IdentityExpires \/ RunOnce
    PROVE  IInv'
<1>0. TablesInv /\ ShapeInv /\ PendingInv /\ LeftInv /\ FitsInv /\ RelaysFollowSessions
  BY Zenon DEF IInv
<1>1. UNCHANGED <<root, pending, requests, approvals, orphans>> /\ left' \subseteq left
  BY Zenon DEF LoginEnds, IdentityExpires, RunOnce, Happens, tables, history
<1>2. ShapeInv' /\ PendingInv'
  BY Zenon, <1>0, <1>1 DEF ShapeInv, PendingInv
<1>3. LeftInv'
  BY Zenon, <1>0, <1>1 DEF LeftInv
<1>4. CASE LoginEnds
  <2>1. UNCHANGED <<ids, desk, relays, banned>>
    BY Zenon, <1>4 DEF LoginEnds, history
  <2>2. TablesInv'
    BY Zenon, <1>0, <1>1, <2>1, TablesStay
  <2>3. FitsInv'
    BY Zenon, <1>0, <1>1, <2>1 DEF FitsInv
  <2>4. RelaysFollowSessions'
    BY Zenon, <1>0, <1>1, <2>1 DEF RelaysFollowSessions, Live
  <2> QED
    BY Zenon, <1>2, <1>3, <2>2, <2>3, <2>4 DEF IInv
<1>6. CASE IdentityExpires \/ RunOnce
  <2>1. UNCHANGED <<desk, relays>>
    BY Zenon, <1>6 DEF IdentityExpires, RunOnce
  <2>2. FitsInv'
    BY Zenon, <1>0, <1>1, <2>1 DEF FitsInv
  <2>3. RelaysFollowSessions'
    BY Zenon, <1>0, <1>1, <2>1 DEF RelaysFollowSessions, Live
  <2>4. DOMAIN ids' \subseteq DOMAIN ids
    BY Zenon, <1>6 DEF IdentityExpires, RunOnce
  <2>5. RootInv'
    BY Zenon, <1>0, <1>1, <2>4 DEF TablesInv, RootInv
  <2>6. CASE IdentityExpires
    <3>1. PICK r \in left : IdentityExpires!(r)
      BY Zenon, <2>6 DEF IdentityExpires
    <3>2. PICK i \in DOMAIN ids : ids' = [ids EXCEPT ![i].old = TRUE] /\ UNCHANGED banned
      BY Zenon, <3>1 DEF history
    <3>3. IdsInv' /\ OldInv' /\ KeyInv' /\ DeskInv' /\ OfferInv'
      BY Zenon, <1>0, <1>1, <2>1, <3>2, ExpireKeeps DEF TablesInv
    <3> QED
      BY Zenon, <1>2, <1>3, <2>2, <2>3, <2>5, <3>3 DEF IInv, TablesInv
  <2>7. CASE RunOnce /\ Prunable
    <3>1. ids' = [i \in DOMAIN ids \ Bound |-> ids[i]] /\ banned' = banned \ {ids[i].key : i \in Bound}
      BY Zenon, <2>7 DEF RunOnce
    <3>2. IdsInv' /\ OldInv' /\ KeyInv' /\ DeskInv' /\ OfferInv'
      BY Zenon, <1>0, <1>1, <2>1, <2>7, <3>1, PruneKeeps DEF TablesInv
    <3> QED
      BY Zenon, <1>2, <1>3, <2>2, <2>3, <2>5, <3>2 DEF IInv, TablesInv
  <2>8. CASE RunOnce /\ ~Prunable
    <3>1. UNCHANGED <<ids, banned>>
      BY Zenon, <2>8 DEF RunOnce
    <3>2. TablesInv'
      BY Zenon, <1>0, <1>1, <2>1, <3>1, TablesStay
    <3> QED
      BY Zenon, <1>2, <1>3, <2>2, <2>3, <3>2 DEF IInv
  <2> QED
    BY Zenon, <1>6, <2>6, <2>7, <2>8
<1> QED
  BY Zenon, <1>4, <1>6

\* Every scenario starts in order, and the empty column is no login.
StartsRight == Unset \notin Logins /\ \A sc \in Scenarios : Startable(sc, Ops)

LEMMA InitHolds ==
    ASSUME StartsRight, Init
    PROVE  IInv
<1>1. PICK sc \in Scenarios : Init!(sc)
  BY Zenon DEF Init
<1>2. Startable(sc, Ops)
  BY Zenon DEF StartsRight
<1>3. /\ root = sc.root /\ ids = sc.ids /\ desk = sc.desk /\ relays = sc.relays /\ left = sc.left
      /\ pending = [a \in Agents |-> None] /\ banned = {} /\ DOMAIN requests = {}
  BY <1>1
<1>4. RootInv
  BY Zenon, <1>2, <1>3 DEF Startable, RootInv
<1>5. IdsInv
  <2>1. SUFFICES ASSUME NEW i \in DOMAIN ids
                 PROVE  /\ RowOk(ids[i]) /\ (ids[i].type = "op" <=> i \in Ops)
                        /\ IsChain(ids[i].cert) /\ ids[i].cert[1].id = i
    BY Zenon DEF IdsInv
  <2>2. RowOk(ids[i]) /\ (ids[i].type = "op" <=> i \in Ops) /\ ids[i].cert[1].id = i
    BY Zenon, <1>2, <1>3 DEF Startable, RowOk
  <2>3. PICK c : c = ids[i].cert
    OBVIOUS
  <2>4. c \in Seq({c[k] : k \in 1 .. Len(c)}) /\ Len(c) > 0
    <3>1. \A j \in DOMAIN sc.ids : sc.ids[j].cert \in Seq({sc.ids[j].cert[k] : k \in 1 .. Len(sc.ids[j].cert)})
      BY Zenon, <1>2 DEF Startable
    <3>2. \A j \in DOMAIN sc.ids : Len(sc.ids[j].cert) > 0
      BY Zenon, <1>2 DEF Startable
    <3>3. i \in DOMAIN sc.ids /\ c = sc.ids[i].cert
      BY Zenon, <1>3, <2>1, <2>3
    <3> QED
      BY Zenon, <3>1, <3>2, <3>3
  <2>5. IsChain(c)
    BY Zenon, <2>4 DEF IsChain
  <2> QED
    BY Zenon, <2>2, <2>3, <2>5
<1>6. OldInv
  BY Zenon, <1>2, <1>3 DEF Startable, OldInv
<1>7. KeyInv
  BY Zenon, <1>2, <1>3 DEF Startable, KeyInv
<1>8. DeskInv
  BY Zenon, <1>2, <1>3 DEF Startable, DeskInv
<1>9. OfferInv
  <2>1. SUFFICES ASSUME NEW s \in DOMAIN desk, desk[s].live, desk[s].sent
                 PROVE  /\ ~ids[desk[s].op].revoked
                        /\ \E e \in DOMAIN ids : /\ ids[e].type = "ep" /\ ids[e].dev = desk[s].agent /\ ~ids[e].revoked
                                                /\ ids[e].gen = ids[desk[s].op].gen
    BY Zenon DEF OfferInv
  <2>2. ~ids[desk[s].op].revoked /\ desk[s].op \in DOMAIN ids
    BY Zenon, <1>2, <1>3, <2>1 DEF Startable
  <2>3. PICK e \in DOMAIN ids : ids[e].type = "ep" /\ ids[e].dev = desk[s].agent /\ ~ids[e].revoked
    BY Zenon, <1>2, <1>3, <2>1 DEF Startable
  <2>4. \A i \in DOMAIN ids : ids[i].revoked \/ ids[i].gen = root.gen
    BY Zenon, <1>2, <1>3 DEF Startable
  <2> QED
    BY Zenon, <2>2, <2>3, <2>4
<1>10. ShapeInv /\ FitsInv
  BY Zenon, <1>3 DEF ShapeInv, FitsInv
<1>11. PendingInv
  BY Zenon, <1>3 DEF PendingInv
<1>12. LeftInv
  BY Zenon, <1>2, <1>3 DEF Startable, LeftInv
<1>13. RelaysFollowSessions
  <2>1. relays \subseteq {s \in DOMAIN desk : desk[s].live}
    BY Zenon, <1>2, <1>3 DEF Startable
  <2> QED
    BY Zenon, <2>1 DEF RelaysFollowSessions, Live
<1> QED
  BY Zenon, <1>4, <1>5, <1>6, <1>7, <1>8, <1>9, <1>10, <1>11, <1>12, <1>13 DEF IInv, TablesInv

LEMMA StutterKeeps ==
    ASSUME IInv, UNCHANGED vars
    PROVE  IInv'
<1>1. UNCHANGED <<root, ids, pending, desk, relays, requests, left, banned, approvals, orphans>>
  BY Zenon DEF vars, tables, history
<1> QED
  <2>1. TablesInv' /\ ShapeInv' /\ PendingInv'
    BY Zenon, <1>1, TablesStay DEF IInv, ShapeInv, PendingInv
  <2>2. LeftInv'
    BY Zenon, <1>1 DEF IInv, LeftInv
  <2>3. FitsInv'
    BY Zenon, <1>1 DEF IInv, FitsInv
  <2>4. RelaysFollowSessions'
    BY Zenon, <1>1 DEF IInv, RelaysFollowSessions, Live
  <2> QED
    BY Zenon, <2>1, <2>2, <2>3, <2>4 DEF IInv

LEMMA IInvHolds ==
    ASSUME StartsRight
    PROVE  Spec => []IInv
<1>1. Init => IInv
  BY Zenon, InitHolds
<1>2. IInv /\ [Next]_vars => IInv'
  <2>1. SUFFICES ASSUME IInv, [Next]_vars
                 PROVE  IInv'
    OBVIOUS
  <2>2. ASSUME NEW n \in DOMAIN requests, Step(n), UNCHANGED <<job, left>>
        PROVE  IInv'
    BY Zenon, <2>1, <2>2, StepKeeps
  <2>3. CASE Arrives
    BY Zenon, <2>1, <2>3, ArrivalKeeps
  <2>4. CASE LoginEnds \/ IdentityExpires \/ RunOnce
    BY Zenon, <2>1, <2>4, EventKeeps DEF StartsRight
  <2>5. CASE UNCHANGED vars
    BY Zenon, <2>1, <2>5, StutterKeeps
  <2> QED
    BY Zenon, <2>1, <2>2, <2>3, <2>4, <2>5 DEF Next
<1> QED
  BY <1>1, <1>2, PTL DEF Spec

-----------------------------------------------------------------------------

\* What EnsureServerManagedDesktopTrust or RevokeDesktopIdentity put out of force stays out, however many
\* enrollments, approvals and refreshes are between two of their store calls: an identity in force is of
\* the root's generation, or of an approval the migration overtook, and no revoked key is in force.
THEOREM RevokedStaysOut ==
    ASSUME StartsRight
    PROVE  Spec => []RevokedTrustStaysOut
<1>1. IInv => RevokedTrustStaysOut
  BY Zenon DEF IInv, TablesInv, OldInv, KeyInv, RevokedTrustStaysOut, OldTrustIsRevoked,
     RevokedKeysStayOut
<1> QED
  BY <1>1, IInvHolds, PTL

\* A live session that sendDesktopOffer offered has an operator and an endpoint in force, and the relay
\* has sockets only of live sessions, of those revokeDesktopRelays is about to close, and of those the
\* migration terminated without telling it, for any number of sessions and of requests in flight.
THEOREM SessionsFollow ==
    ASSUME StartsRight
    PROVE  Spec => []SessionsFollowTrust
<1>1. IInv => SessionsFollowTrust
  <2>1. SUFFICES ASSUME IInv
                 PROVE  OfferedSessionsAreTrusted
    BY Zenon DEF IInv, SessionsFollowTrust
  <2> QED
    BY Zenon, <2>1 DEF IInv, TablesInv, OfferInv, OfferedSessionsAreTrusted, Live, Current
<1> QED
  BY <1>1, IInvHolds, PTL
=============================================================================
