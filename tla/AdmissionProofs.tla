-------------------------- MODULE AdmissionProofs ---------------------------
(***************************************************************************)
(* Theorems of Admission for every number of people, circles, providers,   *)
(* requests, members, codes and tokens, and every bound.                   *)
(***************************************************************************)
EXTENDS Admission, TLAPS, FiniteSetTheorems

-----------------------------------------------------------------------------
(* The inductive invariant.  A row, once made, keeps its circle and its kind;
   what a request holds of a code or of a member is about that row still.   *)

(* What a request at a door, or of a member, may rely on. *)
Knows(r) ==
    /\ r.at \in {"idle", "join", "session", "call"}
    /\ r.at \in {"join", "session"} =>
         /\ r.via \in Providers /\ r.circle \in Circles
         /\ r.via \in Verifiable => r.person \in People \ Blocked
    /\ r.at = "session" => r.via \in Verifiable
    /\ r.at = "join" => /\ r.code \in CodeIds /\ code[r.code].kind # "none"
                        /\ code[r.code].circle = r.circle
    /\ r.at = "call" => /\ r.actor \in MemberIds /\ member[r.actor].kind # "none"
                        /\ member[r.actor].circle = r.circle

RequestsKnow == \A q \in Requests : Knows(request[q])

RequestsAre == request = [q \in Requests |-> request[q]]

SetupKnows ==
    /\ setup.circle \in Circles \cup {None} /\ setup.accepts \subseteq Providers
    /\ setup.gate \in Guilds \cup {None}
    /\ setup.at \in {"accept", "grant"} => setup.circle \in Circles

MembersKnow ==
    \A m \in MemberIds :
      /\ member[m].kind = "none" => member[m] = Nobody
      /\ member[m].kind # "none" => member[m].circle \in Circles
      /\ member[m].kind = "human" => member[m].who \in Who
      /\ member[m].code # 0 => code[member[m].code].kind = "invite"

CodesKnow ==
    /\ \A k \in CodeIds : code[k].kind # "none" => code[k].circle \in Circles
    /\ \A k \in sealed : code[k].kind = "invite" /\ ~code[k].live

TokensKnow ==
    /\ IsFiniteSet(token)
    /\ \A t \in token : t = [n |-> t.n, member |-> t.member, key |-> t.key, hash |-> t.hash, live |-> t.live]

IInv ==
    /\ TypeOK /\ RequestsAre /\ RequestsKnow /\ SetupKnows /\ MembersKnow /\ CodesKnow /\ TokensKnow
    /\ UsesAreCounted /\ AlwaysAnOwner /\ OneMembershipEach /\ OneTokenPerKey

-----------------------------------------------------------------------------
(* What a step may do to each table.  A member is admitted, employed, given
   another role, struck off or reinstated; a code is redeemed, made or shut. *)
Row(m, role, live) ==
    [circle |-> member[m].circle, kind |-> member[m].kind, who |-> member[m].who,
     role |-> role, live |-> live, code |-> member[m].code, answers |-> member[m].answers]

Admit(q, m) ==
    /\ At(q, "join") /\ StillAdmits(q) /\ NewMember(m)
    /\ MembersWith(request[q].circle, Identity(q, m)) = {}
    /\ Redeem(request[q].code)
    /\ member' = [member EXCEPT ![m] = Joined(q, Identity(q, m))]

Employ(q, m, h, role) ==
    /\ At(q, "call") /\ NewMember(m)
    /\ member' = [member EXCEPT ![m] = Service(request[q].circle, role, h)]
    /\ UNCHANGED code

Move(q, m, role) ==
    /\ At(q, "call") /\ m \in InCircle(q) /\ MayMove(q, m, role)
    /\ member[m].role = Owner => AnotherOwner(m)
    /\ member' = [member EXCEPT ![m] = Row(m, role, member[m].live)]
    /\ UNCHANGED code /\ request'[q] = Idle

Strike(q, m) ==
    /\ At(q, "call") /\ m \in InCircle(q)
    /\ member[m].role = Owner => AnotherOwner(m)
    /\ member' = [member EXCEPT ![m] = Row(m, member[m].role, FALSE)]
    /\ code' = Shut(Closing(m)) /\ sealed' = sealed \cup Closing(m)

Restore(q, m) ==
    /\ At(q, "call") /\ m \in InCircle(q)
    /\ member' = [member EXCEPT ![m] = Row(m, member[m].role, TRUE)]
    /\ UNCHANGED code

MemberStep ==
    \/ UNCHANGED member
    \/ \E q \in Requests, m \in MemberIds : Admit(q, m)
    \/ \E q \in Requests, m, h \in MemberIds, role \in Roles \ {Owner} : Employ(q, m, h, role)
    \/ \E q \in Requests, m \in MemberIds, role \in Roles : Move(q, m, role)
    \/ \E q \in Requests, m \in MemberIds : Strike(q, m) \/ Restore(q, m)

NewRow == [circle : Circles, kind : {"invite", "grant"}, role : Roles, max : {1, 2}, uses : {0}, live : BOOLEAN]

Make(k, row) ==
    /\ NewCode(k)
    /\ row.kind = "invite" => row.role # Owner
    /\ code' = [code EXCEPT ![k] = row]
    /\ UNCHANGED member

CodeStep ==
    \/ UNCHANGED code
    \/ \E q \in Requests, m \in MemberIds : Admit(q, m)
    \/ \E k \in CodeIds, row \in NewRow : Make(k, row)
    \/ \E doors \in SUBSET CodeIds : code' = Shut(doors)

Issue(m, key, hash) ==
    /\ Cardinality(token) < MaxTokens
    /\ key # None => \A t \in token : t.member = m => t.key # key
    /\ token' = token \cup {Minted(m, key, hash)}

TokenStep ==
    \/ UNCHANGED token
    \/ \E m \in MemberIds, key \in Keys \cup {None} : \E hash : Issue(m, key, hash)
    \/ \E t \in token : token' = (token \ {t}) \cup {[t EXCEPT !.live = FALSE]}

RequestStep ==
    \/ UNCHANGED request
    \/ \E q \in Requests : request' = [request EXCEPT ![q] = Idle]
    \/ /\ \E q \in Requests : \E r : Knows(r) /\ request' = [request EXCEPT ![q] = r]
       /\ UNCHANGED <<member, code>>

-----------------------------------------------------------------------------
(* Changing one column of a membership row leaves the others. *)
LEMMA Columns ==
    ASSUME TypeOK, NEW m \in MemberIds
    PROVE  /\ \A role : [member EXCEPT ![m].role = role] = [member EXCEPT ![m] = Row(m, role, member[m].live)]
           /\ \A live : [member EXCEPT ![m].live = live] = [member EXCEPT ![m] = Row(m, member[m].role, live)]
<1>1. member[m] \in MemberRow
  BY DEF TypeOK
<1>2. \A role : [member[m] EXCEPT !.role = role] = Row(m, role, member[m].live)
  BY <1>1 DEF MemberRow, Row
<1>3. \A live : [member[m] EXCEPT !.live = live] = Row(m, member[m].role, live)
  BY <1>1 DEF MemberRow, Row
<1> QED
BY <1>2, <1>3, Zenon

(* The tables that each action leaves alone. *)
LEMMA Untouched ==
    /\ \A q : BeginJoin(q) \/ BeginSession(q) \/ Call(q) \/ Abandon(q) \/ SetupDescribe \/ SetupFail =>
         UNCHANGED <<circle, member, code, token, granted, sealed, enabled>>
    /\ \A q, key : JoinNew(q, key)      => UNCHANGED <<circle, sealed, enabled, setup>>
    /\ \A q, key : JoinAgain(q, key)    => UNCHANGED <<circle, member, code, sealed, enabled, setup>>
    /\ \A q, key : Authenticate(q, key) => UNCHANGED <<circle, member, code, granted, sealed, enabled, setup>>
    /\ \A q : MintInvite(q) \/ RevokeInvite(q) => UNCHANGED <<circle, member, token, granted, sealed, enabled, setup>>
    /\ \A q : ChangeRole(q) \/ Reinstate(q) => UNCHANGED <<circle, code, token, granted, sealed, enabled, setup>>
    /\ \A q : Revoke(q)        => UNCHANGED <<circle, token, granted, enabled, setup>>
    /\ \A q : CreateService(q) => UNCHANGED <<circle, code, granted, sealed, enabled, setup>>
    /\ \A q : RevokeToken(q)   => UNCHANGED <<circle, member, code, granted, sealed, enabled, setup>>
    /\ \A q : SetProviders(q) \/ UpdateCircle(q) \/ DeleteCircle(q) =>
         UNCHANGED <<member, code, token, granted, sealed, enabled, setup>>
    /\ \A c : CreateCircle(c)   => UNCHANGED <<member, token, granted, sealed, enabled, request, setup>>
    /\ \A who : Decide(who)       => UNCHANGED <<circle, member, code, token, sealed, enabled, request, setup>>
    /\ \A v : SwitchProvider(v) => UNCHANGED <<circle, member, code, token, granted, sealed, request, setup>>
    /\ SetupDescribe \/ SetupFail => UNCHANGED request
    /\ \A c, v : SetupCircle(c) \/ SetupAccept(v) => UNCHANGED <<member, code, token, granted, sealed, enabled, request>>
    /\ SetupGrant => UNCHANGED <<circle, member, token, granted, sealed, enabled, request>>
    /\ \A p, g : MoveGuild(p, g) => UNCHANGED <<circle, member, code, token, granted, sealed, enabled, request, setup>>
    /\ UNCHANGED vars  => UNCHANGED <<circle, member, code, token, granted, sealed, enabled, request, setup>>
<1>1. \A q : BeginJoin(q) \/ BeginSession(q) \/ Call(q) \/ Abandon(q) \/ SetupDescribe \/ SetupFail =>
         UNCHANGED <<circle, member, code, token, granted, sealed, enabled>>
  BY DEF BeginJoin, BeginSession, Call, Abandon, SetupDescribe, SetupFail, rows, world
<1>2. /\ \A q, key : JoinNew(q, key)      => UNCHANGED <<circle, sealed, enabled, setup>>
      /\ \A q, key : JoinAgain(q, key)    => UNCHANGED <<circle, member, code, sealed, enabled, setup>>
      /\ \A q, key : Authenticate(q, key) => UNCHANGED <<circle, member, code, granted, sealed, enabled, setup>>
  BY DEF JoinNew, JoinAgain, Authenticate, world
<1>3. \A q : MintInvite(q) \/ RevokeInvite(q) => UNCHANGED <<circle, member, token, granted, sealed, enabled, setup>>
  BY DEF MintInvite, RevokeInvite, world
<1>4. /\ \A q : ChangeRole(q) \/ Reinstate(q) => UNCHANGED <<circle, code, token, granted, sealed, enabled, setup>>
      /\ \A q : Revoke(q)        => UNCHANGED <<circle, token, granted, enabled, setup>>
      /\ \A q : CreateService(q) => UNCHANGED <<circle, code, granted, sealed, enabled, setup>>
      /\ \A q : RevokeToken(q)   => UNCHANGED <<circle, member, code, granted, sealed, enabled, setup>>
  BY DEF ChangeRole, Reinstate, Revoke, CreateService, RevokeToken, world
<1>5. \A q : SetProviders(q) \/ UpdateCircle(q) \/ DeleteCircle(q) =>
         UNCHANGED <<member, code, token, granted, sealed, enabled, setup>>
  BY DEF SetProviders, UpdateCircle, DeleteCircle, world
<1>6. /\ \A c : CreateCircle(c)   => UNCHANGED <<member, token, granted, sealed, enabled, request, setup>>
      /\ \A who : Decide(who)       => UNCHANGED <<circle, member, code, token, sealed, enabled, request, setup>>
      /\ \A v : SwitchProvider(v) => UNCHANGED <<circle, member, code, token, granted, sealed, request, setup>>
      /\ \A p, g : MoveGuild(p, g) => UNCHANGED <<circle, member, code, token, granted, sealed, enabled, request, setup>>
      /\ UNCHANGED vars  => UNCHANGED <<circle, member, code, token, granted, sealed, enabled, request, setup>>
  BY DEF CreateCircle, Decide, SwitchProvider, MoveGuild, vars, rows, world
<1>7. /\ SetupDescribe \/ SetupFail => UNCHANGED request
      /\ \A c, v : SetupCircle(c) \/ SetupAccept(v) => UNCHANGED <<member, code, token, granted, sealed, enabled, request>>
      /\ SetupGrant => UNCHANGED <<circle, member, token, granted, sealed, enabled, request>>
  BY DEF SetupDescribe, SetupFail, SetupCircle, SetupAccept, SetupGrant, rows, world
<1> QED
  BY <1>1, <1>2, <1>3, <1>4, <1>5, <1>6, <1>7

(* What redeeming a code, and shutting some, does to each. *)
LEMMA RedeemedRow ==
    ASSUME TypeOK, NEW q \in Requests, NEW m \in MemberIds, Admit(q, m), NEW k \in CodeIds
    PROVE  code'[k] = [circle |-> code[k].circle, kind |-> code[k].kind, role |-> code[k].role,
                       max |-> code[k].max, live |-> code[k].live,
                       uses |-> IF k = request[q].code THEN code[k].uses + 1 ELSE code[k].uses]
<1>1. PICK row \in CodeRow : row = code[k]
  BY DEF TypeOK
<1>2. code' = [code EXCEPT ![request[q].code].uses = @ + 1] /\ code \in [CodeIds -> CodeRow]
  BY DEF Admit, Redeem, TypeOK
<1>3. CASE k = request[q].code
  <2>1. code'[k] = [code[k] EXCEPT !.uses = @ + 1]
    BY <1>2, <1>3
  <2>2. [row EXCEPT !.uses = @ + 1] = [circle |-> row.circle, kind |-> row.kind, role |-> row.role,
                                       max |-> row.max, live |-> row.live, uses |-> row.uses + 1]
    BY DEF CodeRow
  <2> QED
    BY <1>1, <1>3, <2>1, <2>2
<1>4. CASE k # request[q].code
  BY <1>1, <1>2, <1>4 DEF CodeRow
<1> QED
  BY <1>3, <1>4

(* The same of a row that is shut, and of one that is not. *)
LEMMA ShutRow ==
    ASSUME TypeOK, NEW doors, code' = Shut(doors), NEW k \in CodeIds
    PROVE  /\ k \notin doors => code'[k] = code[k]
           /\ k \in doors => code'[k] = [circle |-> code[k].circle, kind |-> code[k].kind, role |-> code[k].role,
                                        max |-> code[k].max, uses |-> code[k].uses, live |-> FALSE]
<1>1. PICK row \in CodeRow : row = code[k]
  BY DEF TypeOK
<1>2. \A x : [row EXCEPT !.live = x] = [circle |-> row.circle, kind |-> row.kind, role |-> row.role,
                                       max |-> row.max, uses |-> row.uses, live |-> x]
  BY DEF CodeRow
<1>3. code'[k] = IF k \in doors THEN [row EXCEPT !.live = FALSE] ELSE row
  BY <1>1 DEF Shut
<1> QED
  BY <1>1, <1>2, <1>3

(* Only a join, an officer's and an owner's calls touch a membership. *)
LEMMA MembersMove ==
    ASSUME IInv, [Next]_vars
    PROVE  MemberStep
<1>1. ASSUME NEW q \in Requests, NEW key \in Keys, JoinNew(q, key)
      PROVE  MemberStep
  BY <1>1 DEF JoinNew, MemberStep, Admit
<1>2. ASSUME NEW q \in Requests, CreateService(q)
      PROVE  MemberStep
  BY <1>2, AdmissionAssumption DEF CreateService, MemberStep, Employ, MayInPerson, May, InCircle, Roles, Owner, Observer
<1>3. ASSUME NEW q \in Requests, ChangeRole(q)
      PROVE  MemberStep
  <2>1. PICK m \in InCircle(q), role \in Named :
          /\ MayMove(q, m, role)
          /\ member[m].role = Owner => AnotherOwner(m)
          /\ member' = [member EXCEPT ![m].role = role]
    BY <1>3 DEF ChangeRole
  <2>2. m \in MemberIds /\ role \in Roles /\ At(q, "call") /\ request'[q] = Idle /\ UNCHANGED code
    BY <1>3, AdmissionAssumption DEF ChangeRole, InCircle, MayInPerson, May, Roles, Owner, Observer, Done, IInv, RequestsAre
  <2>3. member' = [member EXCEPT ![m] = Row(m, role, member[m].live)]
    BY <2>1, <2>2, Columns, Zenon DEF IInv
  <2>4. Move(q, m, role)
    BY <2>1, <2>2, <2>3 DEF Move
  <2> QED
    BY <2>2, <2>4 DEF MemberStep
<1>4. ASSUME NEW q \in Requests, Revoke(q)
      PROVE  MemberStep
  BY <1>4, Columns DEF Revoke, MemberStep, Strike, MayInPerson, May, InCircle, IInv
<1>5. ASSUME NEW q \in Requests, Reinstate(q)
      PROVE  MemberStep
  BY <1>5, Columns DEF Reinstate, MemberStep, Restore, MayInPerson, May, InCircle, IInv
<1>6. CASE UNCHANGED member
  BY <1>6 DEF MemberStep
<1>7. ASSUME NEW q \in Requests, Doors(q) \/ Calls(q) \/ Abandon(q)
      PROVE  MemberStep
  BY <1>1, <1>2, <1>3, <1>4, <1>5, <1>6, <1>7, Untouched DEF Doors, Calls, InviteCalls, MemberCalls, CircleCalls
<1>8. ASSUME Operator PROVE MemberStep
  BY <1>6, <1>8, Untouched DEF Operator, Wizard
<1> QED
  BY <1>6, <1>7, <1>8, Untouched DEF Next

(* Only a redemption, an officer's calls, a weak revocation and the owner
   grants of the operator touch a code.                                    *)
LEMMA CodesMove ==
    ASSUME IInv, [Next]_vars
    PROVE  CodeStep
<1>1. ASSUME NEW q \in Requests, NEW key \in Keys, JoinNew(q, key)
      PROVE  CodeStep
  BY <1>1 DEF JoinNew, CodeStep, Admit
<1>2. ASSUME NEW q \in Requests, MintInvite(q)
      PROVE  CodeStep
  <2>1. PICK k \in CodeIds, role \in Named \ {Owner}, max \in 1..2 :
          NewCode(k) /\ code' = [code EXCEPT ![k] = Invite(q, role, max)]
    BY <1>2 DEF MintInvite
  <2>2. Invite(q, role, max) \in NewRow /\ Invite(q, role, max).role # Owner
    <3>1. request[q].circle \in Circles
      BY <1>2 DEF MintInvite, May, At, IInv, RequestsKnow, Knows, MembersKnow
    <3>2. role \in Roles /\ Member \in Roles /\ Member # Owner
      BY AdmissionAssumption DEF Roles, Owner, Observer, Member
    <3> QED
      BY <3>1, <3>2 DEF Invite, NewRow
  <2>3. Make(k, Invite(q, role, max))
    BY <1>2, <2>1, <2>2, Untouched DEF Make
  <2> QED
    BY <2>2, <2>3 DEF CodeStep
<1>3. ASSUME NEW q \in Requests, RevokeInvite(q)
      PROVE  CodeStep
  <2>1. PICK k \in CodeIds : code' = [code EXCEPT ![k].live = FALSE]
    BY <1>3 DEF RevokeInvite
  <2>2. code' = Shut({k})
    BY <2>1 DEF Shut, IInv, TypeOK
  <2> QED
    BY <2>2 DEF CodeStep
<1>4. ASSUME NEW q \in Requests, Revoke(q)
      PROVE  CodeStep
  BY <1>4 DEF Revoke, CodeStep, Closing, Outstanding
<1>5. ASSUME NEW c \in Circles, MintOwnerGrant(c), UNCHANGED member
      PROVE  CodeStep
  <2>1. OwnerGrant(c) \in NewRow /\ OwnerGrant(c).kind = "grant"
    BY DEF OwnerGrant, NewRow, Roles, Owner, Observer
  <2>2. PICK k \in CodeIds : Make(k, OwnerGrant(c))
    BY <1>5, <2>1 DEF MintOwnerGrant, Make
  <2> QED
    BY <2>1, <2>2 DEF CodeStep
<1>6. CASE UNCHANGED code
  BY <1>6 DEF CodeStep
<1>7. ASSUME NEW c \in Circles, CreateCircle(c)
      PROVE  CodeStep
  BY <1>5, <1>6, <1>7, Untouched DEF CreateCircle
<1>8. ASSUME SetupGrant
      PROVE  CodeStep
  BY <1>5, <1>8, Untouched DEF SetupGrant, IInv, SetupKnows
<1>9. ASSUME NEW q \in Requests, Doors(q) \/ Calls(q) \/ Abandon(q)
      PROVE  CodeStep
  BY <1>1, <1>2, <1>3, <1>4, <1>6, <1>9, Untouched DEF Doors, Calls, InviteCalls, MemberCalls, CircleCalls
<1>10. ASSUME Operator PROVE CodeStep
  BY <1>6, <1>7, <1>8, <1>10, Untouched DEF Operator, Wizard
<1> QED
  BY <1>6, <1>9, <1>10, Untouched DEF Next

(* Only the doors, a service member's creation and a revocation touch a token. *)
LEMMA TokensMove ==
    ASSUME IInv, [Next]_vars
    PROVE  TokenStep
<1>1. ASSUME NEW q \in Requests, NEW m \in MemberIds, NEW key \in Keys, Finish(q, m, key)
      PROVE  TokenStep
  <2>1. CASE UNCHANGED token
    BY <2>1 DEF TokenStep
  <2>2. CASE ~UNCHANGED token
    <3>1. Issue(m, key, RequestHash(q))
      BY <1>1, <2>2 DEF Finish, Issue
    <3> QED
      BY <3>1 DEF TokenStep
  <2> QED
    BY <2>1, <2>2
<1>2. ASSUME NEW q \in Requests, NEW key \in Keys, JoinNew(q, key) \/ JoinAgain(q, key) \/ Authenticate(q, key)
      PROVE  TokenStep
  BY <1>1, <1>2 DEF JoinNew, JoinAgain, Authenticate, MembersWith
<1>3. ASSUME NEW q \in Requests, CreateService(q)
      PROVE  TokenStep
  <2>1. PICK m \in MemberIds : token' = token \cup {Minted(m, None, <<>>)}
    BY <1>3 DEF CreateService
  <2>2. Issue(m, None, <<>>)
    BY <1>3, <2>1 DEF CreateService, Issue
  <2> QED
    BY <2>2 DEF TokenStep
<1>4. ASSUME NEW q \in Requests, RevokeToken(q)
      PROVE  TokenStep
  BY <1>4 DEF RevokeToken, TokenStep
<1>5. CASE UNCHANGED token
  BY <1>5 DEF TokenStep
<1>6. ASSUME NEW q \in Requests, Doors(q) \/ Calls(q) \/ Abandon(q)
      PROVE  TokenStep
  BY <1>2, <1>3, <1>4, <1>5, <1>6, Untouched DEF Doors, Calls, InviteCalls, MemberCalls, CircleCalls
<1>7. ASSUME Operator PROVE TokenStep
  BY <1>5, <1>7, Untouched DEF Operator, Wizard
<1> QED
  BY <1>5, <1>6, <1>7, Untouched DEF Next

(* A request begins with what it has just read, and ends idle. *)
LEMMA RequestsMove ==
    ASSUME IInv, [Next]_vars
    PROVE  RequestStep
<1>1. ASSUME NEW q \in Requests, NEW r, Knows(r), request' = [request EXCEPT ![q] = r], UNCHANGED <<member, code>>
      PROVE  RequestStep
  BY <1>1 DEF RequestStep
<1>2. ASSUME NEW q \in Requests, BeginJoin(q)
      PROVE  RequestStep
  <2>1. PICK k \in CodeIds, p \in People, v \in Providers :
          /\ Resolves(k) /\ Arriving(p, v) \notin Blocked
          /\ request' = [request EXCEPT ![q] =
               Arrived("join", Arriving(p, v), v, code[k].circle, k, Facts(p, GateOf(code[k].circle, v)))]
    BY <1>2 DEF BeginJoin
  <2>2. Knows(Arrived("join", Arriving(p, v), v, code[k].circle, k, Facts(p, GateOf(code[k].circle, v))))
    BY <2>1 DEF Knows, Arrived, Arriving, Resolves, IInv, CodesKnow
  <2> QED
    BY <1>1, <1>2, <2>1, <2>2, Untouched
<1>3. ASSUME NEW q \in Requests, BeginSession(q)
      PROVE  RequestStep
  <2>1. PICK p \in People \ Blocked, v \in Verifiable, c \in Circles :
          request' = [request EXCEPT ![q] = Arrived("session", p, v, c, 0, Facts(p, GateOf(c, v)))]
    BY <1>3 DEF BeginSession
  <2>2. Knows(Arrived("session", p, v, c, 0, Facts(p, GateOf(c, v))))
    BY AdmissionAssumption DEF Knows, Arrived
  <2> QED
    BY <1>1, <1>3, <2>1, <2>2, Untouched
<1>4. ASSUME NEW q \in Requests, Call(q)
      PROVE  RequestStep
  <2>1. PICK m \in MemberIds, way \in {"session", "token"} :
          Speaks(m) /\ request' = [request EXCEPT ![q] = Calling(m, way)]
    BY <1>4 DEF Call
  <2>2. member[m].kind # "none"
    BY <2>1 DEF Speaks, Nobody, IInv, MembersKnow
  <2>3. Knows(Calling(m, way))
    BY <2>2 DEF Knows, Calling
  <2> QED
    BY <1>1, <1>4, <2>1, <2>3, Untouched
<1>5. ASSUME NEW q \in Requests, Done(q)
      PROVE  RequestStep
  BY <1>5 DEF Done, RequestStep
<1>6. ASSUME NEW q \in Requests, NEW key \in Keys, JoinNew(q, key) \/ JoinAgain(q, key) \/ Authenticate(q, key)
      PROVE  Done(q)
  BY <1>6 DEF JoinNew, JoinAgain, Authenticate
<1>7. ASSUME NEW q \in Requests, InviteCalls(q) \/ MemberCalls(q) \/ CircleCalls(q) \/ RevokeToken(q) \/ Abandon(q)
      PROVE  Done(q)
  BY <1>7 DEF InviteCalls, MemberCalls, CircleCalls, MintInvite, RevokeInvite, ChangeRole, Revoke, Reinstate,
              CreateService, SetProviders, UpdateCircle, DeleteCircle, RevokeToken, Abandon, Done
<1>8. CASE UNCHANGED request
  BY <1>8 DEF RequestStep
<1>9. ASSUME NEW q \in Requests, Doors(q) \/ Calls(q) \/ Abandon(q)
      PROVE  RequestStep
  BY <1>2, <1>3, <1>4, <1>5, <1>6, <1>7, <1>9 DEF Doors, Calls
<1>10. ASSUME Operator PROVE RequestStep
  BY <1>8, <1>10, Untouched DEF Operator, Wizard
<1> QED
  BY <1>8, <1>9, <1>10, Untouched DEF Next

(* A circle's row and a setup run keep to the schema. *)
LEMMA CirclesKeep ==
    ASSUME IInv, [Next]_vars
    PROVE  /\ circle' \in [Circles -> [stage : {"none", "live", "gone"}, accepts : SUBSET Providers,
                                       gate : Guilds \cup {None}, sweeps : BOOLEAN]]
           /\ SetupKnows'
<1> DEFINE CircleRow == [stage : {"none", "live", "gone"}, accepts : SUBSET Providers,
                         gate : Guilds \cup {None}, sweeps : BOOLEAN]
           Goal == circle' \in [Circles -> CircleRow] /\ SetupKnows'
<1>t. circle \in [Circles -> CircleRow] /\ enabled \in SUBSET Providers
  BY DEF IInv, TypeOK
<1>n. NewCircle \in CircleRow
  BY <1>t DEF NewCircle
<1>1. ASSUME NEW c \in Circles, NEW accepts \in SUBSET Providers, NEW gate \in Guilds \cup {None},
             ReplaceProviders(c, accepts, gate)
      PROVE  circle' \in [Circles -> CircleRow]
  <2>1. PICK row \in CircleRow : row = circle[c]
    BY <1>t
  <2>2. [row EXCEPT !.accepts = accepts] \in CircleRow
    BY <2>1
  <2>3. [[row EXCEPT !.accepts = accepts] EXCEPT !.gate = gate] \in CircleRow
    BY <2>2
  <2> QED
    BY <1>1, <1>t, <2>1, <2>3 DEF ReplaceProviders
<1>2. ASSUME NEW c \in Circles, NEW sweeps \in BOOLEAN
      PROVE  [circle EXCEPT ![c].sweeps = sweeps] \in [Circles -> CircleRow]
  <2>1. PICK row \in CircleRow : row = circle[c]
    BY <1>t
  <2>2. [row EXCEPT !.sweeps = sweeps] \in CircleRow
    BY <2>1
  <2> QED
    BY <1>t, <2>1, <2>2
<1>3. ASSUME NEW c \in Circles
      PROVE  [circle EXCEPT ![c].stage = "gone"] \in [Circles -> CircleRow]
  <2>1. PICK row \in CircleRow : row = circle[c]
    BY <1>t
  <2>2. [row EXCEPT !.stage = "gone"] \in CircleRow
    BY <2>1
  <2> QED
    BY <1>t, <2>1, <2>2
<1>4. ASSUME UNCHANGED <<circle, setup>> PROVE Goal
  BY <1>4, <1>t DEF IInv, SetupKnows
<1>5. ASSUME circle' \in [Circles -> CircleRow], UNCHANGED setup PROVE Goal
  BY <1>5 DEF IInv, SetupKnows
<1>6. ASSUME setup' = NoSetup, UNCHANGED circle PROVE Goal
  BY <1>6, <1>t DEF NoSetup, Running, SetupKnows
<1>7. ASSUME NEW q \in Requests, CircleCalls(q) PROVE Goal
  <2>1. request[q].circle \in Circles
    BY <1>7 DEF CircleCalls, SetProviders, UpdateCircle, DeleteCircle, MayInPerson, May, At,
                IInv, RequestsKnow, Knows, MembersKnow
  <2>2. circle' \in [Circles -> CircleRow]
    <3>1. CASE SetProviders(q)
      BY <1>1, <2>1, <3>1 DEF SetProviders
    <3>2. CASE UpdateCircle(q)
      <4>1. PICK sweeps \in BOOLEAN : circle' = [circle EXCEPT ![request[q].circle].sweeps = sweeps]
        BY <3>2 DEF UpdateCircle
      <4> QED
        BY <1>2, <2>1, <4>1, Zenon
    <3>3. CASE DeleteCircle(q)
      BY <1>3, <2>1, <3>3, Zenon DEF DeleteCircle
    <3> QED
      BY <1>7, <3>1, <3>2, <3>3 DEF CircleCalls
  <2> QED
    BY <1>5, <1>7, <2>2, Untouched DEF CircleCalls
<1>8. ASSUME NEW c \in Circles, CreateCircle(c) PROVE Goal
  BY <1>5, <1>8, <1>n, <1>t, Untouched DEF CreateCircle
<1>9. ASSUME SetupDescribe PROVE Goal
  BY <1>9, <1>t, Untouched DEF SetupDescribe, Running, SetupKnows
<1>10. ASSUME NEW c \in Circles, SetupCircle(c) PROVE Goal
  <2>1. circle' \in [Circles -> CircleRow]
    BY <1>10, <1>n, <1>t DEF SetupCircle
  <2>2. circle'[c] \in CircleRow
    BY <2>1
  <2> QED
    BY <1>10, <2>1, <2>2 DEF SetupCircle, Running, SetupKnows
<1>11. ASSUME NEW v \in Providers, SetupAccept(v) PROVE Goal
  <2>1. /\ setup.circle \in Circles /\ setup.accepts \cup {v} \in SUBSET Providers
        /\ setup.gate \in Guilds \cup {None}
    BY <1>11 DEF SetupAccept, IInv, SetupKnows
  <2>2. circle' \in [Circles -> CircleRow]
    BY <1>1, <1>11, <1>t, <2>1 DEF SetupAccept
  <2> QED
    BY <1>11, <2>1, <2>2 DEF SetupAccept, Running, SetupKnows
<1>12. ASSUME NEW q \in Requests, Doors(q) \/ Calls(q) \/ Abandon(q) PROVE Goal
  <2>1. CASE BeginJoin(q) \/ BeginSession(q) \/ Call(q) \/ Abandon(q)
    BY <1>4, <2>1 DEF BeginJoin, BeginSession, Call, Abandon, rows
  <2> QED
    BY <1>4, <1>7, <1>12, <2>1, Untouched DEF Doors, Calls, InviteCalls, MemberCalls
<1>13. ASSUME Operator PROVE Goal
  <2>1. CASE SetupFail
    BY <1>6, <2>1, Untouched DEF SetupFail
  <2>2. CASE SetupGrant
    BY <1>6, <2>2, Untouched DEF SetupGrant
  <2> QED
    BY <1>4, <1>8, <1>9, <1>10, <1>11, <1>13, <2>1, <2>2, Untouched DEF Operator, Wizard
<1> QED
  BY <1>4, <1>12, <1>13, Untouched DEF Next

-----------------------------------------------------------------------------
(* What a row of each table keeps. *)
LEMMA RowsStand ==
    ASSUME IInv, [Next]_vars
    PROVE  /\ \A m \in MemberIds : member[m].kind # "none" =>
                /\ member'[m].kind = member[m].kind /\ member'[m].circle = member[m].circle
                /\ member'[m].who = member[m].who /\ member'[m].code = member[m].code
           /\ \A k \in CodeIds : code[k].kind # "none" =>
                /\ code'[k].kind = code[k].kind /\ code'[k].circle = code[k].circle
                /\ code'[k].live => code[k].live
<1>1. MemberStep /\ CodeStep
  BY MembersMove, CodesMove
<1>2. member \in [MemberIds -> MemberRow] /\ code \in [CodeIds -> CodeRow]
  BY DEF IInv, TypeOK
<1>3. \A m, n \in MemberIds : NewMember(n) /\ member[m].kind # "none" => m # n
  BY DEF NewMember
<1>4. \A k, l \in CodeIds : NewCode(l) /\ code[k].kind # "none" => k # l
  BY DEF NewCode
<1>5. ASSUME NEW m \in MemberIds, member[m].kind # "none"
      PROVE  /\ member'[m].kind = member[m].kind /\ member'[m].circle = member[m].circle
             /\ member'[m].who = member[m].who /\ member'[m].code = member[m].code
  BY <1>1, <1>2, <1>3, <1>5 DEF MemberStep, Admit, Employ, Move, Strike, Restore, Row
<1>6. ASSUME NEW k \in CodeIds, code[k].kind # "none"
      PROVE  /\ code'[k].kind = code[k].kind /\ code'[k].circle = code[k].circle
             /\ code'[k].live => code[k].live
  <2>1. ASSUME NEW q \in Requests, NEW m \in MemberIds, Admit(q, m)
        PROVE  /\ code'[k].kind = code[k].kind /\ code'[k].circle = code[k].circle
               /\ code'[k].live => code[k].live
    <3>1. code'[k] = [circle |-> code[k].circle, kind |-> code[k].kind, role |-> code[k].role,
                      max |-> code[k].max, live |-> code[k].live,
                      uses |-> IF k = request[q].code THEN code[k].uses + 1 ELSE code[k].uses]
      BY <2>1, RedeemedRow DEF IInv
    <3> QED
      BY <3>1
  <2>2. ASSUME NEW doors \in SUBSET CodeIds, code' = Shut(doors)
        PROVE  /\ code'[k].kind = code[k].kind /\ code'[k].circle = code[k].circle
               /\ code'[k].live => code[k].live
    <3>1. CASE k \notin doors
      BY <2>2, <3>1, ShutRow DEF IInv
    <3>2. CASE k \in doors
      <4>1. code'[k] = [circle |-> code[k].circle, kind |-> code[k].kind, role |-> code[k].role,
                        max |-> code[k].max, uses |-> code[k].uses, live |-> FALSE]
        BY <2>2, <3>2, ShutRow DEF IInv
      <4> QED
        BY <4>1
    <3> QED
      BY <3>1, <3>2
  <2> QED
    BY <1>1, <1>2, <1>4, <1>6, <2>1, <2>2 DEF CodeStep, Make
<1> QED
  BY <1>5, <1>6

(* Memberships keep to the schema, and point at invites that exist. *)
LEMMA MembersKeep ==
    ASSUME IInv, [Next]_vars
    PROVE  member' \in [MemberIds -> MemberRow] /\ MembersKnow'
<1> DEFINE Good(row) == /\ row \in MemberRow /\ row.kind # "none" /\ row.circle \in Circles
                        /\ row.kind = "human" => row.who \in Who
                        /\ row.code # 0 => code'[row.code].kind = "invite"
<1>t. member \in [MemberIds -> MemberRow] /\ code \in [CodeIds -> CodeRow]
  BY DEF IInv, TypeOK
<1>1. ASSUME NEW m \in MemberIds, NEW row, Good(row), member' = [member EXCEPT ![m] = row]
      PROVE  member' \in [MemberIds -> MemberRow] /\ MembersKnow'
  <2>1. member' \in [MemberIds -> MemberRow]
    BY <1>1, <1>t
  <2>2. ASSUME NEW n \in MemberIds, n # m
        PROVE  member'[n] = member[n] /\ (member[n].code # 0 => code'[member[n].code].kind = "invite")
    <3>1. member'[n] = member[n] /\ member[n].code \in 0..MaxCodes
      BY <1>1, <1>t, <2>2 DEF MemberRow
    <3>2. member[n].code # 0 => member[n].code \in CodeIds /\ code[member[n].code].kind = "invite"
      BY <3>1, AdmissionAssumption DEF IInv, MembersKnow, CodeIds
    <3> QED
      BY <3>1, <3>2, RowsStand
  <2>3. member'[m] = row
    BY <1>1, <1>t
  <2> QED
    BY <1>1, <2>1, <2>2, <2>3 DEF IInv, MembersKnow, Nobody
<1>2. CASE UNCHANGED member
  <2>1. ASSUME NEW n \in MemberIds, member[n].code # 0
        PROVE  code'[member[n].code].kind = "invite"
    <3>1. member[n].code \in CodeIds /\ code[member[n].code].kind = "invite"
      BY <1>t, <2>1, AdmissionAssumption DEF IInv, MembersKnow, CodeIds, MemberRow
    <3> QED
      BY <3>1, RowsStand
  <2> QED
    BY <1>2, <1>t, <2>1 DEF IInv, MembersKnow, Nobody
<1>3. ASSUME NEW q \in Requests, NEW m \in MemberIds, Admit(q, m)
      PROVE  Good(Joined(q, Identity(q, m)))
  <2>1. /\ request[q].code \in CodeIds /\ code[request[q].code].kind # "none"
        /\ request[q].circle \in Circles /\ Identity(q, m) \in Who
    BY <1>3 DEF IInv, RequestsKnow, Knows, At, Admit, Identity, Who
  <2>2. code[request[q].code].role \in Roles /\ request[q].code \in 0..MaxCodes
    BY <1>t, <2>1, AdmissionAssumption DEF CodeRow, CodeIds
  <2>3. code'[request[q].code].kind = code[request[q].code].kind
    BY <2>1, RowsStand
  <2> QED
    BY <2>1, <2>2, <2>3, AdmissionAssumption DEF Joined, MemberRow, Places
<1>4. ASSUME NEW q \in Requests, NEW m \in MemberIds, NEW h \in MemberIds, NEW role \in Roles, Employ(q, m, h, role)
      PROVE  Good(Service(request[q].circle, role, h))
  <2>1. request[q].circle \in Circles
    BY <1>4 DEF IInv, RequestsKnow, Knows, At, Employ, MembersKnow
  <2> QED
    BY <2>1, AdmissionAssumption DEF Service, MemberRow, Places, MemberIds
<1>5. ASSUME NEW q \in Requests, NEW m \in MemberIds, m \in InCircle(q), NEW role \in Roles, NEW live \in BOOLEAN
      PROVE  Good(Row(m, role, live))
  <2>1. member[m].kind # "none" /\ member[m] \in MemberRow
    BY <1>5, <1>t DEF InCircle
  <2>2. member[m].code # 0 => code'[member[m].code].kind = "invite"
    <3>1. member[m].code # 0 => member[m].code \in CodeIds /\ code[member[m].code].kind = "invite"
      BY <2>1, AdmissionAssumption DEF IInv, MembersKnow, CodeIds, MemberRow
    <3> QED
      BY <3>1, RowsStand
  <2> QED
    BY <2>1, <2>2 DEF Row, MemberRow, IInv, MembersKnow
<1>6. \A m \in MemberIds : member[m].role \in Roles /\ member[m].live \in BOOLEAN
  BY <1>t DEF MemberRow
<1>7. MemberStep
  BY MembersMove
<1>8. ASSUME NEW q \in Requests, NEW m \in MemberIds, NEW role \in Roles, Move(q, m, role)
      PROVE  member' \in [MemberIds -> MemberRow] /\ MembersKnow'
  BY <1>1, <1>5, <1>6, <1>8 DEF Move
<1>9. ASSUME NEW q \in Requests, NEW m \in MemberIds, Strike(q, m) \/ Restore(q, m)
      PROVE  member' \in [MemberIds -> MemberRow] /\ MembersKnow'
  BY <1>1, <1>5, <1>6, <1>9 DEF Strike, Restore
<1>10. ASSUME NEW q \in Requests, NEW m \in MemberIds, Admit(q, m)
      PROVE  member' \in [MemberIds -> MemberRow] /\ MembersKnow'
  BY <1>1, <1>3, <1>10 DEF Admit
<1>11. ASSUME NEW q \in Requests, NEW m \in MemberIds, NEW h \in MemberIds, NEW role \in Roles, Employ(q, m, h, role)
      PROVE  member' \in [MemberIds -> MemberRow] /\ MembersKnow'
  BY <1>1, <1>4, <1>11 DEF Employ
<1> HIDE DEF Good
<1> QED
  BY <1>2, <1>7, <1>8, <1>9, <1>10, <1>11 DEF MemberStep

(* Codes keep to the schema; an invite that was sealed stays shut. *)
LEMMA CodesKeep ==
    ASSUME IInv, [Next]_vars
    PROVE  /\ code' \in [CodeIds -> CodeRow] /\ CodesKnow' /\ sealed' \subseteq CodeIds
           /\ \A k \in CodeIds : code'[k].kind = "invite" => code'[k].role # Owner
<1> DEFINE Good(row) == /\ row \in CodeRow
                        /\ row.kind # "none" => row.circle \in Circles
                        /\ row.kind = "invite" => row.role # Owner
<1>t. /\ code \in [CodeIds -> CodeRow] /\ sealed \subseteq CodeIds
      /\ \A k \in CodeIds : Good(code[k])
  BY DEF IInv, TypeOK, CodesKnow
<1>1. ASSUME NEW k \in CodeIds PROVE Good(code'[k])
  <2>1. ASSUME NEW q \in Requests, NEW m \in MemberIds, Admit(q, m)
        PROVE  Good(code'[k])
    <3>1. code'[k] = [circle |-> code[k].circle, kind |-> code[k].kind, role |-> code[k].role,
                      max |-> code[k].max, live |-> code[k].live,
                      uses |-> IF k = request[q].code THEN code[k].uses + 1 ELSE code[k].uses]
      BY <2>1, RedeemedRow DEF IInv
    <3>2. k = request[q].code => code[k].uses < code[k].max
      BY <2>1 DEF Admit, Redeem, Resolves
    <3>3. code[k] \in CodeRow
      BY <1>t
    <3> QED
      BY <1>t, <3>1, <3>2, <3>3 DEF CodeRow
  <2>2. ASSUME NEW l \in CodeIds, NEW row \in NewRow, Make(l, row)
        PROVE  Good(code'[k])
    <3>1. Good(row)
      <4>1. row \in CodeRow
        BY DEF NewRow, CodeRow, Places
      <4> QED
        BY <2>2, <4>1 DEF Make, NewRow
    <3> QED
      BY <1>t, <2>2, <3>1 DEF Make
  <2>3. ASSUME NEW doors \in SUBSET CodeIds, code' = Shut(doors)
        PROVE  Good(code'[k])
    <3>1. CASE k \notin doors
      BY <1>t, <2>3, <3>1, ShutRow DEF IInv
    <3>2. CASE k \in doors
      <4>1. code'[k] = [circle |-> code[k].circle, kind |-> code[k].kind, role |-> code[k].role,
                        max |-> code[k].max, uses |-> code[k].uses, live |-> FALSE]
        BY <2>3, <3>2, ShutRow DEF IInv
      <4> QED
        BY <1>t, <4>1 DEF CodeRow
    <3> QED
      BY <3>1, <3>2
  <2>4. CASE UNCHANGED code
    BY <1>t, <2>4
  <2> HIDE DEF Good
  <2> QED
    BY <2>1, <2>2, <2>3, <2>4, CodesMove DEF CodeStep
<1>2. DOMAIN code' = CodeIds /\ code' = [k \in CodeIds |-> code'[k]]
  BY <1>t, CodesMove DEF CodeStep, Admit, Redeem, Make, Shut
<1>3. sealed' \subseteq CodeIds /\ \A k \in sealed' : code'[k].kind = "invite" /\ ~code'[k].live
  <2>1. CASE UNCHANGED sealed
    BY <1>t, <2>1, RowsStand DEF IInv, CodesKnow
  <2>2. ASSUME NEW q \in Requests, NEW m \in MemberIds, code' = Shut(Closing(m)), sealed' = sealed \cup Closing(m)
        PROVE  sealed' \subseteq CodeIds /\ \A k \in sealed' : code'[k].kind = "invite" /\ ~code'[k].live
    <3>1. Closing(m) \subseteq CodeIds /\ \A k \in Closing(m) : code[k].kind = "invite"
      BY DEF Closing, Outstanding
    <3>2. ASSUME NEW k \in Closing(m) PROVE code'[k].kind = "invite" /\ ~code'[k].live
      <4>1. code'[k] = [circle |-> code[k].circle, kind |-> code[k].kind, role |-> code[k].role,
                        max |-> code[k].max, uses |-> code[k].uses, live |-> FALSE]
        BY <2>2, <3>1, <3>2, ShutRow DEF IInv
      <4> QED
        BY <3>1, <4>1
    <3>3. ASSUME NEW k \in sealed PROVE code'[k].kind = "invite" /\ ~code'[k].live
      BY <1>t, <3>3, RowsStand DEF IInv, CodesKnow
    <3> QED
      BY <1>t, <2>2, <3>1, <3>2, <3>3
  <2>3. UNCHANGED sealed \/ \E q \in Requests : Revoke(q)
    <3>1. ASSUME NEW q \in Requests, Doors(q) \/ Calls(q) \/ Abandon(q)
          PROVE  UNCHANGED sealed \/ Revoke(q)
      BY <3>1, Untouched DEF Doors, Calls, InviteCalls, MemberCalls, CircleCalls
    <3>2. ASSUME Operator PROVE UNCHANGED sealed
      BY <3>2, Untouched DEF Operator, Wizard
    <3> QED
      BY <3>1, <3>2, Untouched DEF Next
  <2> QED
    BY <2>1, <2>2, <2>3 DEF Revoke, InCircle
<1> QED
  BY <1>1, <1>2, <1>3 DEF CodesKnow

(* Tokens keep to the schema; a key that has a token gets no other. *)
LEMMA TokensKeep ==
    ASSUME IInv, [Next]_vars
    PROVE  /\ TokensKnow' /\ OneTokenPerKey'
           /\ \A t \in token' : /\ t.n \in 1..MaxTokens /\ t.member \in MemberIds
                                /\ t.key \in Keys \cup {None} /\ t.live \in BOOLEAN
<1> DEFINE Good(t) == /\ t = [n |-> t.n, member |-> t.member, key |-> t.key, hash |-> t.hash, live |-> t.live]
                      /\ t.n \in 1..MaxTokens /\ t.member \in MemberIds
                      /\ t.key \in Keys \cup {None} /\ t.live \in BOOLEAN
<1>t. IsFiniteSet(token) /\ (\A t \in token : Good(t)) /\ OneTokenPerKey
  BY DEF IInv, TypeOK, TokensKnow
<1>1. CASE UNCHANGED token
  BY <1>1, <1>t DEF TokensKnow, OneTokenPerKey
<1>2. ASSUME NEW m \in MemberIds, NEW key \in Keys \cup {None}, NEW hash, Issue(m, key, hash)
      PROVE  IsFiniteSet(token') /\ (\A t \in token' : Good(t)) /\ OneTokenPerKey'
  <2> DEFINE Its == {t \in token : t.member = m}
             new == Minted(m, key, hash)
  <2>1. Its \subseteq token /\ IsFiniteSet(Its) /\ Cardinality(Its) <= Cardinality(token)
    BY <1>t, FS_Subset
  <2>2. Cardinality(Its) \in Nat /\ Cardinality(token) \in Nat
    BY <1>t, <2>1, FS_CardinalityType
  <2>3. Cardinality(Its) + 1 \in 1..MaxTokens
    BY <1>2, <2>1, <2>2, AdmissionAssumption DEF Issue
  <2>4. new = [n |-> Cardinality(Its) + 1, member |-> m, key |-> key, hash |-> hash, live |-> TRUE]
    BY DEF Minted
  <2>5. Good(new)
    BY <2>3, <2>4
  <2>6. token' = token \cup {new}
    BY <1>2 DEF Issue
  <2>7. IsFiniteSet(token')
    BY <1>t, <2>6, FS_AddElement
  <2>8. OneTokenPerKey'
    <3>1. new.member = m /\ new.key = key
      BY <2>4
    <3>2. \A t \in token : t.member = new.member /\ t.key = new.key => t.key = None
      BY <1>2, <3>1 DEF Issue
    <3> HIDE DEF new
    <3> QED
      BY <1>t, <2>6, <3>2 DEF OneTokenPerKey
  <2> HIDE DEF Good, new
  <2> QED
    BY <1>t, <2>5, <2>6, <2>7, <2>8
<1>3. ASSUME NEW t \in token, token' = (token \ {t}) \cup {[t EXCEPT !.live = FALSE]}
      PROVE  IsFiniteSet(token') /\ (\A u \in token' : Good(u)) /\ OneTokenPerKey'
  <2> DEFINE dead == [n |-> t.n, member |-> t.member, key |-> t.key, hash |-> t.hash, live |-> FALSE]
  <2>1. [t EXCEPT !.live = FALSE] = dead
    <3>1. t = [n |-> t.n, member |-> t.member, key |-> t.key, hash |-> t.hash, live |-> t.live]
      BY <1>t
    <3>2. \A x : [[n |-> t.n, member |-> t.member, key |-> t.key, hash |-> t.hash, live |-> t.live]
                    EXCEPT !.live = x]
                 = [n |-> t.n, member |-> t.member, key |-> t.key, hash |-> t.hash, live |-> x]
      OBVIOUS
    <3> QED
      BY <3>1, <3>2, Zenon
  <2>2. Good(dead)
    BY <1>t
  <2>3. IsFiniteSet(token')
    BY <1>3, <1>t, FS_AddElement, FS_RemoveElement
  <2>4. OneTokenPerKey'
    <3>1. \A u \in token' : (u \in token /\ u # t) \/ (u = dead /\ u.member = t.member /\ u.key = t.key)
      <4>1. dead.member = t.member /\ dead.key = t.key
        OBVIOUS
      <4> HIDE DEF dead
      <4> QED
        BY <1>3, <2>1, <4>1
    <3> QED
      BY <1>t, <3>1 DEF OneTokenPerKey
  <2> HIDE DEF Good, dead
  <2> QED
    BY <1>3, <1>t, <2>1, <2>2, <2>3, <2>4
<1>4. IsFiniteSet(token') /\ (\A t \in token' : Good(t)) /\ OneTokenPerKey'
  <2> HIDE DEF Good
  <2>1. CASE UNCHANGED token
    BY <1>1, <1>t, <2>1 DEF OneTokenPerKey
  <2> QED
    BY <1>2, <1>3, <2>1, TokensMove DEF TokenStep
<1> QED
  BY <1>4 DEF TokensKnow

(* A request goes on knowing what it knew, as rows keep what it is about. *)
LEMMA RequestsKeep ==
    ASSUME IInv, [Next]_vars
    PROVE  RequestsAre' /\ RequestsKnow'
<1> DEFINE Lasts(r) ==
             /\ r.at \in {"idle", "join", "session", "call"}
             /\ r.at \in {"join", "session"} =>
                  /\ r.via \in Providers /\ r.circle \in Circles
                  /\ r.via \in Verifiable => r.person \in People \ Blocked
             /\ r.at = "session" => r.via \in Verifiable
             /\ r.at = "join" => /\ r.code \in CodeIds /\ code'[r.code].kind # "none"
                                 /\ code'[r.code].circle = r.circle
             /\ r.at = "call" => /\ r.actor \in MemberIds /\ member'[r.actor].kind # "none"
                                 /\ member'[r.actor].circle = r.circle
<1>1. \A q \in Requests : Lasts(request[q])
  BY RowsStand DEF IInv, RequestsKnow, Knows
<1>2. Lasts(Idle)
  BY DEF Idle, Arrived
<1>3. ASSUME UNCHANGED <<member, code>>, NEW r, Knows(r) PROVE Lasts(r)
  BY <1>3 DEF Knows
<1>4. \A q \in Requests : Lasts(request'[q])
  <2> HIDE DEF Lasts
  <2> QED
    BY <1>1, <1>2, <1>3, RequestsMove DEF RequestStep, IInv, RequestsAre
<1>5. RequestsKnow'
  BY <1>4 DEF RequestsKnow, Knows
<1>6. RequestsAre'
  BY RequestsMove DEF RequestStep, IInv, RequestsAre
<1> QED
  BY <1>5, <1>6

(* requireAnotherOwner keeps one, and an owner is made only in a circle that
   has one, or by a code.                                                  *)
LEMMA OwnerKeeps ==
    ASSUME IInv, [Next]_vars
    PROVE  AlwaysAnOwner'
<1>t. member \in [MemberIds -> MemberRow] /\ AlwaysAnOwner
  BY DEF IInv, TypeOK
<1>1. ASSUME NEW q \in Requests, NEW m \in MemberIds, Admit(q, m)
      PROVE  AlwaysAnOwner'
  BY <1>1, <1>t DEF Admit, Joined, AlwaysAnOwner, NewMember, IInv, MembersKnow, Nobody, Owner, Observer
<1>2. ASSUME NEW q \in Requests, NEW m \in MemberIds, NEW h \in MemberIds, NEW role \in Roles \ {Owner},
             Employ(q, m, h, role)
      PROVE  AlwaysAnOwner'
  BY <1>2, <1>t DEF Employ, Service, AlwaysAnOwner, NewMember, IInv, MembersKnow, Nobody, Owner, Observer
<1>3. ASSUME NEW q \in Requests, NEW m \in MemberIds, NEW role \in Roles, Move(q, m, role)
      PROVE  AlwaysAnOwner'
  <2>1. /\ request[q].actor \in MemberIds /\ request[q].actor # m
        /\ member[request[q].actor].circle = member[m].circle
        /\ member[request[q].actor].role \in Roles
        /\ member[request[q].actor].role >= role
    BY <1>3, <1>t DEF Move, MayMove, InCircle, At, IInv, RequestsKnow, Knows, MemberRow
  <2>2. role = Owner => member[request[q].actor].role = Owner
    BY <2>1 DEF Roles, Owner, Observer
  <2>3. \A n \in MemberIds : n # m => member'[n] = member[n]
    BY <1>3, <1>t DEF Move
  <2>4. member'[m] = Row(m, role, member[m].live)
    BY <1>3, <1>t DEF Move
  <2>5. (member[m].role = Owner \/ role = Owner) =>
           \E n \in MemberIds \ {m} : /\ member[n].circle = member[m].circle
                                      /\ member[n].role = Owner /\ member[n].live
    <3>1. CASE member[m].role = Owner
      BY <1>3, <3>1 DEF Move, AnotherOwner
    <3>2. CASE member[m].role # Owner /\ role = Owner
      BY <1>t, <2>1, <2>2, <3>2 DEF AlwaysAnOwner
    <3> QED
      BY <3>1, <3>2
  <2> QED
    BY <1>t, <2>3, <2>4, <2>5 DEF AlwaysAnOwner, Row
<1>4. ASSUME NEW q \in Requests, NEW m \in MemberIds, Strike(q, m)
      PROVE  AlwaysAnOwner'
  BY <1>4, <1>t DEF Strike, Row, AlwaysAnOwner, AnotherOwner
<1>5. ASSUME NEW q \in Requests, NEW m \in MemberIds, Restore(q, m)
      PROVE  AlwaysAnOwner'
  BY <1>5, <1>t DEF Restore, Row, AlwaysAnOwner
<1>6. CASE UNCHANGED member
  BY <1>6 DEF IInv, AlwaysAnOwner
<1> QED
  BY <1>1, <1>2, <1>3, <1>4, <1>5, <1>6, MembersMove DEF MemberStep

(* A join looks for the identity among all the rows of the circle. *)
LEMMA OneEachKeeps ==
    ASSUME IInv, [Next]_vars
    PROVE  OneMembershipEach'
<1>t. member \in [MemberIds -> MemberRow] /\ OneMembershipEach
  BY DEF IInv, TypeOK
<1>1. ASSUME NEW q \in Requests, NEW m \in MemberIds, Admit(q, m)
      PROVE  OneMembershipEach'
  BY <1>1, <1>t DEF Admit, Joined, OneMembershipEach, MembersWith
<1>2. ASSUME NEW q \in Requests, NEW m \in MemberIds, NEW h \in MemberIds, NEW role \in Roles \ {Owner},
             Employ(q, m, h, role)
      PROVE  OneMembershipEach'
  BY <1>2, <1>t DEF Employ, Service, OneMembershipEach
<1>3. ASSUME NEW m \in MemberIds, NEW role, NEW live, member' = [member EXCEPT ![m] = Row(m, role, live)]
      PROVE  OneMembershipEach'
  BY <1>3, <1>t DEF Row, OneMembershipEach
<1>4. CASE UNCHANGED member
  BY <1>4, <1>t DEF OneMembershipEach
<1> QED
  BY <1>1, <1>2, <1>3, <1>4, MembersMove DEF MemberStep, Move, Strike, Restore

(* The update that counts a use writes the one row that names its code. *)
LEMMA UsesKeep ==
    ASSUME IInv, [Next]_vars
    PROVE  UsesAreCounted'
<1> DEFINE Admitted(k)  == {m \in MemberIds : member[m].code = k}
           AdmittedP(k) == {m \in MemberIds : member'[m].code = k}
<1>t. /\ member \in [MemberIds -> MemberRow] /\ code \in [CodeIds -> CodeRow]
      /\ UsesAreCounted /\ MembersKnow /\ TypeOK
  BY DEF IInv, TypeOK
<1>f. ASSUME NEW k PROVE IsFiniteSet(Admitted(k))
  <2>1. IsFiniteSet(MemberIds)
    BY AdmissionAssumption, FS_Interval DEF MemberIds
  <2> QED
    BY <2>1, FS_Subset
<1>1. ASSUME NEW q \in Requests, NEW m \in MemberIds, Admit(q, m), NEW k \in CodeIds
      PROVE  /\ code'[k].uses <= code'[k].max
             /\ code'[k].kind = "invite" => code'[k].uses = Cardinality(AdmittedP(k))
  <2>1. code'[k] = [circle |-> code[k].circle, kind |-> code[k].kind, role |-> code[k].role,
                    max |-> code[k].max, live |-> code[k].live,
                    uses |-> IF k = request[q].code THEN code[k].uses + 1 ELSE code[k].uses]
    BY <1>1, <1>t, RedeemedRow
  <2>2. k = request[q].code => code[k].uses < code[k].max
    BY <1>1 DEF Admit, Redeem, Resolves
  <2>3. code[k].uses \in Nat /\ code[k].max \in Nat /\ code[k].uses <= code[k].max
    <3>1. code[k] \in CodeRow /\ code[k].uses <= code[k].max
      BY <1>t DEF UsesAreCounted
    <3> QED
      BY <3>1 DEF CodeRow
  <2>4. /\ member' = [member EXCEPT ![m] = Joined(q, Identity(q, m))]
        /\ member[m].code = 0 /\ k # 0
    BY <1>1, <1>t, AdmissionAssumption DEF Admit, NewMember, MembersKnow, Nobody, CodeIds
  <2>5. CASE k = request[q].code /\ code[k].kind = "invite"
    <3>1. AdmittedP(k) = Admitted(k) \cup {m} /\ m \notin Admitted(k)
      BY <1>t, <2>4, <2>5 DEF Joined
    <3>2. Cardinality(AdmittedP(k)) = Cardinality(Admitted(k)) + 1
      <4>1. IsFiniteSet(Admitted(k))
        BY <1>f
      <4> HIDE DEF Admitted, AdmittedP
      <4> QED
        BY <3>1, <4>1, FS_AddElement
    <3> QED
      BY <1>t, <2>1, <2>2, <2>3, <2>5, <3>2 DEF UsesAreCounted
  <2>6. CASE k # request[q].code \/ code[k].kind # "invite"
    <3>1. CASE code[k].kind # "invite"
      BY <2>1, <2>2, <2>3, <3>1
    <3>2. CASE code[k].kind = "invite"
      <4>1. AdmittedP(k) = Admitted(k)
        BY <1>t, <2>4, <2>6, <3>2 DEF Joined
      <4> QED
        BY <1>t, <2>1, <2>3, <2>6, <3>2, <4>1 DEF UsesAreCounted
    <3> QED
      BY <3>1, <3>2
  <2> QED
    BY <2>5, <2>6
<1>2. ASSUME \A m \in MemberIds : member'[m].code = member[m].code, CodeStep,
             ~ \E q \in Requests, m \in MemberIds : Admit(q, m)
      PROVE  UsesAreCounted'
  <2>1. \A k : AdmittedP(k) = Admitted(k)
    BY <1>2
  <2>2. ASSUME NEW k \in CodeIds, code'[k].uses = code[k].uses, code'[k].max = code[k].max, code'[k].kind = code[k].kind
        PROVE  /\ code'[k].uses <= code'[k].max
               /\ code'[k].kind = "invite" => code'[k].uses = Cardinality(AdmittedP(k))
    BY <1>t, <2>1, <2>2 DEF UsesAreCounted
  <2>3. ASSUME NEW l \in CodeIds, NEW row \in NewRow, Make(l, row), NEW k \in CodeIds
        PROVE  /\ code'[k].uses <= code'[k].max
               /\ code'[k].kind = "invite" => code'[k].uses = Cardinality(AdmittedP(k))
    <3>1. CASE k # l
      BY <1>t, <2>2, <2>3, <3>1 DEF Make
    <3>2. CASE k = l
      <4>1. code'[k] = row /\ row.uses = 0 /\ row.max \in {1, 2}
        BY <1>t, <2>3, <3>2 DEF Make, NewRow
      <4>2. Admitted(k) = {}
        BY <1>t, <2>3, <3>2, AdmissionAssumption DEF Make, NewCode, MembersKnow, CodeIds
      <4>3. AdmittedP(k) = {}
        BY <2>1, <4>2
      <4> HIDE DEF AdmittedP
      <4> QED
        BY <4>1, <4>3, FS_EmptySet
    <3> QED
      BY <3>1, <3>2
  <2>4. ASSUME NEW doors \in SUBSET CodeIds, code' = Shut(doors), NEW k \in CodeIds
        PROVE  code'[k].uses = code[k].uses /\ code'[k].max = code[k].max /\ code'[k].kind = code[k].kind
    <3>1. CASE k \notin doors
      BY <1>t, <2>4, <3>1, ShutRow
    <3>2. CASE k \in doors
      <4>1. code'[k] = [circle |-> code[k].circle, kind |-> code[k].kind, role |-> code[k].role,
                        max |-> code[k].max, uses |-> code[k].uses, live |-> FALSE]
        BY <1>t, <2>4, <3>2, ShutRow
      <4> QED
        BY <4>1
    <3> QED
      BY <3>1, <3>2
  <2>5. ASSUME NEW k \in CodeIds
        PROVE  /\ code'[k].uses <= code'[k].max
               /\ code'[k].kind = "invite" => code'[k].uses = Cardinality(AdmittedP(k))
    BY <1>2, <2>2, <2>3, <2>4 DEF CodeStep
  <2> QED
    BY <2>5 DEF UsesAreCounted
<1>3. CASE \E q \in Requests, m \in MemberIds : Admit(q, m)
  BY <1>1, <1>3 DEF UsesAreCounted
<1>4. CASE ~ \E q \in Requests, m \in MemberIds : Admit(q, m)
  <2>1. \A m \in MemberIds : member'[m].code = member[m].code
    <3>1. ASSUME NEW q \in Requests, NEW m \in MemberIds, NEW h \in MemberIds, NEW role \in Roles \ {Owner},
                 Employ(q, m, h, role), NEW n \in MemberIds
          PROVE  member'[n].code = member[n].code
      BY <1>t, <3>1 DEF Employ, Service, NewMember, MembersKnow, Nobody
    <3>2. ASSUME NEW m \in MemberIds, NEW role, NEW live, member' = [member EXCEPT ![m] = Row(m, role, live)],
                 NEW n \in MemberIds
          PROVE  member'[n].code = member[n].code
      BY <1>t, <3>2 DEF Row
    <3> QED
      BY <1>4, <3>1, <3>2, MembersMove DEF MemberStep, Move, Strike, Restore
  <2> QED
    BY <1>2, <1>4, <2>1, CodesMove
<1> QED
  BY <1>3, <1>4

-----------------------------------------------------------------------------
(* The first state: one circle, its owner grant, nobody in it. *)
LEMMA InitEstablishes == Init => IInv
<1> SUFFICES ASSUME Init PROVE IInv
  OBVIOUS
<1>1. PICK c \in Circles :
        /\ circle = [d \in Circles |-> IF d = c THEN NewCircle ELSE NoCircle]
        /\ code = [k \in CodeIds |-> IF k = 1 THEN OwnerGrant(c) ELSE NoCode]
  BY DEF Init
<1>2. \A k \in CodeIds : code[k] = OwnerGrant(c) \/ code[k] = NoCode
  BY <1>1
<1>3. TypeOK
  <2>1. OwnerGrant(c) \in CodeRow /\ NoCode \in CodeRow
    BY DEF OwnerGrant, NoCode, CodeRow, Places, Roles, Owner, Observer
  <2>2. Nobody \in MemberRow
    BY AdmissionAssumption DEF Nobody, MemberRow, Places, Roles, Owner, Observer
  <2>3. circle \in [Circles -> [stage : {"none", "live", "gone"}, accepts : SUBSET Providers,
                               gate : Guilds \cup {None}, sweeps : BOOLEAN]]
    BY <1>1, AdmissionAssumption DEF Init, NewCircle, NoCircle
  <2>4. code \in [CodeIds -> CodeRow] /\ \A k \in CodeIds : code[k].kind # "invite"
    BY <1>1, <2>1 DEF OwnerGrant, NoCode
  <2> QED
    BY <2>2, <2>3, <2>4, AdmissionAssumption DEF Init, TypeOK
<1>4. RequestsAre /\ RequestsKnow
  BY DEF Init, RequestsAre, RequestsKnow, Knows, Idle, Arrived
<1>5. SetupKnows
  BY DEF Init, SetupKnows, NoSetup, Running
<1>6. MembersKnow
  BY DEF Init, MembersKnow, Nobody
<1>7. CodesKnow
  BY <1>2 DEF Init, CodesKnow, OwnerGrant, NoCode
<1>8. TokensKnow /\ OneTokenPerKey
  BY FS_EmptySet DEF Init, TokensKnow, OneTokenPerKey
<1>9. UsesAreCounted
  BY <1>2 DEF UsesAreCounted, OwnerGrant, NoCode
<1>10. AlwaysAnOwner /\ OneMembershipEach
  BY DEF Init, AlwaysAnOwner, OneMembershipEach, Nobody, Owner, Observer
<1> QED
  BY <1>3, <1>4, <1>5, <1>6, <1>7, <1>8, <1>9, <1>10 DEF IInv

(* Who is made an administrator is somebody the instance knows. *)
LEMMA GrantsKeep ==
    ASSUME IInv, [Next]_vars
    PROVE  granted' \subseteq Who
<1>t. granted \subseteq Who /\ \A m \in MemberIds : member[m].kind = "human" => member[m].who \in Who
  BY DEF IInv, TypeOK, MembersKnow
<1>1. ASSUME NEW q \in Requests, NEW key \in Keys, JoinNew(q, key)
      PROVE  granted' \subseteq Who
  <2>1. PICK m \in MemberIds : GrantFirstAdministrator(q, Identity(q, m), member')
    BY <1>1 DEF JoinNew
  <2>2. Identity(q, m) \in Who
    BY <1>1 DEF JoinNew, IInv, RequestsKnow, Knows, At, Identity, Who
  <2> QED
    BY <1>t, <2>1, <2>2 DEF GrantFirstAdministrator
<1>2. ASSUME NEW q \in Requests, NEW key \in Keys, JoinAgain(q, key)
      PROVE  granted' \subseteq Who
  BY <1>t, <1>2 DEF JoinAgain, MembersWith, GrantFirstAdministrator
<1>3. ASSUME NEW who, Decide(who)
      PROVE  granted' \subseteq Who
  BY <1>t, <1>3 DEF Decide
<1>4. ASSUME NEW q \in Requests, Doors(q) \/ Calls(q) \/ Abandon(q)
      PROVE  granted' \subseteq Who
  BY <1>t, <1>1, <1>2, <1>4, Untouched DEF Doors, Calls, InviteCalls, MemberCalls, CircleCalls
<1>5. ASSUME Operator PROVE granted' \subseteq Who
  BY <1>t, <1>3, <1>5, Untouched DEF Operator, Wizard
<1> QED
  BY <1>t, <1>4, <1>5, Untouched DEF Next

(* The world outside, and the bounds. *)
LEMMA WorldKeeps ==
    ASSUME IInv, [Next]_vars
    PROVE  /\ enabled' \subseteq Providers /\ guild' \in [People -> SUBSET Guilds]
           /\ writes' \in 0..MaxWrites /\ turns' \in 0..MaxTurns
<1> DEFINE Counted == writes' \in 0..MaxWrites /\ turns' \in 0..MaxTurns
<1>t. /\ enabled \subseteq Providers /\ guild \in [People -> SUBSET Guilds]
      /\ writes \in 0..MaxWrites /\ turns \in 0..MaxTurns
  BY DEF IInv, TypeOK
<1>1. UNCHANGED budget \/ Writing \/ Turning => Counted
  BY <1>t, AdmissionAssumption DEF budget, Writing, Turning
<1>2. ASSUME NEW q \in Requests, Doors(q) \/ Calls(q) \/ Abandon(q)
      PROVE  UNCHANGED world /\ (UNCHANGED budget \/ Writing)
  <2>1. CASE Doors(q) \/ Call(q) \/ Abandon(q)
    BY <2>1 DEF Doors, BeginJoin, BeginSession, JoinNew, JoinAgain, Authenticate, Call, Abandon
  <2>2. CASE InviteCalls(q) \/ MemberCalls(q)
    BY <2>2 DEF InviteCalls, MemberCalls, MintInvite, RevokeInvite, ChangeRole, Revoke, Reinstate, CreateService
  <2>3. CASE CircleCalls(q) \/ RevokeToken(q)
    BY <2>3 DEF CircleCalls, SetProviders, UpdateCircle, DeleteCircle, RevokeToken
  <2> QED
    BY <1>2, <2>1, <2>2, <2>3 DEF Calls
<1>3. ASSUME NEW c \in Circles, CreateCircle(c)
      PROVE  UNCHANGED world /\ Counted
  BY <1>t, <1>3, AdmissionAssumption DEF CreateCircle
<1>4. ASSUME NEW v \in Providers, SwitchProvider(v)
      PROVE  enabled' \subseteq Providers /\ UNCHANGED guild /\ Turning
  BY <1>t, <1>4 DEF SwitchProvider
<1>5. ASSUME NEW p \in People, NEW g \in Guilds, MoveGuild(p, g)
      PROVE  UNCHANGED enabled /\ guild' \in [People -> SUBSET Guilds] /\ Turning
  BY <1>t, <1>5 DEF MoveGuild
<1>6. ASSUME NEW who, Decide(who)
      PROVE  UNCHANGED world /\ Turning
  BY <1>6 DEF Decide
<1>7. Wizard => UNCHANGED world /\ (UNCHANGED budget \/ Turning)
  BY DEF Wizard, SetupDescribe, SetupGrant, SetupFail, SetupCircle, SetupAccept
<1>8. UNCHANGED vars => UNCHANGED world /\ UNCHANGED budget
  BY DEF vars
<1>9. Counted
  <2> HIDE DEF Counted
  <2> QED
    BY <1>1, <1>2, <1>3, <1>4, <1>5, <1>6, <1>7, <1>8 DEF Next, Operator
<1>10. enabled' \subseteq Providers /\ guild' \in [People -> SUBSET Guilds]
  <2>1. UNCHANGED world => enabled' \subseteq Providers /\ guild' \in [People -> SUBSET Guilds]
    BY <1>t DEF world
  <2> QED
    BY <1>t, <1>2, <1>3, <1>4, <1>5, <1>6, <1>7, <1>8, <2>1 DEF Next, Operator
<1> QED
  BY <1>9, <1>10

(* Every step keeps every part. *)
LEMMA StepKeeps == IInv /\ [Next]_vars => IInv'
<1> SUFFICES ASSUME IInv, [Next]_vars PROVE IInv'
  OBVIOUS
<1>1. TypeOK'
  BY CirclesKeep, MembersKeep, CodesKeep, TokensKeep, GrantsKeep, WorldKeeps DEF TypeOK
<1> QED
  BY <1>1, RequestsKeep, CirclesKeep, MembersKeep, CodesKeep, TokensKeep, UsesKeep, OwnerKeeps, OneEachKeeps DEF IInv

(* The invariant the others rest on. *)
THEOREM Inductive == Spec => []IInv
BY InitEstablishes, StepKeeps, PTL DEF Spec

(* Every table and every counter holds values of its schema, and no invite
   grants the role of an owner.                                            *)
THEOREM TypeCorrect == Spec => []TypeOK
<1>1. IInv => TypeOK
  BY DEF IInv
<1> QED
  BY <1>1, Inductive, PTL

(* invite.Redeem: a code never admits more than it allows, and its uses are
   the members that came in by it, however many requests race for the last. *)
THEOREM CodesCount == Spec => []UsesAreCounted
<1>1. IInv => UsesAreCounted
  BY DEF IInv
<1> QED
  BY <1>1, Inductive, PTL

(* membership.requireAnotherOwner: whatever any number of owners do to each
   other at once, a circle that has had an owner has one who is live.      *)
THEOREM CirclesAreOwned == Spec => []AlwaysAnOwner
<1>1. IInv => AlwaysAnOwner
  BY DEF IInv
<1> QED
  BY <1>1, Inductive, PTL

(* membership.join and finish: however often and under however many keys one
   person comes to a door, a circle has one membership of theirs, and a key
   one token.                                                              *)
THEOREM RetriesAddNothing == Spec => []ARetryAddsNothing
<1>1. IInv => ARetryAddsNothing
  BY DEF IInv, ARetryAddsNothing
<1> QED
  BY <1>1, Inductive, PTL

(* membership.Revoke with the circle's switch on: an invite that was out then
   admits nobody ever after, also not by a join already at the provider.   *)
THEOREM SealsHold == Spec => SealedCodesStaySealed
<1>1. ASSUME IInv, [Next]_vars, NEW m \in MemberIds, member'[m].code \in sealed
      PROVE  member[m].code = member'[m].code
  <2>t. /\ member \in [MemberIds -> MemberRow] /\ sealed \subseteq CodeIds /\ 0 \notin CodeIds
        /\ \A k \in sealed : ~code[k].live
    BY <1>1, AdmissionAssumption DEF IInv, TypeOK, CodesKnow, CodeIds
  <2>1. ASSUME NEW q \in Requests, NEW n \in MemberIds, Admit(q, n)
        PROVE  member[m].code = member'[m].code
    BY <1>1, <2>t, <2>1 DEF Admit, Redeem, Resolves, Joined
  <2>2. ASSUME NEW q \in Requests, NEW n \in MemberIds, NEW h \in MemberIds, NEW role \in Roles, Employ(q, n, h, role)
        PROVE  member[m].code = member'[m].code
    BY <1>1, <2>t, <2>2 DEF Employ, Service
  <2>3. ASSUME NEW n \in MemberIds, NEW role, NEW live, member' = [member EXCEPT ![n] = Row(n, role, live)]
        PROVE  member[m].code = member'[m].code
    BY <2>t, <2>3 DEF Row
  <2> QED
    BY <1>1, <2>1, <2>2, <2>3, MembersMove DEF MemberStep, Move, Strike, Restore
<1>2. IInv /\ [Next]_vars =>
        [\A m \in MemberIds : member'[m].code \in sealed => member[m].code = member'[m].code]_vars
  BY <1>1
<1> QED
  BY <1>2, Inductive, PTL DEF Spec, SealedCodesStaySealed

(* membership.refuseGrantAboveOwnRole on rows reread under the lock: nobody
   becomes an owner but by an owner grant of that circle or by the word of
   another member who is an owner at that instant.                         *)
THEOREM OwnersMakeOwners == Spec => OwnershipIsHandedOn
<1> DEFINE HandedOn(m) ==
      \/ \E k \in CodeIds : /\ code[k].kind = "grant" /\ code[k].circle = member'[m].circle
                            /\ code'[k].uses = code[k].uses + 1
      \/ \E q \in Requests : /\ At(q, "call") /\ request'[q] = Idle
                             /\ request[q].actor # m
                             /\ member[request[q].actor].role = Owner
<1>1. ASSUME IInv, [Next]_vars, NEW m \in MemberIds, member'[m].role = Owner, member[m].role # Owner
      PROVE  HandedOn(m)
  <2>t. /\ member \in [MemberIds -> MemberRow] /\ code \in [CodeIds -> CodeRow]
        /\ \A k \in CodeIds : code[k].kind = "invite" => code[k].role # Owner
    BY <1>1 DEF IInv, TypeOK
  <2>1. ASSUME NEW q \in Requests, NEW n \in MemberIds, Admit(q, n)
        PROVE  HandedOn(m)
    <3> DEFINE k == request[q].code
    <3>1. k \in CodeIds /\ code[k].kind \in {"invite", "grant"} /\ code[k].circle = request[q].circle
      BY <1>1, <2>t, <2>1 DEF Admit, At, IInv, RequestsKnow, Knows, CodeRow
    <3>2. m = n /\ member'[m].circle = request[q].circle /\ code[k].role = Owner
      BY <1>1, <2>t, <2>1 DEF Admit, Joined
    <3>3. code'[k].uses = code[k].uses + 1
      <4>1. code'[k] = [circle |-> code[k].circle, kind |-> code[k].kind, role |-> code[k].role,
                        max |-> code[k].max, live |-> code[k].live,
                        uses |-> IF k = request[q].code THEN code[k].uses + 1 ELSE code[k].uses]
        BY <1>1, <2>1, <3>1, RedeemedRow DEF IInv
      <4> QED
        BY <4>1
    <3> QED
      BY <2>t, <3>1, <3>2, <3>3
  <2>2. ASSUME NEW q \in Requests, NEW n \in MemberIds, NEW h \in MemberIds, NEW role \in Roles \ {Owner},
               Employ(q, n, h, role)
        PROVE  HandedOn(m)
    BY <1>1, <2>t, <2>2 DEF Employ, Service
  <2>3. ASSUME NEW q \in Requests, NEW n \in MemberIds, NEW role \in Roles, Move(q, n, role)
        PROVE  HandedOn(m)
    <3>1. n = m /\ role = Owner
      BY <1>1, <2>t, <2>3 DEF Move, Row
    <3>2. /\ At(q, "call") /\ request'[q] = Idle /\ request[q].actor # m
          /\ request[q].actor \in MemberIds /\ member[request[q].actor].role >= Owner
      BY <1>1, <2>3, <3>1 DEF Move, MayMove, At, IInv, RequestsKnow, Knows
    <3>3. member[request[q].actor].role = Owner
      BY <2>t, <3>2 DEF MemberRow, Roles, Owner, Observer
    <3> QED
      BY <3>2, <3>3
  <2>4. ASSUME NEW n \in MemberIds, NEW live, member' = [member EXCEPT ![n] = Row(n, member[n].role, live)]
        PROVE  HandedOn(m)
    BY <1>1, <2>t, <2>4 DEF Row
  <2> HIDE DEF HandedOn
  <2> QED
    BY <1>1, <2>1, <2>2, <2>3, <2>4, MembersMove DEF MemberStep, Strike, Restore
<1>2. IInv /\ [Next]_vars =>
        [\A m \in MemberIds : member'[m].role = Owner /\ member[m].role # Owner => HandedOn(m)]_vars
  BY <1>1
<1> QED
  BY <1>2, Inductive, PTL DEF Spec, OwnershipIsHandedOn

(* membership.grantFirstAdministrator: a redemption makes an administrator of
   one person, who can sign in, and only where nobody administers.         *)
THEOREM FirstAdministratorIsOne == Spec => OneFirstAdministrator
<1> DEFINE First == /\ ~AdministratorExists(member)
                    /\ \E who \in Who : granted' \ granted = {who} /\ CanAuthenticate(who, member')
<1>1. ASSUME IInv, NEW q \in Requests, NEW key \in Keys, JoinNew(q, key), granted' # granted
      PROVE  First
  <2>1. PICK m \in MemberIds :
          /\ NewMember(m) /\ member' = [member EXCEPT ![m] = Joined(q, Identity(q, m))]
          /\ GrantFirstAdministrator(q, Identity(q, m), member')
    BY <1>1 DEF JoinNew
  <2>2. /\ ~AdministratorExists(member')
        /\ granted' = granted \cup {Identity(q, m)} /\ Identity(q, m) \notin granted
    BY <1>1, <2>1 DEF GrantFirstAdministrator
  <2>3. \A n \in MemberIds : member[n].live => member'[n] = member[n]
    BY <1>1, <2>1 DEF NewMember, Nobody, IInv, MembersKnow, TypeOK
  <2>4. ~AdministratorExists(member)
    <3>1. \A who \in granted : CanAuthenticate(who, member) => CanAuthenticate(who, member')
      BY <2>3 DEF CanAuthenticate
    <3> QED
      BY <2>2, <3>1 DEF AdministratorExists
  <2>5. Identity(q, m) \in Who
    BY <1>1 DEF JoinNew, IInv, RequestsKnow, Knows, At, Identity, Who
  <2>6. CanAuthenticate(Identity(q, m), member')
    <3>1. member'[m] = Joined(q, Identity(q, m)) /\ Live(request[q].circle)
      BY <1>1, <2>1 DEF JoinNew, StillAdmits, Takes, IInv, TypeOK
    <3> QED
      BY <3>1 DEF CanAuthenticate, Joined
  <2> QED
    BY <2>2, <2>4, <2>5, <2>6
<1>2. ASSUME IInv, NEW q \in Requests, NEW key \in Keys, JoinAgain(q, key), granted' # granted
      PROVE  First
  <2>1. PICK m \in MembersWith(request[q].circle, Identity(q, 0)) :
          member[m].live /\ GrantFirstAdministrator(q, member[m].who, member)
    BY <1>2 DEF JoinAgain
  <2>2. /\ m \in MemberIds /\ member[m].who \in Who /\ Live(member[m].circle)
        /\ member' = member
    BY <1>2, <2>1 DEF MembersWith, JoinAgain, StillAdmits, Takes, IInv, MembersKnow
  <2>3. ~AdministratorExists(member) /\ granted' \ granted = {member[m].who}
    BY <1>2, <2>1 DEF GrantFirstAdministrator
  <2>4. CanAuthenticate(member[m].who, member')
    BY <2>1, <2>2 DEF CanAuthenticate
  <2> QED
    BY <2>2, <2>3, <2>4
<1>3. ASSUME [Next]_vars, granted' # granted, NEW q \in Requests, At(q, "join"), request'[q] = Idle
      PROVE  \E r \in Requests, key \in Keys : JoinNew(r, key) \/ JoinAgain(r, key)
  <2>1. ASSUME NEW r \in Requests, Doors(r) \/ Calls(r) \/ Abandon(r)
        PROVE  \E key \in Keys : JoinNew(r, key) \/ JoinAgain(r, key)
    BY <1>3, <2>1, Untouched DEF Doors, Calls, InviteCalls, MemberCalls, CircleCalls
  <2>2. UNCHANGED request => FALSE
    BY <1>3 DEF At, Idle, Arrived
  <2>3. ~Operator
    BY <1>3, <2>2, Untouched DEF Operator, Wizard
  <2> QED
    BY <1>3, <2>1, <2>2, <2>3, Untouched DEF Next
<1>4. IInv /\ [Next]_vars =>
        [(\E q \in Requests : At(q, "join") /\ request'[q] = Idle) /\ granted' # granted => First]_vars
  <2> HIDE DEF First
  <2> QED
    BY <1>1, <1>2, <1>3
<1> QED
  BY <1>4, Inductive, PTL DEF Spec, OneFirstAdministrator

(* membership.join and Authenticate: whoever is handed a token at a door has,
   at that instant, a live membership of a circle that exists and takes the
   provider, meets its gate, and is not blocked, whatever became of what the
   request had read before its round trip.                                 *)
THEOREM DoorsAskTheLiveRows == Spec => AdmittedByTheLiveRules
<1> DEFINE Fresh(t) == t.key # None /\ \A u \in token : u.member = t.member => u.n < t.n
           ByTheRules(m, q) ==
             /\ m.live /\ Takes(m.circle, m.who.via) /\ m.who.subject \notin Blocked
             /\ At(q, "join") \/ At(q, "session")
             /\ request'[q] = Idle
             /\ request[q].circle = m.circle /\ request[q].via = m.who.via
             /\ Passes(GateOf(m.circle, m.who.via), request[q].facts)
           Admitted(t) == \E q \in Requests : ByTheRules(member'[t.member], q)
<1>1. ASSUME IInv, NEW t \in token PROVE t.n \in Nat /\ ~Fresh(t)
  <2>1. t.n \in 1..MaxTokens
    BY <1>1 DEF IInv, TypeOK
  <2> QED
    BY <2>1, AdmissionAssumption
<1>2. ASSUME IInv, NEW q \in Requests, NEW n \in MemberIds, NEW key \in Keys, Finish(q, n, key),
             NEW x \in MemberIds \cup {0}, member'[n].who = Identity(q, x), ByTheRules(member'[n], q),
             NEW t \in token', Fresh(t)
      PROVE  Admitted(t)
  <2>1. t \notin token
    BY <1>1, <1>2
  <2>2. t = Minted(n, key, RequestHash(q))
    BY <1>2, <2>1 DEF Finish
  <2>3. t.member = n
    BY <2>2 DEF Minted
  <2> QED
    BY <1>2, <2>3
<1>3. ASSUME IInv, NEW q \in Requests, At(q, "join") \/ At(q, "session"), StillAdmits(q), Done(q),
             NEW n \in MemberIds, NEW x \in MemberIds \cup {0}, member'[n].live,
             member'[n].who = Identity(q, x), member'[n].circle = request[q].circle
      PROVE  ByTheRules(member'[n], q)
  <2>1. /\ member'[n].who.via = request[q].via
        /\ request[q].via \in Verifiable => member'[n].who.subject = request[q].person
        /\ request[q].via \notin Verifiable => member'[n].who.subject = x
    BY <1>3 DEF Identity
  <2>2. request[q].via \in Verifiable => request[q].person \notin Blocked
    BY <1>3 DEF At, IInv, RequestsKnow, Knows
  <2>3. x \notin Blocked
    <3>1. x \in Nat
      BY AdmissionAssumption DEF MemberIds
    <3> QED
      BY <3>1, AdmissionAssumption
  <2>4. request'[q] = Idle
    BY <1>3 DEF Done, IInv, RequestsAre
  <2> QED
    BY <1>3, <2>1, <2>2, <2>3, <2>4 DEF StillAdmits
<1>4. ASSUME IInv, NEW q \in Requests, NEW key \in Keys, JoinNew(q, key), NEW t \in token', Fresh(t)
      PROVE  Admitted(t)
  <2>1. PICK n \in MemberIds : member' = [member EXCEPT ![n] = Joined(q, Identity(q, n))] /\ Finish(q, n, key)
    BY <1>4 DEF JoinNew
  <2>2. /\ member'[n].live /\ member'[n].who = Identity(q, n)
        /\ member'[n].circle = request[q].circle
    BY <1>4, <2>1 DEF Joined, IInv, TypeOK
  <2>3. ByTheRules(member'[n], q)
    <3> HIDE DEF ByTheRules
    <3> QED
      BY <1>3, <1>4, <2>2 DEF JoinNew
  <2> HIDE DEF ByTheRules, Fresh, Admitted
  <2> QED
    BY <1>2, <1>4, <2>1, <2>2, <2>3
<1>5. ASSUME IInv, NEW q \in Requests, NEW key \in Keys, JoinAgain(q, key) \/ Authenticate(q, key),
             NEW t \in token', Fresh(t)
      PROVE  Admitted(t)
  <2>1. PICK n \in MembersWith(request[q].circle, Identity(q, 0)) : member[n].live /\ Finish(q, n, key)
    BY <1>5 DEF JoinAgain, Authenticate
  <2>2. /\ n \in MemberIds /\ member'[n].live /\ member'[n].who = Identity(q, 0)
        /\ member'[n].circle = request[q].circle
    BY <1>5, <2>1 DEF MembersWith, JoinAgain, Authenticate
  <2>3. ByTheRules(member'[n], q)
    <3> HIDE DEF ByTheRules
    <3> QED
      BY <1>3, <1>5, <2>2 DEF JoinAgain, Authenticate
  <2> HIDE DEF ByTheRules, Fresh, Admitted
  <2> QED
    BY <1>2, <1>5, <2>1, <2>2, <2>3
<1>6. ASSUME IInv, NEW q \in Requests, CreateService(q), NEW t \in token' PROVE ~Fresh(t)
  <2>1. PICK m : token' = token \cup {Minted(m, None, <<>>)}
    BY <1>6 DEF CreateService
  <2>2. Minted(m, None, <<>>).key = None
    BY DEF Minted
  <2> QED
    BY <1>1, <1>6, <2>1, <2>2
<1>7. ASSUME IInv, NEW q \in Requests, RevokeToken(q), NEW t \in token' PROVE ~Fresh(t)
  <2>1. PICK u \in token : token' = (token \ {u}) \cup {[u EXCEPT !.live = FALSE]}
    BY <1>7 DEF RevokeToken
  <2>2. [u EXCEPT !.live = FALSE].n = u.n /\ [u EXCEPT !.live = FALSE].member = u.member
    <3>1. u = [n |-> u.n, member |-> u.member, key |-> u.key, hash |-> u.hash, live |-> u.live]
      BY <1>7 DEF IInv, TokensKnow
    <3>2. \A v : v = [n |-> u.n, member |-> u.member, key |-> u.key, hash |-> u.hash, live |-> u.live] =>
            [v EXCEPT !.live = FALSE].n = u.n /\ [v EXCEPT !.live = FALSE].member = u.member
      OBVIOUS
    <3> QED
      BY <3>1, <3>2
  <2>3. u.n \in Nat
    BY <1>1, <1>7
  <2>4. t \in token \/ (t.n = u.n /\ t.member = u.member)
    BY <2>1, <2>2
  <2>5. CASE t \in token
    BY <1>1, <1>7, <2>5
  <2>6. CASE t.n = u.n /\ t.member = u.member
    BY <2>3, <2>6
  <2> QED
    BY <2>4, <2>5, <2>6
<1>8. ASSUME IInv, [Next]_vars, NEW t \in token', Fresh(t)
      PROVE  Admitted(t)
  <2>1. CASE UNCHANGED token
    BY <1>1, <1>8, <2>1
  <2> HIDE DEF Fresh, Admitted
  <2>2. ASSUME NEW q \in Requests, Doors(q) \/ Calls(q) \/ Abandon(q)
        PROVE  Admitted(t)
    BY <1>4, <1>5, <1>6, <1>7, <1>8, <2>1, <2>2, Untouched DEF Doors, Calls, InviteCalls, MemberCalls, CircleCalls
  <2>3. ASSUME Operator PROVE Admitted(t)
    BY <2>1, <2>3, Untouched DEF Operator, Wizard
  <2> QED
    BY <1>8, <2>1, <2>2, <2>3, Untouched DEF Next
<1>9. IInv /\ [Next]_vars =>
        [\A t \in token' : t.key # None /\ (\A u \in token : u.member = t.member => u.n < t.n) =>
           LET m == member'[t.member] IN
           /\ m.live /\ Takes(m.circle, m.who.via) /\ m.who.subject \notin Blocked
           /\ \E q \in Requests : /\ At(q, "join") \/ At(q, "session")
                                  /\ request'[q] = Idle
                                  /\ request[q].circle = m.circle /\ request[q].via = m.who.via
                                  /\ Passes(GateOf(m.circle, m.who.via), request[q].facts)]_vars
  BY <1>8
<1> QED
  BY <1>9, Inductive, PTL DEF Spec, AdmittedByTheLiveRules

=============================================================================
