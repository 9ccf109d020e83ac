----------------------------- MODULE Admission -----------------------------
(***************************************************************************)
(* Who is in a circle and by what right: the doors of internal/membership  *)
(* (join, sign in on a new device), the codes of internal/invite, roles,   *)
(* revocation, service members and their tokens, the providers a circle    *)
(* accepts, first-run setup, and who administers the instance.             *)
(*                                                                         *)
(* A request at a door reads the code, the accepted provider and its guild *)
(* gate on the pool, talks to the provider, and only then writes, in one   *)
(* transaction that reads them again.  A request of a member is            *)
(* authenticated first and acts later.  Anybody may write in between.      *)
(*                                                                         *)
(* A refusal writes nothing, and is the same step as a failure: Abandon.   *)
(***************************************************************************)
EXTENDS Integers, FiniteSets

CONSTANTS People, Guilds, Circles, Providers, Keys, Requests,
          Verifiable,      \* providers that re-prove a subject; the rest mint a new one each time
          Gated,           \* providers with guilds to gate on (discord)
          Blocked,         \* people with identity.blocked_at, which nothing in this code writes
          MaxMembers,      \* bound: membership rows
          MaxCodes,        \* bound: invites and owner grants
          MaxTokens,       \* bound: api_token rows
          MaxWrites,       \* bound: writes by officers, the operator and the world
          MaxTurns,        \* bound: how many of them by the operator and the world
          Named,           \* bound: the roles requests name
          None

ASSUME AdmissionAssumption ==
    /\ Verifiable \subseteq Providers /\ Gated \subseteq Verifiable /\ Blocked \subseteq People
    /\ Named \subseteq 1..4
    /\ MaxMembers \in Nat /\ MaxCodes \in Nat /\ MaxTokens \in Nat /\ MaxWrites \in Nat /\ MaxTurns \in Nat
    /\ None \notin Guilds /\ None \notin Circles /\ None \notin Keys
    /\ Blocked \cap Nat = {}  \* a subject that a provider makes up is nobody's

(* authz.Role, in the order of its ranks. *)
Observer == 1
Member   == 2
Officer  == 3
Owner    == 4
Roles    == Observer..Owner

MemberIds == 1..MaxMembers
CodeIds   == 1..MaxCodes

VARIABLES
    circle,    \* circle rows with their accepted providers and guild gate
    member,    \* membership rows, with the identity each points at
    code,      \* invite rows and the owner grants kept in tod_meta
    token,     \* api_token rows, with the idempotency record that replays each
    granted,   \* identities whose last decision for instance.owner is "granted"
    enabled,   \* providers the instance has enabled
    guild,     \* the guilds each person is in, which only the provider knows
    request,   \* what each request in the server is doing
    setup,     \* the setup run in progress, at most one
    sealed,    \* history: invites a weak revocation has closed
    writes,    \* how many so far
    turns      \* how many of them were not a member's

world == <<enabled, guild>>
rows  == <<circle, member, code, token, granted, sealed>>
budget == <<writes, turns>>
vars  == <<rows, world, request, setup, budget>>

(* A request at a door: who it is about, by which provider, at which circle,
   with which code (0 for a sign-in), and what the provider said.          *)
Arrived(stage, p, v, c, k, facts) ==
    [at |-> stage, person |-> p, via |-> v, circle |-> c, code |-> k, facts |-> facts,
     seen |-> FALSE, sweeps |-> FALSE, actor |-> 0, rank |-> 0, way |-> None]

Running(stage, c, accepts, gate) == [at |-> stage, circle |-> c, accepts |-> accepts, gate |-> gate]

Idle    == Arrived("idle", None, None, None, 0, {})
Nobody  == [circle |-> None, kind |-> "none", who |-> None, role |-> Observer, live |-> FALSE,
            code |-> 0, answers |-> 0]
NoCode  == [circle |-> None, kind |-> "none", role |-> Observer, max |-> 0, uses |-> 0, live |-> FALSE]
NoSetup == Running("idle", None, {}, None)

At(q, stage) == request[q].at = stage
Live(c)      == circle[c].stage = "live"

-----------------------------------------------------------------------------
(* What a door reads: circle.Accepted, its gate, invite.Resolve. *)

Takes(c, v)        == Live(c) /\ v \in circle[c].accepts \cap enabled
GateOf(c, v)       == IF v \in Gated THEN circle[c].gate ELSE None
Passes(gate, facts) == gate = None \/ gate \in facts
AcceptsWeakProvider(c) == (circle[c].accepts \cap enabled) \ Verifiable # {}

Resolves(k) ==
    /\ code[k].kind # "none" /\ code[k].live
    /\ code[k].uses < code[k].max
    /\ Live(code[k].circle)

(* The subject a provider names: the person, or one it has just made up. *)
Identity(q, fresh) ==
    [via     |-> request[q].via,
     subject |-> IF request[q].via \in Verifiable THEN request[q].person ELSE fresh]

(* Mutant: the lookup passes over a revoked membership. *)
MembersWithLive(c, who) ==
    {m \in MemberIds : /\ member[m].kind = "human" /\ member[m].live
                       /\ member[m].circle = c /\ member[m].who = who}

MembersWith(c, who) ==
    {m \in MemberIds : member[m].kind = "human" /\ member[m].circle = c /\ member[m].who = who}

(* The next unused row of a table. *)
NewMember(m) == member[m].kind = "none" /\ \A n \in MemberIds : member[n].kind = "none" => m <= n
NewCode(k)   == code[k].kind = "none" /\ \A j \in CodeIds : code[j].kind = "none" => k <= j

(* instancegrant: somebody who holds the permission and can still sign in. *)
CanAuthenticate(who, members) ==
    \E m \in MemberIds : members[m].live /\ members[m].who = who /\ Live(members[m].circle)
AdministratorExists(members) == \E who \in granted : CanAuthenticate(who, members)

-----------------------------------------------------------------------------
(* The process starts after `tod-serve circle create`: one circle and the
   owner grant the command printed.                                        *)
NewCircle == [stage |-> "live", accepts |-> enabled \cap Verifiable, gate |-> None, sweeps |-> TRUE]
NoCircle  == [stage |-> "none", accepts |-> {}, gate |-> None, sweeps |-> FALSE]
OwnerGrant(c) == [circle |-> c, kind |-> "grant", role |-> Owner, max |-> 1, uses |-> 0, live |-> TRUE]

Init ==
    /\ enabled = Providers
    /\ guild = [p \in People |-> {}]
    /\ \E c \in Circles :
         /\ circle = [d \in Circles |-> IF d = c THEN NewCircle ELSE NoCircle]
         /\ code = [k \in CodeIds |-> IF k = 1 THEN OwnerGrant(c) ELSE NoCode]
    /\ member = [m \in MemberIds |-> Nobody]
    /\ token = {} /\ granted = {} /\ sealed = {}
    /\ request = [q \in Requests |-> Idle]
    /\ setup = NoSetup /\ writes = 0 /\ turns = 0

Abandon(q) ==
    /\ request[q] # Idle
    /\ request' = [request EXCEPT ![q] = Idle]
    /\ UNCHANGED <<rows, world, setup, budget>>

Done(q) == request' = [request EXCEPT ![q] = Idle]

-----------------------------------------------------------------------------
(* The doors.  First the pooled reads and the round trip to the provider,
   which is asked about the guild of the gate that was read, and about no
   other; what it says is kept for the transaction.                        *)

Facts(p, gate) == {gate} \cap guild[p]

(* Whom the request is about, if the provider can tell. *)
Arriving(p, v) == IF v \in Verifiable THEN p ELSE None

BeginJoin(q) ==
    /\ request[q] = Idle
    /\ \E k \in CodeIds, p \in People, v \in Providers :
         LET c == code[k].circle IN
         /\ Resolves(k) /\ Arriving(p, v) \notin Blocked
         /\ Takes(c, v) /\ Passes(GateOf(c, v), Facts(p, GateOf(c, v)))
         /\ request' = [request EXCEPT ![q] =
                Arrived("join", Arriving(p, v), v, c, k, Facts(p, GateOf(c, v)))]
    /\ UNCHANGED <<rows, world, setup, budget>>

(* /sessions keeps to itself that its circle does not take the provider
   until the identity is known, and then refuses: only a request that gets
   past that is followed, and only one whose subject could be a member's.  *)
BeginSession(q) ==
    /\ request[q] = Idle
    /\ \E p \in People \ Blocked, v \in Verifiable, c \in Circles :
         /\ Takes(c, v) /\ Passes(GateOf(c, v), Facts(p, GateOf(c, v)))
         /\ request' = [request EXCEPT ![q] =
                Arrived("session", p, v, c, 0, Facts(p, GateOf(c, v)))]
    /\ UNCHANGED <<rows, world, setup, budget>>

(* Mutant: the transaction trusts what was read before the round trip. *)
StillAdmitsAsRead(q) == Live(request[q].circle)

(* The same questions, asked of the live rows. *)
StillAdmits(q) ==
    /\ Takes(request[q].circle, request[q].via)
    /\ Passes(GateOf(request[q].circle, request[q].via), request[q].facts)

(* joinHash and sessionHash; an owner grant has no invite id to hash. *)
RequestHash(q) ==
    LET k == request[q].code IN
    IF k = 0 THEN <<"sessions", request[q].circle, 0, request[q].via>>
    ELSE <<"join", request[q].circle, IF code[k].kind = "invite" THEN k ELSE 0, request[q].via>>

Minted(m, key, hash) ==
    [n |-> Cardinality({t \in token : t.member = m}) + 1, member |-> m, key |-> key, hash |-> hash, live |-> TRUE]

(* Mutant: finish mints without looking for the response it stored. *)
FinishMinting(q, m, key) ==
    /\ Cardinality(token) < MaxTokens
    /\ token' = token \cup {Minted(m, key, RequestHash(q))}

(* finish: the stored response of this key, or a token and its record. *)
Finish(q, m, key) ==
    LET stored == {t \in token : t.member = m /\ t.key = key} IN
    \/ /\ \E t \in stored : t.hash = RequestHash(q)
       /\ UNCHANGED token
    \/ /\ stored = {} /\ Cardinality(token) < MaxTokens
       /\ token' = token \cup {Minted(m, key, RequestHash(q))}

(* Mutant: the bootstrap asks only whether this redeemer already has it. *)
GrantToRedeemer(q, who, members) ==
    granted' = IF code[request[q].code].kind = "grant" THEN granted \cup {who} ELSE granted

GrantFirstAdministrator(q, who, members) ==
    granted' = IF code[request[q].code].kind = "grant" /\ ~AdministratorExists(members)
               THEN granted \cup {who} ELSE granted

(* Mutant: neither Resolve in the transaction nor the update looks again. *)
RedeemUnconditionally(k) == code' = [code EXCEPT ![k].uses = @ + 1]

(* invite.Resolve under the lock, then ConsumeInvite or ConsumeMeta. *)
Redeem(k) ==
    /\ Resolves(k)
    /\ code' = [code EXCEPT ![k].uses = @ + 1]

Joined(q, who) ==
    LET k == request[q].code IN
    [circle |-> request[q].circle, kind |-> "human", who |-> who, role |-> code[k].role, live |-> TRUE,
     code |-> IF code[k].kind = "invite" THEN k ELSE 0, answers |-> 0]

JoinNew(q, key) ==
    /\ At(q, "join") /\ StillAdmits(q)
    /\ \E m \in MemberIds :
         LET who == Identity(q, m) IN
         /\ NewMember(m) /\ MembersWith(request[q].circle, who) = {}
         /\ member' = [member EXCEPT ![m] = Joined(q, who)]
         /\ Redeem(request[q].code)
         /\ GrantFirstAdministrator(q, who, member')
         /\ Finish(q, m, key)
    /\ Done(q)
    /\ UNCHANGED <<circle, sealed, world, setup, budget>>

(* A live member gets a token and keeps the code; the bootstrap is here too. *)
JoinAgain(q, key) ==
    /\ At(q, "join") /\ Resolves(request[q].code) /\ StillAdmits(q)
    /\ \E m \in MembersWith(request[q].circle, Identity(q, 0)) :
         /\ member[m].live
         /\ GrantFirstAdministrator(q, member[m].who, member)
         /\ Finish(q, m, key)
    /\ Done(q)
    /\ UNCHANGED <<circle, member, code, sealed, world, setup, budget>>

Authenticate(q, key) ==
    /\ At(q, "session") /\ StillAdmits(q)
    /\ \E m \in MembersWith(request[q].circle, Identity(q, 0)) :
         /\ member[m].live
         /\ Finish(q, m, key)
    /\ Done(q)
    /\ UNCHANGED <<circle, member, code, granted, sealed, world, setup, budget>>

-----------------------------------------------------------------------------
(* A member's request: authenticated by a token or a session, then served. *)

Speaks(m) == member[m].live /\ Live(member[m].circle)

(* createInvite asks about weak providers on the pool, and Update reads the
   circle there, before their transactions: both reads are this step's.    *)
Calling(m, way) ==
    LET c == member[m].circle IN
    [at |-> "call", person |-> None, via |-> None, circle |-> c, code |-> 0, facts |-> {},
     seen |-> AcceptsWeakProvider(c), sweeps |-> circle[c].sweeps,
     actor |-> m, rank |-> member[m].role, way |-> way]

Call(q) ==
    /\ request[q] = Idle
    /\ \E m \in MemberIds, way \in {"session", "token"} :
         /\ Speaks(m)
         /\ IF way = "token" THEN \E t \in token : t.member = m /\ t.live ELSE member[m].kind = "human"
         /\ request' = [request EXCEPT ![q] = Calling(m, way)]
    /\ UNCHANGED <<rows, world, setup, budget>>

(* The permission is the role's at authentication; below the capability
   floor no token reaches.                                                 *)
May(q, rank)      == At(q, "call") /\ request[q].rank >= rank
MayInPerson(q, rank) == May(q, rank) /\ request[q].way = "session"
Writing == writes < MaxWrites /\ writes' = writes + 1 /\ UNCHANGED turns
Turning == writes < MaxWrites /\ writes' = writes + 1 /\ turns < MaxTurns /\ turns' = turns + 1

InCircle(q) == {m \in MemberIds : member[m].kind # "none" /\ member[m].circle = request[q].circle}

(* clamp: a weak circle's invite admits one; a token's one, and no officer. *)
Invite(q, role, max) ==
    LET byToken == request[q].way = "token" IN
    [circle |-> request[q].circle, kind |-> "invite", live |-> TRUE, uses |-> 0,
     max  |-> IF request[q].seen \/ byToken THEN 1 ELSE max,
     role |-> IF byToken /\ role >= Officer THEN Member ELSE role]

(* Mutant: an invite may grant the role above every other. *)
MintInviteOfAnyRole(q) ==
    /\ May(q, Officer) /\ Writing
    /\ \E k \in CodeIds, role \in Named, max \in 1..2 :
         NewCode(k) /\ code' = [code EXCEPT ![k] = Invite(q, role, max)]
    /\ Done(q)
    /\ UNCHANGED <<circle, member, token, granted, sealed, world, setup>>

MintInvite(q) ==
    /\ May(q, Officer) /\ Writing
    /\ \E k \in CodeIds, role \in Named \ {Owner}, max \in 1..2 :
         NewCode(k) /\ code' = [code EXCEPT ![k] = Invite(q, role, max)]
    /\ Done(q)
    /\ UNCHANGED <<circle, member, token, granted, sealed, world, setup>>

RevokeInvite(q) ==
    /\ MayInPerson(q, Officer) /\ Writing
    /\ \E k \in CodeIds :
         /\ code[k].kind = "invite" /\ code[k].circle = request[q].circle /\ code[k].live
         /\ code' = [code EXCEPT ![k].live = FALSE]
    /\ Done(q)
    /\ UNCHANGED <<circle, member, token, granted, sealed, world, setup>>

(* Mutant: rows that are revoked count as owners too. *)
AnotherOwnerOfAnyKind(m) ==
    \E n \in MemberIds \ {m} : member[n].circle = member[m].circle /\ member[n].role = Owner

(* requireAnotherOwner. *)
AnotherOwner(m) ==
    \E n \in MemberIds \ {m} :
      member[n].circle = member[m].circle /\ member[n].role = Owner /\ member[n].live

(* Mutant: the permission the request was let in with decides alone. *)
MayMoveByPermission(q, m, role) == request[q].rank >= role

(* refuseGrantAboveOwnRole, refuseChangingYourOwnRole and
   refuseChangingARoleAboveYourOwn read the actor's row again, and do not
   look at whether it has been revoked.                                    *)
MayMove(q, m, role) ==
    LET held == member[request[q].actor].role IN
    /\ held >= role /\ held >= member[m].role
    /\ m # request[q].actor

ChangeRole(q) ==
    /\ MayInPerson(q, Officer) /\ Writing
    /\ \E m \in InCircle(q), role \in Named :
         /\ role # member[m].role /\ MayMove(q, m, role)
         /\ member[m].role = Owner => AnotherOwner(m)
         /\ member' = [member EXCEPT ![m].role = role]
    /\ Done(q)
    /\ UNCHANGED <<circle, code, token, granted, sealed, world, setup>>

WeakMember(m) == member[m].kind = "human" /\ member[m].who.via \notin Verifiable

Outstanding(c) ==
    {k \in CodeIds : code[k].kind = "invite" /\ code[k].circle = c /\ code[k].live
                      /\ code[k].uses < code[k].max}

(* What the revocation of a weak member closes, if its circle says so. *)
Closing(m) ==
    IF WeakMember(m) /\ circle[member[m].circle].sweeps THEN Outstanding(member[m].circle) ELSE {}

Shut(doors) == [k \in CodeIds |-> IF k \in doors THEN [code[k] EXCEPT !.live = FALSE] ELSE code[k]]

(* Mutant: the weak revocation leaves the invites to the officers. *)
RevokeOnly(q) ==
    /\ MayInPerson(q, Officer) /\ Writing /\ Live(request[q].circle)
    /\ \E m \in InCircle(q) :
         /\ member[m].live
         /\ member[m].role = Owner => AnotherOwner(m)
         /\ member' = [member EXCEPT ![m].live = FALSE]
         /\ sealed' = sealed \cup Closing(m)
    /\ Done(q)
    /\ UNCHANGED <<circle, code, token, granted, world, setup>>

Revoke(q) ==
    /\ MayInPerson(q, Officer) /\ Writing /\ Live(request[q].circle)
    /\ \E m \in InCircle(q) :
         /\ member[m].live
         /\ member[m].role = Owner => AnotherOwner(m)
         /\ member' = [member EXCEPT ![m].live = FALSE]
         /\ code' = Shut(Closing(m))
         /\ sealed' = sealed \cup Closing(m)
    /\ Done(q)
    /\ UNCHANGED <<circle, token, granted, world, setup>>

Reinstate(q) ==
    /\ MayInPerson(q, Officer) /\ Writing
    /\ \E m \in InCircle(q) : ~member[m].live /\ member' = [member EXCEPT ![m].live = TRUE]
    /\ Done(q)
    /\ UNCHANGED <<circle, code, token, granted, sealed, world, setup>>

Service(c, role, h) ==
    [circle |-> c, kind |-> "service", who |-> None, role |-> role, live |-> TRUE, code |-> 0, answers |-> h]

(* A bot answers to a live human and is never created an owner. *)
CreateService(q) ==
    /\ MayInPerson(q, Owner) /\ Writing
    /\ Live(request[q].circle) /\ Cardinality(token) < MaxTokens
    /\ \E m \in MemberIds, h \in InCircle(q), role \in Named \ {Owner} :
         /\ member[h].live /\ member[h].kind = "human"
         /\ NewMember(m)
         /\ member' = [member EXCEPT ![m] = Service(request[q].circle, role, h)]
         /\ token' = token \cup {Minted(m, None, <<>>)}
    /\ Done(q)
    /\ UNCHANGED <<circle, code, granted, sealed, world, setup>>

(* Only a token's own membership revokes it. *)
RevokeToken(q) ==
    /\ At(q, "call") /\ Writing
    /\ \E t \in token :
         /\ t.member = request[q].actor /\ t.live
         /\ token' = (token \ {t}) \cup {[t EXCEPT !.live = FALSE]}
    /\ Done(q)
    /\ UNCHANGED <<circle, member, code, granted, sealed, world, setup>>

-----------------------------------------------------------------------------
(* The circle itself. *)

ReplaceProviders(c, accepts, gate) ==
    /\ Live(c) /\ accepts \subseteq enabled
    /\ gate # None => accepts \cap Gated # {}
    /\ circle' = [circle EXCEPT ![c].accepts = accepts, ![c].gate = gate]

SetProviders(q) ==
    /\ MayInPerson(q, Owner) /\ Writing
    /\ \E accepts \in SUBSET Providers, gate \in Guilds \cup {None} :
         ReplaceProviders(request[q].circle, accepts, gate)
    /\ Done(q)
    /\ UNCHANGED <<member, code, token, granted, sealed, world, setup>>

(* Update reads the circle on the pool and writes every column back, the
   ones it was not asked to change as it read them.  The switch for
   invalidation asks for the owner's permission, the rest for an officer's. *)
UpdateCircle(q) ==
    /\ MayInPerson(q, Officer) /\ Live(request[q].circle) /\ Writing
    /\ \E sweeps \in BOOLEAN :
         /\ sweeps # request[q].sweeps => request[q].rank >= Owner
         /\ circle' = [circle EXCEPT ![request[q].circle].sweeps = sweeps]
    /\ Done(q)
    /\ UNCHANGED <<member, code, token, granted, sealed, world, setup>>

DeleteCircle(q) ==
    /\ MayInPerson(q, Owner) /\ Live(request[q].circle) /\ Writing
    /\ circle' = [circle EXCEPT ![request[q].circle].stage = "gone"]
    /\ Done(q)
    /\ UNCHANGED <<member, code, token, granted, sealed, world, setup>>

-----------------------------------------------------------------------------
(* The operator: first-run setup, the command line, the instance page. *)

MintOwnerGrant(c) == \E k \in CodeIds : NewCode(k) /\ code' = [code EXCEPT ![k] = OwnerGrant(c)]

(* `circle create` prints an owner code for what it made; the API's
   createCircle mints none.  Two transactions, and two of the writes.  (The
   command's flag for a weak provider is a SetProviders that follows.)     *)
CreateCircle(c) ==
    /\ circle[c].stage = "none"
    /\ writes + 2 <= MaxWrites /\ writes' = writes + 2 /\ turns < MaxTurns /\ turns' = turns + 1
    /\ circle' = [circle EXCEPT ![c] = NewCircle]
    /\ MintOwnerGrant(c) \/ UNCHANGED code
    /\ UNCHANGED <<member, token, granted, sealed, world, request, setup>>

(* instancegrant.Decide: a decision equal to the last is refused. *)
Decide(who) ==
    /\ Turning /\ \E m \in MemberIds : member[m].kind = "human" /\ member[m].who = who
    /\ granted' = IF who \in granted THEN granted \ {who} ELSE granted \cup {who}
    /\ UNCHANGED <<circle, member, code, token, sealed, world, request, setup>>

SwitchProvider(v) ==
    /\ Turning
    /\ enabled' = IF v \in enabled THEN enabled \ {v} ELSE enabled \cup {v}
    /\ UNCHANGED <<rows, guild, request, setup>>

MoveGuild(p, g) ==
    /\ Turning
    /\ guild' = [guild EXCEPT ![p] = IF g \in @ THEN @ \ {g} ELSE @ \cup {g}]
    /\ UNCHANGED <<rows, enabled, request, setup>>

(* Run: one at a time in a process, its steps in no common transaction.  The
   first circle when there is none, otherwise one that the request names.   *)
SetupDescribe ==
    /\ setup = NoSetup /\ ~AdministratorExists(member) /\ Turning
    /\ setup' = Running(IF \E c \in Circles : Live(c) THEN "named" ELSE "first", None, {}, None)
    /\ UNCHANGED <<rows, world, request>>

SetupCircle(c) ==
    /\ \/ /\ setup.at = "first" /\ \A d \in Circles : ~Live(d)
          /\ circle[c].stage = "none"
          /\ circle' = [circle EXCEPT ![c] = NewCircle]
       \/ /\ setup.at = "named" /\ Live(c)
          /\ UNCHANGED circle
    /\ setup' = Running("accept", c, circle'[c].accepts, circle'[c].gate)
    /\ UNCHANGED <<member, code, token, granted, sealed, world, request, budget>>

(* acceptProvider adds to the set it read, and replaces the set. *)
SetupAccept(v) ==
    /\ setup.at = "accept"
    /\ IF v \in setup.accepts THEN UNCHANGED circle
       ELSE ReplaceProviders(setup.circle, setup.accepts \cup {v}, setup.gate)
    /\ setup' = Running("grant", setup.circle, {}, None)
    /\ UNCHANGED <<member, code, token, granted, sealed, world, request, budget>>

SetupGrant ==
    /\ setup.at = "grant" /\ MintOwnerGrant(setup.circle)
    /\ setup' = NoSetup
    /\ UNCHANGED <<circle, member, token, granted, sealed, world, request, budget>>

SetupFail ==
    /\ setup # NoSetup
    /\ setup' = NoSetup
    /\ UNCHANGED <<rows, world, request, budget>>

-----------------------------------------------------------------------------
Doors(q) ==
    \/ BeginJoin(q) \/ BeginSession(q)
    \/ \E key \in Keys : JoinNew(q, key) \/ JoinAgain(q, key) \/ Authenticate(q, key)

InviteCalls(q) == MintInvite(q) \/ RevokeInvite(q)
MemberCalls(q) == ChangeRole(q) \/ Revoke(q) \/ Reinstate(q) \/ CreateService(q)
CircleCalls(q) == SetProviders(q) \/ UpdateCircle(q) \/ DeleteCircle(q)

Calls(q) == Call(q) \/ InviteCalls(q) \/ MemberCalls(q) \/ CircleCalls(q) \/ RevokeToken(q)

Wizard ==
    \/ SetupDescribe \/ SetupGrant \/ SetupFail
    \/ \E c \in Circles : SetupCircle(c)
    \/ \E v \in Providers : SetupAccept(v)

Operator ==
    \/ \E c \in Circles : CreateCircle(c)
    \/ \E m \in MemberIds : Decide(member[m].who)
    \/ \E v \in Providers : SwitchProvider(v)
    \/ Wizard

Next ==
    \/ \E q \in Requests : Doors(q) \/ Calls(q) \/ Abandon(q)
    \/ Operator
    \/ \E p \in People, g \in Guilds : MoveGuild(p, g)

Spec == Init /\ [][Next]_vars

-----------------------------------------------------------------------------
Who      == [via : Providers, subject : People \cup MemberIds]
Places   == Circles \cup {None}
MemberRow == [circle : Places, kind : {"none", "human", "service"}, who : Who \cup {None}, role : Roles,
              live : BOOLEAN, code : 0..MaxCodes, answers : 0..MaxMembers]
CodeRow   == [circle : Places, kind : {"none", "invite", "grant"}, role : Roles,
              max : 0..2, uses : 0..2, live : BOOLEAN]

(* Every variable holds a value of the schema; an invite never grants owner. *)
TypeOK ==
    /\ circle \in [Circles -> [stage : {"none", "live", "gone"}, accepts : SUBSET Providers,
                               gate : Guilds \cup {None}, sweeps : BOOLEAN]]
    /\ member \in [MemberIds -> MemberRow] /\ code \in [CodeIds -> CodeRow]
    /\ \A k \in CodeIds : code[k].kind = "invite" => code[k].role # Owner
    /\ \A t \in token : /\ t.n \in 1..MaxTokens /\ t.member \in MemberIds
                        /\ t.key \in Keys \cup {None} /\ t.live \in BOOLEAN
    /\ granted \subseteq Who /\ sealed \subseteq CodeIds
    /\ enabled \subseteq Providers /\ guild \in [People -> SUBSET Guilds]
    /\ writes \in 0..MaxWrites /\ turns \in 0..MaxTurns

(* invite.Redeem: whatever requests raced for it, a code has admitted exactly
   as many members as it has uses, and no more than it allows.             *)
UsesAreCounted ==
    \A k \in CodeIds :
      /\ code[k].uses <= code[k].max
      /\ code[k].kind = "invite" =>
           code[k].uses = Cardinality({m \in MemberIds : member[m].code = k})

(* requireAnotherOwner: a circle that has had an owner has one who is not
   revoked, whatever owners did to each other at once.                     *)
AlwaysAnOwner ==
    \A m \in MemberIds : member[m].role = Owner =>
      \E n \in MemberIds : /\ member[n].circle = member[m].circle
                           /\ member[n].role = Owner /\ member[n].live

(* The unique index that is the revocation mechanism: a person a provider can
   recognise has one membership in a circle, revoked or not, for ever.     *)
OneMembershipEach ==
    \A m, n \in MemberIds :
      ( /\ member[m].kind = "human" /\ member[n].kind = "human"
        /\ member[m].circle = member[n].circle /\ member[m].who = member[n].who ) => m = n

(* finish: as long as a door remembers an Idempotency-Key it has minted one
   token for it, so a retry does not add a device.                         *)
OneTokenPerKey ==
    \A t, u \in token : t.member = u.member /\ t.key = u.key /\ t.key # None => t = u

(* The doors, tried again by the same person or under the same key, alone or
   at once with themselves, add neither a member nor a device.             *)
ARetryAddsNothing == OneMembershipEach /\ OneTokenPerKey

(* join.go:71-85: a token is handed out at a door only if, at that instant
   and by the rows as they are, the membership is live, its circle exists
   and takes the provider, the facts the provider gave meet the gate, and the
   identity is not blocked.                                                *)
AdmittedByTheLiveRules ==
    [][\A t \in token' : t.key # None /\ (\A u \in token : u.member = t.member => u.n < t.n) =>
         LET m == member'[t.member] IN
         /\ m.live /\ Takes(m.circle, m.who.via) /\ m.who.subject \notin Blocked
         /\ \E q \in Requests : /\ At(q, "join") \/ At(q, "session")
                                /\ request'[q] = Idle
                                /\ request[q].circle = m.circle /\ request[q].via = m.who.via
                                /\ Passes(GateOf(m.circle, m.who.via), request[q].facts)]_vars

(* revoke.go:22-25: an invite that was out when a weak member was revoked,
   with the circle's switch on, admits nobody from then on.                *)
SealedCodesStaySealed ==
    [][\A m \in MemberIds : member'[m].code \in sealed => member[m].code = member'[m].code]_vars

(* membership.go:411-428: somebody becomes an owner by redeeming an owner
   grant, or because another member who is an owner at that instant says so. *)
OwnershipIsHandedOn ==
    [][\A m \in MemberIds : member'[m].role = Owner /\ member[m].role # Owner =>
         \/ \E k \in CodeIds : /\ code[k].kind = "grant" /\ code[k].circle = member'[m].circle
                               /\ code'[k].uses = code[k].uses + 1
         \/ \E q \in Requests : /\ At(q, "call") /\ request'[q] = Idle
                                /\ request[q].actor # m
                                /\ member[request[q].actor].role = Owner]_vars

(* grantFirstAdministrator: a redemption makes an administrator only of an
   instance that nobody administers, so two codes do not make two.         *)
OneFirstAdministrator ==
    [][(\E q \in Requests : At(q, "join") /\ request'[q] = Idle) /\ granted' # granted
         => /\ ~AdministratorExists(member)
            /\ \E who \in Who : granted' \ granted = {who} /\ CanAuthenticate(who, member')]_vars

(* service_member.go:45-46: the token of a bot dies when the membership of the
   human it answers to is revoked.                                         *)
BotDiesWithItsOwner ==
    [][\A q \in Requests :
         request[q] = Idle /\ request'[q].at = "call" =>
           LET m == member[request'[q].actor] IN
           m.kind = "service" => member[m.answers].live]_vars
=============================================================================
