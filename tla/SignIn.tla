------------------------------ MODULE SignIn ------------------------------
(***************************************************************************)
(* Proving who you are in a browser: the OAuth round trip and its ticket   *)
(* (internal/identity), the signed session cookie (internal/auth), the     *)
(* step-up that renews its proof, sign-out, and the sweep of all the rows  *)
(* these leave behind.  What a circle then asks of the person is           *)
(* Admission's; here a membership is live or revoked.                      *)
(*                                                                         *)
(* A session is a signed value that nothing stores, so every cookie ever   *)
(* issued may be presented again, also after the browser dropped it.       *)
(***************************************************************************)
EXTENDS Integers, FiniteSets

CONSTANTS People, Requests,
          FlowTTL,      \* AuthFlowTTL, ten minutes
          TicketTTL,    \* two minutes, a CHECK of the table
          Sensitive,    \* the strict step-up window, five minutes
          SessionTTL,   \* DefaultSessionTTL, twelve hours
          Grace,        \* sweep.Grace, a day
          MaxNow,       \* bound: the clock
          MaxFlows,     \* bound: auth_flow rows, and so tickets
          MaxSessions,  \* bound: sessions
          MaxChanges,   \* bound: revocations and provider switches
          None

ASSUME SignInAssumption ==
    /\ {FlowTTL, TicketTTL, Sensitive, SessionTTL, Grace} \subseteq Nat \ {0}
    /\ {MaxNow, MaxFlows, MaxSessions, MaxChanges} \subseteq Nat
    /\ None \notin People

Flows    == 1..MaxFlows
Sessions == 1..MaxSessions

VARIABLES
    now,
    flow,       \* auth_flow rows
    ticket,     \* credential_ticket rows, by the flow each came from
    cookies,    \* every session value issued, with the ticket that proved it
    signedOut,  \* session_revocation rows
    ended,      \* history: the sessions somebody signed out of
    revoked,    \* people whose membership is revoked
    enabled,    \* whether the instance has the provider enabled
    request,    \* what each request in the server is doing
    changes     \* how many so far

stored == <<flow, ticket, cookies, signedOut, ended>>
vars   == <<now, stored, revoked, enabled, request, changes>>

(* What a request is doing: its stage, the authorization it is about, whose
   proof it holds, the cookie it came with, and when.                      *)
Doing(stage, f, p, c, since) == [at |-> stage, flow |-> f, who |-> p, cookie |-> c, since |-> since]

Idle     == Doing("idle", 0, None, None, 0)
NoFlow   == [stage |-> "none", expires |-> 0]
NoTicket == [stage |-> "none", who |-> None, expires |-> 0]
Newest   == Cardinality({c.sid : c \in cookies})

At(q, stage) == request[q].at = stage
Done(q)      == request' = [request EXCEPT ![q] = Idle]

Init ==
    /\ now = 0
    /\ flow = [f \in Flows |-> NoFlow] /\ ticket = [f \in Flows |-> NoTicket]
    /\ cookies = {} /\ signedOut = {} /\ ended = {} /\ revoked = {} /\ enabled = TRUE
    /\ request = [q \in Requests |-> Idle]
    /\ changes = 0

(* Every refusal after the first write of a request, and every lost request. *)
Abandon(q) ==
    /\ request[q] # Idle /\ Done(q)
    /\ UNCHANGED <<now, stored, revoked, enabled, changes>>

-----------------------------------------------------------------------------
(* The authorization: createAuthorizationURL, the callback, the ticket. *)

CreateAuthorizationURL(f) ==
    /\ enabled /\ flow[f] = NoFlow /\ \A g \in Flows : flow[g] = NoFlow => f <= g
    /\ flow' = [flow EXCEPT ![f] = [stage |-> "open", expires |-> now + FlowTTL]]
    /\ UNCHANGED <<now, ticket, cookies, signedOut, ended, revoked, enabled, request, changes>>

(* Mutant: the update does not ask whether the state was consumed. *)
ConsumeAuthFlowAgain(q, f, p) ==
    /\ request[q] = Idle /\ flow[f].stage \in {"open", "used"}
    /\ flow' = [flow EXCEPT ![f].stage = "used"]
    /\ request' = IF now < flow[f].expires /\ enabled
                  THEN [request EXCEPT ![q] = Doing("exchange", f, p, None, 0)]
                  ELSE request
    /\ UNCHANGED <<now, ticket, cookies, signedOut, ended, revoked, enabled, changes>>

(* The state is spent before anything is asked of it; then expiry and the
   provider, and the exchange finds out whose browser this is.             *)
ConsumeAuthFlow(q, f, p) ==
    /\ request[q] = Idle /\ flow[f].stage = "open"
    /\ flow' = [flow EXCEPT ![f].stage = "used"]
    /\ request' = IF now < flow[f].expires /\ enabled
                  THEN [request EXCEPT ![q] = Doing("exchange", f, p, None, 0)]
                  ELSE request
    /\ UNCHANGED <<now, ticket, cookies, signedOut, ended, revoked, enabled, changes>>

(* The ticket is dated when it is minted, however long the exchange took. *)
MintTicket(q) ==
    /\ At(q, "exchange")
    /\ ticket' = [ticket EXCEPT ![request[q].flow] =
           [stage |-> "live", who |-> request[q].who, expires |-> now + TicketTTL]]
    /\ Done(q)
    /\ UNCHANGED <<now, flow, cookies, signedOut, ended, revoked, enabled, changes>>

-----------------------------------------------------------------------------
(* What a session may do: Decode, CountSessionRevocations, the membership. *)

Accepted(c) ==
    /\ now < c.expires
    /\ \A row \in signedOut : row.sid # c.sid
    /\ c.who \notin revoked

(* A sensitive request asks for this too; the routine tier differs in its
   window only.                                                            *)
SteppedUpWithin(c, window) == now - c.stepped < window

-----------------------------------------------------------------------------
(* Redeeming a ticket, to sign in (cookie = None) or to step a session up.
   The request reads the clock, the provider and the ticket; the ticket is
   consumed by a conditional update after that.                            *)

BeginRedeem(q, f, c) ==
    /\ request[q] = Idle /\ enabled
    /\ ticket[f].stage = "live" /\ now < ticket[f].expires
    /\ c # None => Accepted(c)
    /\ request' = [request EXCEPT ![q] =
           Doing("redeem", f, None, c, IF c = None THEN 0 ELSE now)]
    /\ UNCHANGED <<now, stored, revoked, enabled, changes>>

(* The request once it has spent its ticket. *)
Holding(r) == Doing("proved", r.flow, ticket[r.flow].who, r.cookie, r.since)

(* Mutant: the read before it has already said that the ticket is live. *)
ConsumeTicketAsRead(q) ==
    /\ At(q, "redeem") /\ ticket[request[q].flow].stage # "none"
    /\ ticket' = [ticket EXCEPT ![request[q].flow].stage = "used"]
    /\ request' = [request EXCEPT ![q] = Holding(request[q])]
    /\ UNCHANGED <<now, flow, cookies, signedOut, ended, revoked, enabled, changes>>

(* Mutant: the ticket is read for its person and left as it is. *)
ConsumeTicketUnstamped(q) ==
    /\ At(q, "redeem") /\ ticket[request[q].flow].stage = "live"
    /\ request' = [request EXCEPT ![q] = Holding(request[q])]
    /\ UNCHANGED <<now, stored, revoked, enabled, changes>>

(* ConsumeTicket: one update that asks whether it is unconsumed. *)
ConsumeTicket(q) ==
    /\ At(q, "redeem") /\ ticket[request[q].flow].stage = "live"
    /\ ticket' = [ticket EXCEPT ![request[q].flow].stage = "used"]
    /\ request' = [request EXCEPT ![q] = Holding(request[q])]
    /\ UNCHANGED <<now, flow, cookies, signedOut, ended, revoked, enabled, changes>>

(* The door's transaction, and after it sessionCookie, which reads the clock. *)
SignIn(q) ==
    /\ At(q, "proved") /\ request[q].cookie = None
    /\ request[q].who \notin revoked /\ enabled /\ Newest < MaxSessions
    /\ cookies' = cookies \cup {[sid |-> Newest + 1, who |-> request[q].who, expires |-> now + SessionTTL,
                                 stepped |-> now, via |-> request[q].flow]}
    /\ Done(q)
    /\ UNCHANGED <<now, flow, ticket, signedOut, ended, revoked, enabled, changes>>

(* Mutants: a new lifetime, the clock at the end, anybody's proof. *)
RenewedWithLifetime(q) == [request[q].cookie EXCEPT !.stepped = request[q].since, !.via = request[q].flow,
                                                    !.expires = request[q].since + SessionTTL]
RenewedAtTheEnd(q)     == [request[q].cookie EXCEPT !.stepped = now, !.via = request[q].flow]
IsThisSessionsAnyone(q) == TRUE

(* The same session to the same end, with the proof dated when the request
   came in.                                                                *)
Renewed(q) == [request[q].cookie EXCEPT !.stepped = request[q].since, !.via = request[q].flow]

(* notThisSession: the credential has to be the session's own person's. *)
IsThisSessions(q) == request[q].who = request[q].cookie.who

StepUp(q) ==
    /\ At(q, "proved") /\ request[q].cookie # None
    /\ IsThisSessions(q) /\ request[q].cookie.who \notin revoked /\ enabled
    /\ cookies' = cookies \cup {Renewed(q)}
    /\ Done(q)
    /\ UNCHANGED <<now, flow, ticket, signedOut, ended, revoked, enabled, changes>>

BeginSignOut(q, c) ==
    /\ request[q] = Idle /\ Accepted(c)
    /\ request' = [request EXCEPT ![q] = Doing("signout", 0, None, c, 0)]
    /\ UNCHANGED <<now, stored, revoked, enabled, changes>>

(* Mutant: the row is written without the session's expiry. *)
SignOutUndated(q) ==
    LET c == request[q].cookie IN
    /\ At(q, "signout")
    /\ signedOut' = IF \E row \in signedOut : row.sid = c.sid THEN signedOut
                    ELSE signedOut \cup {[sid |-> c.sid, expires |-> 0]}
    /\ ended' = ended \cup {c.sid}
    /\ Done(q)
    /\ UNCHANGED <<now, flow, ticket, cookies, revoked, enabled, changes>>

(* RevokeSession; a second sign-out leaves the row it finds. *)
SignOut(q) ==
    LET c == request[q].cookie IN
    /\ At(q, "signout")
    /\ signedOut' = IF \E row \in signedOut : row.sid = c.sid THEN signedOut
                    ELSE signedOut \cup {[sid |-> c.sid, expires |-> c.expires]}
    /\ ended' = ended \cup {c.sid}
    /\ Done(q)
    /\ UNCHANGED <<now, flow, ticket, cookies, revoked, enabled, changes>>

-----------------------------------------------------------------------------
Tick ==
    /\ now < MaxNow /\ now' = now + 1
    /\ UNCHANGED <<stored, revoked, enabled, request, changes>>

Outdated(row) == row.expires < now - Grace

(* One transaction over the tables. *)
Sweep ==
    /\ flow' = [f \in Flows |-> IF Outdated(flow[f]) /\ flow[f].stage # "none"
                              THEN [flow[f] EXCEPT !.stage = "gone"] ELSE flow[f]]
    /\ ticket' = [f \in Flows |-> IF Outdated(ticket[f]) /\ ticket[f].stage # "none"
                                  THEN [ticket[f] EXCEPT !.stage = "gone"] ELSE ticket[f]]
    /\ signedOut' = {row \in signedOut : ~Outdated(row)}
    /\ UNCHANGED <<now, cookies, ended, revoked, enabled, request, changes>>

Change == changes < MaxChanges /\ changes' = changes + 1

(* An officer's, and the administrator's; both modelled in Admission. *)
ChangeMember(p) ==
    /\ Change
    /\ revoked' = IF p \in revoked THEN revoked \ {p} ELSE revoked \cup {p}
    /\ UNCHANGED <<now, stored, enabled, request>>

ChangeProvider ==
    /\ Change /\ enabled' = ~enabled
    /\ UNCHANGED <<now, stored, revoked, request>>

Callback(q)   == MintTicket(q) \/ \E f \in Flows, p \in People : ConsumeAuthFlow(q, f, p)
Redemption(q) == ConsumeTicket(q) \/ \E f \in Flows, c \in cookies \cup {None} : BeginRedeem(q, f, c)

Next ==
    \/ \E f \in Flows : CreateAuthorizationURL(f)
    \/ \E q \in Requests :
         \/ Callback(q) \/ Redemption(q) \/ SignIn(q) \/ StepUp(q)
         \/ \E c \in cookies : BeginSignOut(q, c)
         \/ SignOut(q) \/ Abandon(q)
    \/ Tick \/ Sweep \/ ChangeProvider
    \/ \E p \in People : ChangeMember(p)

Spec == Init /\ [][Next]_vars

-----------------------------------------------------------------------------
Stages == {"none", "open", "live", "used", "gone"}
Cookie == [sid : Sessions, who : People, expires : 0..MaxNow + SessionTTL, stepped : 0..MaxNow, via : Flows]

(* Tables, cookies and requests hold what the code puts there; a request that
   has redeemed a ticket knows whose it was.                               *)
TypeOK ==
    /\ now \in 0..MaxNow /\ enabled \in BOOLEAN /\ revoked \subseteq People
    /\ flow \in [Flows -> [stage : Stages, expires : 0..MaxNow + FlowTTL]]
    /\ ticket \in [Flows -> [stage : Stages, who : People \cup {None},
                             expires : 0..MaxNow + TicketTTL]]
    /\ cookies \subseteq Cookie /\ ended \subseteq Sessions
    /\ signedOut \subseteq [sid : Sessions, expires : 0..MaxNow + SessionTTL]
    /\ \A q \in Requests : At(q, "proved") =>
         /\ request[q].flow \in Flows
         /\ request[q].who = ticket[request[q].flow].who /\ ticket[request[q].flow].stage # "live"

(* service.go:309-345 and flow.go:246-262: one authorization is one ticket,
   and one ticket is one proof, whichever requests raced with it.          *)
OneProofPerAuthorization ==
    /\ \A c, d \in cookies : c.via = d.via => c = d
    /\ \A q \in Requests : At(q, "proved") => \A c \in cookies : c.via # request[q].flow
    /\ \A q \in Requests : At(q, "exchange") => ticket[request[q].flow].stage = "none"

(* stepup.go:58-62: the proof a session carries was given by the person whose
   membership it is, not by somebody else holding a good credential.       *)
ProofIsTheMembers == \A c \in cookies : ticket[c.via].who = c.who

(* api/stepup.go:55-62: however often it is stepped up, a session ends
   SessionTTL after somebody signed in, and all of its values agree on when. *)
SessionsAreBounded ==
    \A c \in cookies :
      /\ \A d \in cookies : c.sid = d.sid => c.expires = d.expires
      /\ c.stepped < c.expires

(* stepup.go:158-161 with the ticket's two minutes: a stepped-up session that
   is let in where a fresh proof is asked for was proved by a ticket that was
   good less than the window ago, however slow the step-up itself was.     *)
StepUpIsDated ==
    \A c, d \in cookies :
      ( /\ c.sid = d.sid /\ c.stepped < d.stepped
        /\ Accepted(d) /\ SteppedUpWithin(d, Sensitive) )
      => now - (ticket[d.via].expires - 1) < Sensitive

(* api/stepup.go:55-62 and stepup.go:158-161: however often and however slowly
   it is stepped up, a session ends when it was to end, and is fresh for as
   long as the proof is.                                                   *)
SessionsAreDated == SessionsAreBounded /\ StepUpIsDated

(* session_revocation.sql and authenticator.go:241-265: once a sign-out has
   been recorded, no value of that session is accepted again: not a copy, not
   one that a step-up in flight issues later, and not after the sweep.     *)
SignedOutStaysOut == \A c \in cookies : c.sid \in ended => ~Accepted(c)
=============================================================================
