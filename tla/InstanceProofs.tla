--------------------------- MODULE InstanceProofs ---------------------------
(***************************************************************************)
(* Theorems of the parts of an instance as MCInstance puts them together.  *)
(* First the way in, SignIn, for every number of people, requests, flows   *)
(* and sessions, every lifetime and every bound; then that what a part     *)
(* promises it promises in the whole too, for every value of what          *)
(* MCInstance leaves open; and three parts whose proofs are short enough   *)
(* to stand here: the ids, the key set and the bucket of the rate limiter. *)
(***************************************************************************)
EXTENDS MCInstance, Sequences, TLAPS, FiniteSetTheorems

-----------------------------------------------------------------------------
(* The way in.  Its inductive invariant: a ticket can be spent once, so a
   request which has spent one is the only one that may issue a cookie for
   it; and a value of a session keeps the end and the person of the first. *)
Sids     == {c.sid : c \in cookies}
Spent(f) == ticket[f].stage \in {"used", "gone"}

(* A request that redeems, or has redeemed, a ticket for a session. *)
SteppingUp(q) == (At(q, "redeem") \/ At(q, "proved")) /\ request[q].cookie # None

Task == [at : {"idle", "exchange", "redeem", "proved", "signout"}, flow : Flows \cup {0},
          who : People \cup {None}, cookie : cookies \cup {None}, since : 0..now]

RequestsKnow ==
    /\ request \in [Requests -> Task]
    /\ \A q \in Requests :
         /\ At(q, "exchange") => /\ request[q].flow \in Flows /\ request[q].who \in People
                                 /\ ticket[request[q].flow].stage = "none"
                                 /\ flow[request[q].flow].stage \in {"used", "gone"}
         /\ At(q, "redeem") => request[q].flow \in Flows /\ ticket[request[q].flow].stage # "none"
         /\ At(q, "proved") => request[q].flow \in Flows /\ Spent(request[q].flow)
         /\ At(q, "signout") => request[q].cookie \in cookies

StepUpsAreTimely ==
    \A q \in Requests : SteppingUp(q) =>
      /\ request[q].since < request[q].cookie.expires
      /\ request[q].since < ticket[request[q].flow].expires

TicketsFollow ==
    \A f \in Flows :
      /\ flow[f].stage \in {"none", "open"} => ticket[f].stage = "none"
      /\ ticket[f].stage # "none" => ticket[f].who \in People

(* No two requests exchange one authorization, or have spent one ticket. *)
OneEach ==
    \A q, r \in Requests : q # r =>
      /\ (At(q, "exchange") /\ At(r, "exchange")) => request[q].flow # request[r].flow
      /\ (At(q, "proved") /\ At(r, "proved")) => request[q].flow # request[r].flow

CookiesKnow == \A c \in cookies : Spent(c.via) /\ c.stepped <= now

SessionsAgree ==
    /\ \E n \in 0..MaxSessions : Sids = 1..n
    /\ \A c, d \in cookies : c.sid = d.sid => c.who = d.who /\ c.expires = d.expires

SignOutsKnow ==
    /\ ended \subseteq Sids /\ \A entry \in signedOut : entry.sid \in Sids
    /\ \A c \in cookies :
         /\ \A entry \in signedOut : entry.sid = c.sid => entry.expires = c.expires
         /\ c.sid \in ended => c.expires <= now \/ \E entry \in signedOut : entry.sid = c.sid

(* A value dated after its ticket's end is a sign-in's: it is the first of its
   session, and every step-up came in after it.                            *)
ProofsAreDated ==
    \A d \in cookies :
      \/ d.stepped < ticket[d.via].expires
      \/ /\ \A c \in cookies : c.sid = d.sid => d.stepped <= c.stepped
         /\ \A q \in Requests : (SteppingUp(q) /\ request[q].cookie.sid = d.sid) => d.stepped <= request[q].since

IInv ==
    /\ TypeOK /\ RequestsKnow /\ StepUpsAreTimely /\ TicketsFollow /\ OneEach
    /\ CookiesKnow /\ SessionsAgree /\ SignOutsKnow /\ ProofsAreDated
    /\ OneProofPerAuthorization /\ ProofIsTheMembers /\ SessionsAreBounded

-----------------------------------------------------------------------------
(* The lifetimes and the bounds are numbers. *)
LEMMA Numbers ==
    /\ FlowTTL \in Nat /\ TicketTTL \in Nat /\ Sensitive \in Nat
    /\ SessionTTL \in Nat \ {0} /\ Grace \in Nat
    /\ MaxNow \in Nat /\ MaxFlows \in Nat /\ MaxSessions \in Nat
BY SignInAssumption

(* What the three updates of a entry or a cookie leave in it. *)
LEMMA StageOfFlow ==
    ASSUME NEW f \in Flows, NEW s, TypeOK
    PROVE  [flow EXCEPT ![f].stage = s] = [flow EXCEPT ![f] = [stage |-> s, expires |-> flow[f].expires]]
<1>1. [flow[f] EXCEPT !.stage = s] = [stage |-> s, expires |-> flow[f].expires]
  <2>1. flow[f] \in [stage : Stages, expires : 0..MaxNow + FlowTTL]
    BY DEF TypeOK
  <2> QED
    BY <2>1
<1> QED
  BY <1>1, Zenon

(* As above, for a ticket. *)
LEMMA StageOfTicket ==
    ASSUME NEW f \in Flows, NEW s, TypeOK
    PROVE  [ticket EXCEPT ![f].stage = s] =
           [ticket EXCEPT ![f] = [stage |-> s, who |-> ticket[f].who, expires |-> ticket[f].expires]]
<1>1. [ticket[f] EXCEPT !.stage = s] = [stage |-> s, who |-> ticket[f].who, expires |-> ticket[f].expires]
  <2>1. ticket[f] \in [stage : Stages, who : People \cup {None}, expires : 0..MaxNow + TicketTTL]
    BY DEF TypeOK
  <2> QED
    BY <2>1
<1> QED
  BY <1>1, Zenon

(* The cookie of a step-up, field by field (api/stepup.go:55-62). *)
LEMMA RenewedIs ==
    ASSUME NEW q \in Requests, request[q].cookie \in Cookie
    PROVE  Renewed(q) = LET c == request[q].cookie IN
             [sid |-> c.sid, who |-> c.who, expires |-> c.expires,
              stepped |-> request[q].since, via |-> request[q].flow]
<1> DEFINE c == request[q].cookie
           d == [sid |-> c.sid, who |-> c.who, expires |-> c.expires, stepped |-> request[q].since, via |-> c.via]
<1>1. [c EXCEPT !.stepped = request[q].since] = d
  BY DEF Cookie
<1>2. [d EXCEPT !.via = request[q].flow] = [sid |-> c.sid, who |-> c.who, expires |-> c.expires,
              stepped |-> request[q].since, via |-> request[q].flow]
  OBVIOUS
<1>3. Renewed(q) = [[c EXCEPT !.stepped = request[q].since] EXCEPT !.via = request[q].flow]
  BY DEF Renewed
<1> QED
  BY <1>1, <1>2, <1>3, Zenon

(* A flow is opened where there was none, so no ticket hangs from it. *)
LEMMA CreateAuthorizationURLKeeps ==
    ASSUME IInv, NEW f \in Flows, CreateAuthorizationURL(f)
    PROVE  IInv'
<1>e. /\ flow' = [flow EXCEPT ![f] = [stage |-> "open", expires |-> now + FlowTTL]] /\ flow[f].stage = "none"
      /\ UNCHANGED <<now, ticket, cookies, signedOut, ended, revoked, enabled, request>>
  BY DEF CreateAuthorizationURL, NoFlow
<1>1. TypeOK'
  BY <1>e, Numbers DEF IInv, At, TypeOK, Stages
<1>2. RequestsKnow'
  BY <1>e DEF IInv, At, RequestsKnow, Spent, Task
<1>3. TicketsFollow'
  BY <1>e DEF IInv, At, TicketsFollow
<1>4. StepUpsAreTimely'
  BY <1>e DEF IInv, StepUpsAreTimely, SteppingUp, At
<1>5. OneEach'
  BY <1>e DEF IInv, OneEach, At
<1>6. CookiesKnow'
  BY <1>e DEF IInv, CookiesKnow, Spent
<1>7. SessionsAgree'
  BY <1>e DEF IInv, SessionsAgree, Sids
<1>8. SignOutsKnow'
  BY <1>e DEF IInv, SignOutsKnow, Sids
<1>9. ProofsAreDated'
  BY <1>e DEF IInv, ProofsAreDated, SteppingUp, At
<1>10. OneProofPerAuthorization'
  BY <1>e DEF IInv, OneProofPerAuthorization, At
<1>11. ProofIsTheMembers'
  BY <1>e DEF IInv, ProofIsTheMembers
<1>12. SessionsAreBounded'
  BY <1>e DEF IInv, SessionsAreBounded
<1> QED
  BY <1>1, <1>2, <1>3, <1>4, <1>5, <1>6, <1>7, <1>8, <1>9, <1>10, <1>11, <1>12 DEF IInv

(* The flow is spent with the step, so a second callback finds nothing open. *)
LEMMA ConsumeAuthFlowKeeps ==
    ASSUME IInv, NEW q \in Requests, NEW f \in Flows, NEW p \in People, ConsumeAuthFlow(q, f, p)
    PROVE  IInv'
<1>e. /\ flow[f].stage = "open"
      /\ flow' = [flow EXCEPT ![f] = [stage |-> "used", expires |-> flow[f].expires]]
      /\ \/ request' = request
         \/ request' = [request EXCEPT ![q] = Doing("exchange", f, p, None, 0)]
      /\ UNCHANGED <<now, ticket, cookies, signedOut, ended, revoked, enabled>>
  BY StageOfFlow DEF IInv, ConsumeAuthFlow
<1>s. \A r \in Requests :
        /\ At(r, "proved")' => At(r, "proved") /\ request'[r] = request[r]
        /\ SteppingUp(r)' => SteppingUp(r) /\ request'[r] = request[r]
  BY <1>e DEF IInv, RequestsKnow, SteppingUp, At, Doing
<1>1. TypeOK'
  BY <1>e, <1>s DEF IInv, TypeOK, Stages
<1>2. RequestsKnow'
  <2>1. CASE request' = request
    BY <1>e, <2>1 DEF IInv, RequestsKnow, Task, At, Spent
  <2>2. CASE request' = [request EXCEPT ![q] = Doing("exchange", f, p, None, 0)]
    BY <1>e, <2>2 DEF IInv, At, Doing, RequestsKnow, Spent, Task, TicketsFollow, TypeOK
  <2> QED
    BY <1>e, <2>1, <2>2
<1>3. StepUpsAreTimely'
  BY <1>e, <1>s DEF IInv, StepUpsAreTimely
<1>4. TicketsFollow'
  BY <1>e DEF IInv, At, TicketsFollow
<1>5. OneEach'
  <2>1. CASE request' = request
    BY <1>e, <2>1 DEF IInv, OneEach, At
  <2>2. CASE request' = [request EXCEPT ![q] = Doing("exchange", f, p, None, 0)]
    BY <1>e, <2>2 DEF IInv, At, Doing, OneEach, RequestsKnow
  <2> QED
    BY <1>e, <2>1, <2>2
<1>6. ProofsAreDated'
  BY <1>e, <1>s DEF IInv, ProofsAreDated
<1>7. OneProofPerAuthorization'
  <2>1. CASE request' = request
    BY <1>e, <2>1 DEF IInv, OneProofPerAuthorization, At
  <2>2. CASE request' = [request EXCEPT ![q] = Doing("exchange", f, p, None, 0)]
    BY <1>e, <2>2 DEF IInv, At, Doing, OneProofPerAuthorization, TicketsFollow
  <2> QED
    BY <1>e, <2>1, <2>2
<1>8. CookiesKnow'
  BY <1>e DEF IInv, CookiesKnow, Spent
<1>9. SessionsAgree'
  BY <1>e DEF IInv, SessionsAgree, Sids
<1>10. SignOutsKnow'
  BY <1>e DEF IInv, SignOutsKnow, Sids
<1>11. ProofIsTheMembers'
  BY <1>e DEF IInv, ProofIsTheMembers
<1>12. SessionsAreBounded'
  BY <1>e DEF IInv, SessionsAreBounded
<1> QED
  BY <1>1, <1>2, <1>3, <1>4, <1>5, <1>6, <1>7, <1>8, <1>9, <1>10, <1>11, <1>12 DEF IInv

(* The request that spent the flow is the only one that mints its ticket. *)
LEMMA MintTicketKeeps ==
    ASSUME IInv, NEW q \in Requests, MintTicket(q)
    PROVE  IInv'
<1>e. /\ At(q, "exchange")
      /\ ticket' = [ticket EXCEPT ![request[q].flow] =
           [stage |-> "live", who |-> request[q].who, expires |-> now + TicketTTL]]
      /\ request' = [request EXCEPT ![q] = Idle]
      /\ UNCHANGED <<now, flow, cookies, signedOut, ended, revoked, enabled>>
  BY DEF MintTicket, Done
<1>s. \A r \in Requests :
        /\ At(r, "proved")' => At(r, "proved") /\ request'[r] = request[r]
        /\ SteppingUp(r)' => SteppingUp(r) /\ request'[r] = request[r]
  BY <1>e DEF IInv, SteppingUp, At, Doing, Idle
<1>v. \A c \in cookies : ticket'[c.via] = ticket[c.via]
  BY <1>e DEF IInv, CookiesKnow, Spent, RequestsKnow, At
<1>1. TypeOK'
  <2>1. request[q].flow \in Flows /\ request[q].who \in People \cup {None}
    BY <1>e DEF IInv, RequestsKnow, At
  <2>2. ticket' \in [Flows -> [stage : Stages, who : People \cup {None}, expires : 0..MaxNow + TicketTTL]]
    BY <1>e, <2>1, Numbers DEF IInv, TypeOK, Stages
  <2>3. \A r \in Requests : At(r, "proved")' =>
          /\ request'[r].flow \in Flows
          /\ request'[r].who = ticket'[request'[r].flow].who /\ ticket'[request'[r].flow].stage # "live"
    BY <1>e, <1>s, <2>1 DEF IInv, TypeOK, RequestsKnow, Spent, At
  <2> QED
    BY <1>e, <2>2, <2>3 DEF IInv, TypeOK, At
<1>2. RequestsKnow'
  BY <1>e DEF IInv, At, Doing, Idle, OneEach, RequestsKnow, Spent, Task, TypeOK, Stages
<1>3. StepUpsAreTimely'
  BY <1>e DEF IInv, At, Doing, Idle, RequestsKnow, Spent, StepUpsAreTimely, SteppingUp
<1>4. TicketsFollow'
  BY <1>e DEF IInv, At, RequestsKnow, TicketsFollow
<1>5. OneEach'
  BY <1>e DEF IInv, At, Doing, Idle, OneEach
<1>6. CookiesKnow'
  BY <1>e, <1>v DEF IInv, CookiesKnow, Spent
<1>7. ProofsAreDated'
  BY <1>e, <1>s, <1>v DEF IInv, ProofsAreDated
<1>8. OneProofPerAuthorization'
  BY <1>e DEF IInv, At, CookiesKnow, Doing, Idle, OneEach, OneProofPerAuthorization, RequestsKnow
<1>9. ProofIsTheMembers'
  BY <1>e, <1>v DEF IInv, ProofIsTheMembers
<1>10. SessionsAgree'
  BY <1>e DEF IInv, SessionsAgree, Sids
<1>11. SignOutsKnow'
  BY <1>e DEF IInv, SignOutsKnow, Sids
<1>12. SessionsAreBounded'
  BY <1>e DEF IInv, SessionsAreBounded
<1> QED
  BY <1>1, <1>2, <1>3, <1>4, <1>5, <1>6, <1>7, <1>8, <1>9, <1>10, <1>11, <1>12 DEF IInv

(* A redemption reads the clock, the ticket and the cookie, and writes nothing. *)
LEMMA BeginRedeemKeeps ==
    ASSUME IInv, NEW q \in Requests, NEW f \in Flows, NEW c \in cookies \cup {None}, BeginRedeem(q, f, c)
    PROVE  IInv'
<1>e. /\ ticket[f].stage = "live" /\ now < ticket[f].expires
      /\ c # None => now < c.expires
      /\ \E since \in {0, now} :
           /\ c # None => since = now
           /\ request' = [request EXCEPT ![q] = Doing("redeem", f, None, c, since)]
      /\ UNCHANGED <<now, flow, ticket, cookies, signedOut, ended, revoked, enabled>>
  BY DEF BeginRedeem, Accepted, stored
<1>1. TypeOK'
  BY <1>e DEF IInv, At, Doing, TypeOK
<1>2. RequestsKnow'
  BY <1>e DEF IInv, At, Doing, RequestsKnow, Spent, Task, TypeOK
<1>3. StepUpsAreTimely'
  BY <1>e DEF IInv, At, Doing, StepUpsAreTimely, SteppingUp
<1>4. OneEach'
  BY <1>e DEF IInv, At, Doing, OneEach
<1>5. ProofsAreDated'
  BY <1>e DEF IInv, At, CookiesKnow, Doing, ProofsAreDated, SteppingUp
<1>6. OneProofPerAuthorization'
  BY <1>e DEF IInv, At, Doing, OneProofPerAuthorization
<1>7. TicketsFollow'
  BY <1>e DEF IInv, TicketsFollow
<1>8. CookiesKnow'
  BY <1>e DEF IInv, CookiesKnow, Spent
<1>9. SessionsAgree'
  BY <1>e DEF IInv, SessionsAgree, Sids
<1>10. SignOutsKnow'
  BY <1>e DEF IInv, SignOutsKnow, Sids
<1>11. ProofIsTheMembers'
  BY <1>e DEF IInv, ProofIsTheMembers
<1>12. SessionsAreBounded'
  BY <1>e DEF IInv, SessionsAreBounded
<1> QED
  BY <1>1, <1>2, <1>3, <1>4, <1>5, <1>6, <1>7, <1>8, <1>9, <1>10, <1>11, <1>12 DEF IInv

(* The ticket is spent with the step: no cookie names it yet, and no other
   request holds it. *)
LEMMA ConsumeTicketKeeps ==
    ASSUME IInv, NEW q \in Requests, ConsumeTicket(q)
    PROVE  IInv'
<1>e. LET f == request[q].flow IN
      /\ At(q, "redeem") /\ f \in Flows /\ ticket[f].stage = "live"
      /\ ticket' = [ticket EXCEPT ![f] =
           [stage |-> "used", who |-> ticket[f].who, expires |-> ticket[f].expires]]
      /\ request' = [request EXCEPT ![q] =
           Doing("proved", f, ticket[f].who, request[q].cookie, request[q].since)]
      /\ UNCHANGED <<now, flow, cookies, signedOut, ended, revoked, enabled>>
  BY StageOfTicket DEF IInv, RequestsKnow, At, ConsumeTicket, Holding
<1>s. \A r \in Requests : SteppingUp(r)' =>
        /\ SteppingUp(r) /\ request'[r].cookie = request[r].cookie
        /\ request'[r].since = request[r].since
  BY <1>e DEF IInv, SteppingUp, At, Doing
<1>v. \A c \in cookies : ticket'[c.via] = ticket[c.via]
  BY <1>e DEF IInv, CookiesKnow, Spent
<1>1. TypeOK'
  BY <1>e DEF IInv, At, Doing, TicketsFollow, TypeOK, Stages
<1>2. RequestsKnow'
  BY <1>e DEF IInv, At, Doing, RequestsKnow, Spent, Task, TicketsFollow, TypeOK
<1>3. StepUpsAreTimely'
  BY <1>e DEF IInv, At, Doing, StepUpsAreTimely, SteppingUp
<1>4. TicketsFollow'
  BY <1>e DEF IInv, At, TicketsFollow
<1>5. OneEach'
  BY <1>e DEF IInv, At, Doing, OneEach, RequestsKnow, Spent
<1>6. CookiesKnow'
  BY <1>e, <1>v DEF IInv, CookiesKnow, Spent
<1>7. ProofsAreDated'
  BY <1>e, <1>s, <1>v DEF IInv, ProofsAreDated
<1>8. OneProofPerAuthorization'
  <2>1. \A c \in cookies : c.via # request[q].flow
    BY <1>e DEF IInv, CookiesKnow, Spent
  <2>2. \A r \in Requests : At(r, "proved")' => r = q \/ (At(r, "proved") /\ request'[r] = request[r])
    BY <1>e DEF IInv, At
  <2>3. request'[q].flow = request[q].flow
    BY <1>e DEF IInv, Doing
  <2>4. \A r \in Requests : At(r, "exchange")' => At(r, "exchange") /\ request'[r] = request[r]
    BY <1>e DEF IInv, At, Doing
  <2>5. \A r \in Requests : At(r, "exchange") => ticket'[request[r].flow].stage = "none"
    BY <1>e DEF IInv, RequestsKnow
  <2>6. cookies' = cookies /\ OneProofPerAuthorization
    BY <1>e DEF IInv
  <2>7. \A c, d \in cookies' : c.via = d.via => c = d
    BY <2>6 DEF OneProofPerAuthorization
  <2>8. \A r \in Requests : At(r, "proved")' => \A c \in cookies' : c.via # request'[r].flow
    BY <2>1, <2>2, <2>3, <2>6 DEF OneProofPerAuthorization
  <2>9. \A r \in Requests : At(r, "exchange")' => ticket'[request'[r].flow].stage = "none"
    BY <2>4, <2>5
  <2> QED
    BY <2>7, <2>8, <2>9 DEF OneProofPerAuthorization
<1>9. ProofIsTheMembers'
  BY <1>e, <1>v DEF IInv, ProofIsTheMembers
<1>10. SessionsAgree'
  BY <1>e DEF IInv, SessionsAgree, Sids
<1>11. SignOutsKnow'
  BY <1>e DEF IInv, SignOutsKnow, Sids
<1>12. SessionsAreBounded'
  BY <1>e DEF IInv, SessionsAreBounded
<1> QED
  BY <1>1, <1>2, <1>3, <1>4, <1>5, <1>6, <1>7, <1>8, <1>9, <1>10, <1>11, <1>12 DEF IInv

(* A sign-in begins a session nobody has, with the proof of a ticket no
   cookie names. *)
LEMMA SignInKeeps ==
    ASSUME IInv, NEW q \in Requests, SignIn(q)
    PROVE  IInv'
<1>e. /\ At(q, "proved") /\ Newest \in Nat /\ Newest < MaxSessions /\ Sids = 1..Newest
      /\ cookies' = cookies \cup {[sid |-> Newest + 1, who |-> request[q].who, expires |-> now + SessionTTL,
                                   stepped |-> now, via |-> request[q].flow]}
      /\ request' = [request EXCEPT ![q] = Idle]
      /\ UNCHANGED <<now, flow, ticket, signedOut, ended, revoked, enabled>>
  <2>1. PICK n \in 0..MaxSessions : Sids = 1..n
    BY DEF IInv, SessionsAgree
  <2>2. Newest = Cardinality(1..n)
    BY <2>1 DEF Newest, Sids
  <2>3. Cardinality(1..n) = n
    BY <2>1, Numbers, FS_Interval
  <2> QED
    BY <2>1, <2>2, <2>3 DEF SignIn, Done
<1>n. PICK new \in Cookie :
        /\ cookies' = cookies \cup {new} /\ new.sid = Newest + 1
        /\ new.who = ticket[new.via].who /\ new.expires = now + SessionTTL /\ new.stepped = now
        /\ new.via = request[q].flow
  <2> DEFINE new == [sid |-> Newest + 1, who |-> request[q].who, expires |-> now + SessionTTL,
                     stepped |-> now, via |-> request[q].flow]
  <2>1. /\ request[q].flow \in Flows /\ request[q].who = ticket[request[q].flow].who
        /\ request[q].who \in People
    BY <1>e DEF IInv, TypeOK, RequestsKnow, Spent, TicketsFollow
  <2>2. Newest + 1 \in Sessions /\ now + SessionTTL \in 0..MaxNow + SessionTTL /\ now \in 0..MaxNow
    BY <1>e, Numbers DEF IInv, TypeOK, Sessions
  <2>3. new \in Cookie
    BY <2>1, <2>2 DEF Cookie
  <2> QED
    BY <1>e, <2>1, <2>3
<1>f. \A c \in cookies : c.sid # new.sid
  BY <1>e, <1>n DEF Sids
<1>s. \A r \in Requests :
        /\ At(r, "proved")' => At(r, "proved") /\ request'[r] = request[r]
        /\ SteppingUp(r)' => SteppingUp(r) /\ request'[r] = request[r]
  BY <1>e DEF IInv, SteppingUp, At, Doing, Idle
<1>1. TypeOK'
  <2>1. cookies' \subseteq Cookie
    BY <1>n DEF IInv, TypeOK
  <2> QED
    BY <1>e, <1>s, <2>1 DEF IInv, TypeOK
<1>2. RequestsKnow'
  <2>1. Task \subseteq Task'
    BY <1>e, <1>n DEF Task
  <2>2. Idle \in Task
    BY Numbers DEF IInv, TypeOK, Idle, Doing, Task
  <2>3. request' \in [Requests -> Task']
    BY <1>e, <2>1, <2>2 DEF IInv, RequestsKnow
  <2> QED
    BY <1>e, <1>n, <2>3 DEF IInv, RequestsKnow, At, Idle, Doing, Spent
<1>3. StepUpsAreTimely'
  BY <1>e, <1>s DEF IInv, StepUpsAreTimely
<1>4. OneEach'
  BY <1>e DEF IInv, At, Doing, Idle, OneEach
<1>5. CookiesKnow'
  BY <1>e, <1>n DEF IInv, CookiesKnow, RequestsKnow, Spent, TypeOK
<1>6. SessionsAgree'
  <2>1. Sids' = Sids \cup {new.sid}
    BY <1>n DEF Sids
  <2>2. Sids' = 1..(Newest + 1)
    BY <1>e, <1>n, <2>1
  <2>3. Newest + 1 \in 0..MaxSessions
    BY <1>e, Numbers
  <2> QED
    BY <1>n, <1>f, <2>2, <2>3 DEF IInv, SessionsAgree
<1>7. SignOutsKnow'
  <2>1. new.sid \notin Sids /\ Sids \subseteq Sids'
    BY <1>n, <1>f DEF Sids
  <2> QED
    BY <1>e, <1>n, <2>1 DEF IInv, SignOutsKnow
<1>8. ProofsAreDated'
  <2>1. \A r \in Requests : SteppingUp(r)' => request'[r].cookie.sid # new.sid
    BY <1>e, <1>s, <1>f DEF IInv, RequestsKnow, Task, SteppingUp, At
  <2>2. /\ \A c \in cookies' : c.sid = new.sid => new.stepped <= c.stepped
        /\ \A r \in Requests : (SteppingUp(r)' /\ request'[r].cookie.sid = new.sid) => new.stepped <= request'[r].since
    BY <1>n, <1>f, <2>1 DEF IInv, TypeOK
  <2>3. \A d \in cookies :
          \/ d.stepped < ticket'[d.via].expires
          \/ /\ \A c \in cookies' : c.sid = d.sid => d.stepped <= c.stepped
             /\ \A r \in Requests : (SteppingUp(r)' /\ request'[r].cookie.sid = d.sid) => d.stepped <= request'[r].since
    BY <1>e, <1>n, <1>f, <1>s DEF IInv, ProofsAreDated
  <2> QED
    BY <1>n, <2>2, <2>3 DEF ProofsAreDated
<1>9. OneProofPerAuthorization'
  <2>1. \A c \in cookies : c.via # new.via
    BY <1>e, <1>n DEF IInv, OneProofPerAuthorization
  <2>2. \A r \in Requests : At(r, "proved")' => request'[r].flow # new.via
    BY <1>e, <1>n DEF IInv, RequestsKnow, OneEach, At, Idle, Doing
  <2>3. \A r \in Requests : At(r, "exchange")' => At(r, "exchange") /\ request'[r] = request[r]
    BY <1>e DEF IInv, At, Idle, Doing
  <2> QED
    BY <1>e, <1>n, <1>s, <2>1, <2>2, <2>3 DEF IInv, OneProofPerAuthorization
<1>10. ProofIsTheMembers'
  BY <1>e, <1>n DEF IInv, ProofIsTheMembers
<1>11. SessionsAreBounded'
  BY <1>n, <1>f, Numbers DEF IInv, SessionsAreBounded, TypeOK
<1>12. TicketsFollow'
  BY <1>e DEF IInv, TicketsFollow
<1> QED
  BY <1>1, <1>2, <1>3, <1>4, <1>5, <1>6, <1>7, <1>8, <1>9, <1>10, <1>11, <1>12 DEF IInv

(* A step-up adds a value to the session it came with: its person, its end, a
   proof as old as the request. *)
LEMMA StepUpKeeps ==
    ASSUME IInv, NEW q \in Requests, StepUp(q)
    PROVE  IInv'
<1>c. /\ At(q, "proved") /\ request[q].cookie \in cookies /\ request[q].cookie \in Cookie
      /\ request[q].who = request[q].cookie.who /\ SteppingUp(q)
      /\ request[q].since < request[q].cookie.expires
      /\ request[q].since < ticket[request[q].flow].expires
  <2>1. At(q, "proved") /\ request[q].cookie # None /\ request[q].who = request[q].cookie.who
    BY DEF StepUp, IsThisSessions
  <2>2. request[q].cookie \in cookies
    BY <2>1 DEF IInv, RequestsKnow, Task
  <2> QED
    BY <2>1, <2>2 DEF IInv, TypeOK, StepUpsAreTimely, SteppingUp
<1>e. /\ cookies' = cookies \cup {Renewed(q)} /\ request' = [request EXCEPT ![q] = Idle]
      /\ UNCHANGED <<now, flow, ticket, signedOut, ended, revoked, enabled>>
  BY DEF StepUp, Done
<1>n. PICK new \in Cookie :
        /\ cookies' = cookies \cup {new} /\ new.sid = request[q].cookie.sid
        /\ new.who = request[q].cookie.who /\ new.who = ticket[new.via].who
        /\ new.expires = request[q].cookie.expires
        /\ new.stepped = request[q].since /\ new.via = request[q].flow
  <2> DEFINE c   == request[q].cookie
             new == [sid |-> c.sid, who |-> c.who, expires |-> c.expires,
                     stepped |-> request[q].since, via |-> request[q].flow]
  <2>1. request[q].flow \in Flows /\ request[q].who = ticket[request[q].flow].who
    BY <1>c DEF IInv, TypeOK
  <2>2. request[q].since \in 0..MaxNow
    BY Numbers DEF IInv, TypeOK, RequestsKnow, Task
  <2>3. new \in Cookie
    BY <1>c, <2>1, <2>2 DEF Cookie
  <2>4. cookies' = cookies \cup {new}
    BY <1>c, <1>e, RenewedIs
  <2> QED
    BY <1>c, <2>1, <2>3, <2>4
<1>s. \A r \in Requests :
        /\ At(r, "proved")' => At(r, "proved") /\ request'[r] = request[r]
        /\ SteppingUp(r)' => SteppingUp(r) /\ request'[r] = request[r]
  BY <1>e DEF IInv, SteppingUp, At, Doing, Idle
<1>1. TypeOK'
  <2>1. cookies' \subseteq Cookie
    BY <1>n DEF IInv, TypeOK
  <2> QED
    BY <1>e, <1>s, <2>1 DEF IInv, TypeOK
<1>2. RequestsKnow'
  <2>1. Task \subseteq Task'
    BY <1>e, <1>n DEF Task
  <2>2. Idle \in Task
    BY Numbers DEF IInv, TypeOK, Idle, Doing, Task
  <2>3. request' \in [Requests -> Task']
    BY <1>e, <2>1, <2>2 DEF IInv, RequestsKnow
  <2> QED
    BY <1>e, <1>n, <2>3 DEF IInv, RequestsKnow, At, Idle, Doing, Spent
<1>3. StepUpsAreTimely'
  BY <1>e, <1>s DEF IInv, StepUpsAreTimely
<1>4. OneEach'
  BY <1>e DEF IInv, At, Doing, Idle, OneEach
<1>5. CookiesKnow'
  <2>1. new.stepped <= now
    BY <1>n, <1>c DEF IInv, RequestsKnow, Task
  <2> QED
    BY <1>e, <1>n, <1>c, <2>1 DEF IInv, CookiesKnow, RequestsKnow, Spent
<1>6. SessionsAgree'
  <2>1. Sids' = Sids
    BY <1>n, <1>c DEF Sids
  <2>2. \E n \in 0..MaxSessions : Sids' = 1..n
    BY <2>1 DEF IInv, SessionsAgree
  <2>3. \A d \in cookies : d.sid = new.sid => d.who = new.who /\ d.expires = new.expires
    BY <1>n, <1>c DEF IInv, SessionsAgree
  <2> QED
    BY <1>n, <2>2, <2>3 DEF IInv, SessionsAgree
<1>7. SignOutsKnow'
  <2>1. Sids' = Sids
    BY <1>n, <1>c DEF Sids
  <2> QED
    BY <1>e, <1>n, <1>c, <2>1 DEF IInv, SignOutsKnow
<1>8. ProofsAreDated'
  <2>1. \A d \in cookies : d.sid = new.sid =>
          \/ d.stepped < ticket[d.via].expires
          \/ d.stepped <= new.stepped
    BY <1>e, <1>n, <1>c DEF IInv, ProofsAreDated, SteppingUp
  <2>2. \A d \in cookies :
          \/ d.stepped < ticket'[d.via].expires
          \/ /\ \A c \in cookies' : c.sid = d.sid => d.stepped <= c.stepped
             /\ \A r \in Requests : (SteppingUp(r)' /\ request'[r].cookie.sid = d.sid) => d.stepped <= request'[r].since
    BY <1>e, <1>n, <1>s, <2>1 DEF IInv, ProofsAreDated
  <2> QED
    BY <1>e, <1>n, <1>c, <2>2 DEF ProofsAreDated
<1>9. OneProofPerAuthorization'
  <2>1. \A c \in cookies : c.via # new.via
    BY <1>c, <1>n DEF IInv, OneProofPerAuthorization
  <2>2. \A r \in Requests : At(r, "proved")' => request'[r].flow # new.via
    BY <1>c, <1>e, <1>n DEF IInv, RequestsKnow, OneEach, At, Idle, Doing
  <2>3. \A r \in Requests : At(r, "exchange")' => At(r, "exchange") /\ request'[r] = request[r]
    BY <1>e DEF IInv, At, Idle, Doing
  <2> QED
    BY <1>e, <1>n, <1>s, <2>1, <2>2, <2>3 DEF IInv, OneProofPerAuthorization
<1>10. ProofIsTheMembers'
  BY <1>e, <1>n DEF IInv, ProofIsTheMembers
<1>11. SessionsAreBounded'
  BY <1>n, <1>c DEF IInv, SessionsAreBounded
<1>12. TicketsFollow'
  BY <1>e DEF IInv, TicketsFollow
<1> QED
  BY <1>1, <1>2, <1>3, <1>4, <1>5, <1>6, <1>7, <1>8, <1>9, <1>10, <1>11, <1>12 DEF IInv

(* A sign-out starts from a cookie that was issued. *)
LEMMA BeginSignOutKeeps ==
    ASSUME IInv, NEW q \in Requests, NEW c \in cookies, BeginSignOut(q, c)
    PROVE  IInv'
<1>e. /\ request' = [request EXCEPT ![q] = Doing("signout", 0, None, c, 0)]
      /\ UNCHANGED <<now, flow, ticket, cookies, signedOut, ended, revoked, enabled>>
  BY DEF BeginSignOut, stored
<1>1. TypeOK'
  BY <1>e DEF IInv, At, Doing, TypeOK
<1>2. RequestsKnow'
  BY <1>e DEF IInv, At, Doing, RequestsKnow, Spent, Task, TypeOK
<1>3. StepUpsAreTimely'
  BY <1>e DEF IInv, At, Doing, StepUpsAreTimely, SteppingUp
<1>4. OneEach'
  BY <1>e DEF IInv, At, Doing, OneEach
<1>5. ProofsAreDated'
  BY <1>e DEF IInv, At, CookiesKnow, Doing, ProofsAreDated, SteppingUp
<1>6. OneProofPerAuthorization'
  BY <1>e DEF IInv, At, Doing, OneProofPerAuthorization
<1>7. TicketsFollow'
  BY <1>e DEF IInv, TicketsFollow
<1>8. CookiesKnow'
  BY <1>e DEF IInv, CookiesKnow, Spent
<1>9. SessionsAgree'
  BY <1>e DEF IInv, SessionsAgree, Sids
<1>10. SignOutsKnow'
  BY <1>e DEF IInv, SignOutsKnow, Sids
<1>11. ProofIsTheMembers'
  BY <1>e DEF IInv, ProofIsTheMembers
<1>12. SessionsAreBounded'
  BY <1>e DEF IInv, SessionsAreBounded
<1> QED
  BY <1>1, <1>2, <1>3, <1>4, <1>5, <1>6, <1>7, <1>8, <1>9, <1>10, <1>11, <1>12 DEF IInv

(* The entry of a sign-out carries the session's own end, written or found. *)
LEMMA SignOutKeeps ==
    ASSUME IInv, NEW q \in Requests, SignOut(q)
    PROVE  IInv'
<1>e. LET c == request[q].cookie IN
      /\ c \in cookies
      /\ \/ signedOut' = signedOut /\ \E entry \in signedOut : entry.sid = c.sid
         \/ /\ signedOut' = signedOut \cup {[sid |-> c.sid, expires |-> c.expires]}
            /\ \A entry \in signedOut : entry.sid # c.sid
      /\ ended' = ended \cup {c.sid}
      /\ request' = [request EXCEPT ![q] = Idle]
      /\ UNCHANGED <<now, flow, ticket, cookies, revoked, enabled>>
  BY DEF IInv, RequestsKnow, SignOut, Done
<1>1. TypeOK'
  <2>1. [sid |-> request[q].cookie.sid, expires |-> request[q].cookie.expires]
          \in [sid : Sessions, expires : 0..MaxNow + SessionTTL]
    BY <1>e DEF IInv, TypeOK, Cookie
  <2>2. signedOut' \subseteq [sid : Sessions, expires : 0..MaxNow + SessionTTL] /\ ended' \subseteq Sessions
    BY <1>e, <2>1 DEF IInv, TypeOK, Cookie
  <2>3. \A r \in Requests : At(r, "proved")' => At(r, "proved") /\ request'[r] = request[r]
    BY <1>e DEF IInv, At, Idle, Doing
  <2> QED
    BY <1>e, <2>2, <2>3 DEF IInv, TypeOK
<1>2. RequestsKnow'
  BY <1>e DEF IInv, At, Doing, Idle, RequestsKnow, Spent, Task, TypeOK
<1>3. StepUpsAreTimely'
  BY <1>e DEF IInv, At, Doing, Idle, StepUpsAreTimely, SteppingUp
<1>4. OneEach'
  BY <1>e DEF IInv, At, Doing, Idle, OneEach
<1>5. SignOutsKnow'
  <2> DEFINE c == request[q].cookie
  <2>1. ended' \subseteq Sids
    BY <1>e DEF IInv, SignOutsKnow, Sids
  <2>r. PICK new : new.sid = c.sid /\ new.expires = c.expires
                   /\ new = [sid |-> c.sid, expires |-> c.expires]
    OBVIOUS
  <2>2. \A entry \in signedOut' :
          entry \in signedOut \/ (entry.sid = c.sid /\ entry.expires = c.expires)
    <3>1. signedOut' = signedOut \/ signedOut' = signedOut \cup {new}
      BY <1>e, <2>r
    <3> QED
      BY <3>1, <2>r
  <2>3. \E entry \in signedOut' : entry.sid = c.sid
    BY <1>e, <2>r
  <2>4. \A d \in cookies : d.sid = c.sid => d.expires = c.expires
    BY <1>e DEF IInv, SessionsAgree
  <2>5. \A entry \in signedOut' : entry.sid \in Sids
    BY <1>e, <2>2 DEF IInv, SignOutsKnow, Sids
  <2>6. \A d \in cookies : d.sid \in ended' =>
          d.expires <= now \/ \E entry \in signedOut' : entry.sid = d.sid
    BY <1>e, <2>3 DEF IInv, SignOutsKnow
  <2>7. \A d \in cookies : \A entry \in signedOut' : entry.sid = d.sid => entry.expires = d.expires
    BY <2>2, <2>4 DEF IInv, SignOutsKnow
  <2>8. Sids' = Sids
    BY <1>e DEF Sids
  <2> QED
    BY <1>e, <2>1, <2>5, <2>6, <2>7, <2>8 DEF SignOutsKnow
<1>6. ProofsAreDated'
  BY <1>e DEF IInv, At, CookiesKnow, Doing, Idle, ProofsAreDated, SteppingUp
<1>7. OneProofPerAuthorization'
  BY <1>e DEF IInv, At, Doing, Idle, OneProofPerAuthorization
<1>8. TicketsFollow'
  BY <1>e DEF IInv, TicketsFollow
<1>9. CookiesKnow'
  BY <1>e DEF IInv, CookiesKnow, Spent
<1>10. SessionsAgree'
  BY <1>e DEF IInv, SessionsAgree, Sids
<1>11. ProofIsTheMembers'
  BY <1>e DEF IInv, ProofIsTheMembers
<1>12. SessionsAreBounded'
  BY <1>e DEF IInv, SessionsAreBounded
<1> QED
  BY <1>1, <1>2, <1>3, <1>4, <1>5, <1>6, <1>7, <1>8, <1>9, <1>10, <1>11, <1>12 DEF IInv

(* A request that stops leaves the tables as they are. *)
LEMMA AbandonKeeps ==
    ASSUME IInv, NEW q \in Requests, Abandon(q)
    PROVE  IInv'
<1>e. /\ request' = [request EXCEPT ![q] = Idle]
      /\ UNCHANGED <<now, flow, ticket, cookies, signedOut, ended, revoked, enabled>>
  BY DEF Abandon, Done, stored
<1>1. TypeOK'
  BY <1>e DEF IInv, At, Doing, Idle, TypeOK
<1>2. RequestsKnow'
  BY <1>e DEF IInv, At, Doing, Idle, RequestsKnow, Spent, Task, TypeOK
<1>3. StepUpsAreTimely'
  BY <1>e DEF IInv, At, Doing, Idle, StepUpsAreTimely, SteppingUp
<1>4. OneEach'
  BY <1>e DEF IInv, At, Doing, Idle, OneEach
<1>5. ProofsAreDated'
  BY <1>e DEF IInv, At, CookiesKnow, Doing, Idle, ProofsAreDated, SteppingUp
<1>6. OneProofPerAuthorization'
  BY <1>e DEF IInv, At, Doing, Idle, OneProofPerAuthorization
<1>7. TicketsFollow'
  BY <1>e DEF IInv, TicketsFollow
<1>8. CookiesKnow'
  BY <1>e DEF IInv, CookiesKnow, Spent
<1>9. SessionsAgree'
  BY <1>e DEF IInv, SessionsAgree, Sids
<1>10. SignOutsKnow'
  BY <1>e DEF IInv, SignOutsKnow, Sids
<1>11. ProofIsTheMembers'
  BY <1>e DEF IInv, ProofIsTheMembers
<1>12. SessionsAreBounded'
  BY <1>e DEF IInv, SessionsAreBounded
<1> QED
  BY <1>1, <1>2, <1>3, <1>4, <1>5, <1>6, <1>7, <1>8, <1>9, <1>10, <1>11, <1>12 DEF IInv

(* Time only ends things. *)
LEMMA TickKeeps ==
    ASSUME IInv, Tick
    PROVE  IInv'
<1>e. /\ now < MaxNow /\ now' = now + 1
      /\ UNCHANGED <<flow, ticket, cookies, signedOut, ended, revoked, enabled, request>>
  BY DEF Tick, stored
<1>1. TypeOK'
  BY <1>e, Numbers DEF IInv, At, TypeOK
<1>2. RequestsKnow'
  BY <1>e DEF IInv, At, RequestsKnow, Spent, Task, TypeOK
<1>3. CookiesKnow'
  BY <1>e DEF IInv, CookiesKnow, Spent, TypeOK, Cookie
<1>4. SignOutsKnow'
  BY <1>e DEF IInv, SignOutsKnow, Sids, TypeOK, Cookie
<1>5. StepUpsAreTimely'
  BY <1>e DEF IInv, StepUpsAreTimely, SteppingUp, At
<1>6. TicketsFollow'
  BY <1>e DEF IInv, TicketsFollow
<1>7. OneEach'
  BY <1>e DEF IInv, OneEach, At
<1>8. SessionsAgree'
  BY <1>e DEF IInv, SessionsAgree, Sids
<1>9. ProofsAreDated'
  BY <1>e DEF IInv, ProofsAreDated, SteppingUp, At
<1>10. OneProofPerAuthorization'
  BY <1>e DEF IInv, OneProofPerAuthorization, At
<1>11. ProofIsTheMembers'
  BY <1>e DEF IInv, ProofIsTheMembers
<1>12. SessionsAreBounded'
  BY <1>e DEF IInv, SessionsAreBounded
<1> QED
  BY <1>1, <1>2, <1>3, <1>4, <1>5, <1>6, <1>7, <1>8, <1>9, <1>10, <1>11, <1>12 DEF IInv

(* The sweep keeps what a entry said of person and end, and forgets a sign-out
   only once every value of its session has ended. *)
LEMMA SweepKeeps ==
    ASSUME IInv, Sweep
    PROVE  IInv'
<1>e. /\ flow' = [f \in Flows |-> IF Outdated(flow[f]) /\ flow[f].stage # "none"
                          THEN [stage |-> "gone", expires |-> flow[f].expires] ELSE flow[f]]
      /\ ticket' = [f \in Flows |-> IF Outdated(ticket[f]) /\ ticket[f].stage # "none"
            THEN [stage |-> "gone", who |-> ticket[f].who, expires |-> ticket[f].expires] ELSE ticket[f]]
      /\ signedOut' = {entry \in signedOut : ~(entry.expires < now - Grace)}
      /\ UNCHANGED <<now, cookies, ended, revoked, enabled, request>>
  <2>1. \A f \in Flows :
          /\ [flow[f] EXCEPT !.stage = "gone"] = [stage |-> "gone", expires |-> flow[f].expires]
          /\ [ticket[f] EXCEPT !.stage = "gone"] =
               [stage |-> "gone", who |-> ticket[f].who, expires |-> ticket[f].expires]
    <3> SUFFICES ASSUME NEW f \in Flows
                 PROVE  /\ [flow[f] EXCEPT !.stage = "gone"] = [stage |-> "gone", expires |-> flow[f].expires]
                        /\ [ticket[f] EXCEPT !.stage = "gone"] =
                             [stage |-> "gone", who |-> ticket[f].who, expires |-> ticket[f].expires]
      OBVIOUS
    <3>1. /\ flow[f] \in [stage : Stages, expires : 0..MaxNow + FlowTTL]
          /\ ticket[f] \in [stage : Stages, who : People \cup {None}, expires : 0..MaxNow + TicketTTL]
      BY DEF IInv, TypeOK
    <3>2. [flow[f] EXCEPT !.stage = "gone"] = [stage |-> "gone", expires |-> flow[f].expires]
      BY <3>1
    <3>3. [ticket[f] EXCEPT !.stage = "gone"] =
          [stage |-> "gone", who |-> ticket[f].who, expires |-> ticket[f].expires]
      BY <3>1
    <3> QED
      BY <3>2, <3>3
  <2> QED
    BY <2>1, Zenon DEF Sweep, Outdated
<1>v. /\ \A c \in cookies : c.via \in Flows
      /\ \A f \in Flows : /\ ticket'[f].who = ticket[f].who /\ ticket'[f].expires = ticket[f].expires
                          /\ Spent(f) => Spent(f)'
  BY <1>e DEF IInv, TypeOK, Cookie, Spent
<1>1. TypeOK'
  BY <1>e DEF IInv, At, TypeOK, Stages
<1>2. RequestsKnow'
  BY <1>e DEF IInv, At, RequestsKnow, Spent, Task
<1>3. StepUpsAreTimely'
  BY <1>e DEF IInv, At, RequestsKnow, StepUpsAreTimely, SteppingUp
<1>4. TicketsFollow'
  BY <1>e DEF IInv, At, TicketsFollow
<1>5. CookiesKnow'
  BY <1>e, <1>v DEF IInv, CookiesKnow
<1>6. SignOutsKnow'
  BY <1>e, Numbers DEF IInv, At, Sids, SignOutsKnow, TypeOK
<1>7. ProofsAreDated'
  BY <1>e, <1>v DEF IInv, ProofsAreDated, SteppingUp, At
<1>8. OneProofPerAuthorization'
  BY <1>e DEF IInv, At, OneProofPerAuthorization, RequestsKnow
<1>9. ProofIsTheMembers'
  BY <1>e, <1>v DEF IInv, ProofIsTheMembers
<1>10. OneEach'
  BY <1>e DEF IInv, OneEach, At
<1>11. SessionsAgree'
  BY <1>e DEF IInv, SessionsAgree, Sids
<1>12. SessionsAreBounded'
  BY <1>e DEF IInv, SessionsAreBounded
<1> QED
  BY <1>1, <1>2, <1>3, <1>4, <1>5, <1>6, <1>7, <1>8, <1>9, <1>10, <1>11, <1>12 DEF IInv

(* Revocation is read live and held by no request. *)
LEMMA ChangeMemberKeeps ==
    ASSUME IInv, NEW p \in People, ChangeMember(p)
    PROVE  IInv'
<1>e. revoked' \subseteq revoked \cup {p} /\ UNCHANGED <<now, flow, ticket, cookies, signedOut, ended, enabled, request>>
  BY DEF ChangeMember, stored
<1>1. TypeOK'
  BY <1>e DEF IInv, At, TypeOK
<1>2. RequestsKnow'
  BY <1>e DEF IInv, RequestsKnow, Task, At, Spent
<1>3. StepUpsAreTimely'
  BY <1>e DEF IInv, StepUpsAreTimely, SteppingUp, At
<1>4. TicketsFollow'
  BY <1>e DEF IInv, TicketsFollow
<1>5. OneEach'
  BY <1>e DEF IInv, OneEach, At
<1>6. CookiesKnow'
  BY <1>e DEF IInv, CookiesKnow, Spent
<1>7. SessionsAgree'
  BY <1>e DEF IInv, SessionsAgree, Sids
<1>8. SignOutsKnow'
  BY <1>e DEF IInv, SignOutsKnow, Sids
<1>9. ProofsAreDated'
  BY <1>e DEF IInv, ProofsAreDated, SteppingUp, At
<1>10. OneProofPerAuthorization'
  BY <1>e DEF IInv, OneProofPerAuthorization, At
<1>11. ProofIsTheMembers'
  BY <1>e DEF IInv, ProofIsTheMembers
<1>12. SessionsAreBounded'
  BY <1>e DEF IInv, SessionsAreBounded
<1> QED
  BY <1>1, <1>2, <1>3, <1>4, <1>5, <1>6, <1>7, <1>8, <1>9, <1>10, <1>11, <1>12 DEF IInv

(* So is the provider's switch. *)
LEMMA ChangeProviderKeeps ==
    ASSUME IInv, ChangeProvider
    PROVE  IInv'
<1>e. enabled' = ~enabled /\ UNCHANGED <<now, flow, ticket, cookies, signedOut, ended, revoked, request>>
  BY DEF ChangeProvider, stored
<1>1. TypeOK'
  BY <1>e DEF IInv, At, TypeOK
<1>2. RequestsKnow'
  BY <1>e DEF IInv, RequestsKnow, Task, At, Spent
<1>3. StepUpsAreTimely'
  BY <1>e DEF IInv, StepUpsAreTimely, SteppingUp, At
<1>4. TicketsFollow'
  BY <1>e DEF IInv, TicketsFollow
<1>5. OneEach'
  BY <1>e DEF IInv, OneEach, At
<1>6. CookiesKnow'
  BY <1>e DEF IInv, CookiesKnow, Spent
<1>7. SessionsAgree'
  BY <1>e DEF IInv, SessionsAgree, Sids
<1>8. SignOutsKnow'
  BY <1>e DEF IInv, SignOutsKnow, Sids
<1>9. ProofsAreDated'
  BY <1>e DEF IInv, ProofsAreDated, SteppingUp, At
<1>10. OneProofPerAuthorization'
  BY <1>e DEF IInv, OneProofPerAuthorization, At
<1>11. ProofIsTheMembers'
  BY <1>e DEF IInv, ProofIsTheMembers
<1>12. SessionsAreBounded'
  BY <1>e DEF IInv, SessionsAreBounded
<1> QED
  BY <1>1, <1>2, <1>3, <1>4, <1>5, <1>6, <1>7, <1>8, <1>9, <1>10, <1>11, <1>12 DEF IInv

-----------------------------------------------------------------------------
(* Nothing is open, issued or running at the start. *)
LEMMA InitEstablishes == Init => IInv
<1> SUFFICES ASSUME Init PROVE IInv
  OBVIOUS
<1>1. cookies = {} /\ signedOut = {} /\ ended = {} /\ Sids = {}
  BY DEF Init, Sids
<1>2. \A q \in Requests : request[q] = Idle
  BY DEF Init
<1>3. TypeOK
  BY <1>1, <1>2, Numbers DEF Init, TypeOK, NoFlow, NoTicket, Stages, Idle, Doing, At
<1>4. RequestsKnow
  <2>1. request \in [Requests -> Task]
    BY Numbers DEF Init, Task, Idle, Doing
  <2> QED
    BY <1>2, <2>1 DEF RequestsKnow, Idle, Doing, At
<1>5. StepUpsAreTimely /\ OneEach
  BY <1>2 DEF StepUpsAreTimely, OneEach, SteppingUp, Idle, Doing, At
<1>6. TicketsFollow
  BY DEF Init, TicketsFollow, NoTicket
<1>7. CookiesKnow /\ SignOutsKnow /\ ProofsAreDated /\ ProofIsTheMembers /\ SessionsAreBounded
  BY <1>1 DEF CookiesKnow, SignOutsKnow, ProofsAreDated, ProofIsTheMembers, SessionsAreBounded
<1>8. SessionsAgree
  <2>1. 0 \in 0..MaxSessions /\ 1..0 = {}
    BY Numbers
  <2> QED
    BY <1>1, <2>1 DEF SessionsAgree
<1>9. OneProofPerAuthorization
  BY <1>1, <1>2 DEF OneProofPerAuthorization, Idle, Doing, At
<1> QED
  BY <1>3, <1>4, <1>5, <1>6, <1>7, <1>8, <1>9 DEF IInv

(* The invariant is about the variables alone. *)
LEMMA StutterKeeps == IInv /\ UNCHANGED vars => IInv'
<1> SUFFICES ASSUME IInv, UNCHANGED vars PROVE IInv'
  OBVIOUS
<1> USE DEF vars, stored
<1>1. TypeOK' /\ RequestsKnow' /\ TicketsFollow'
  BY DEF IInv, TypeOK, RequestsKnow, Task, TicketsFollow, Spent, At
<1>2. StepUpsAreTimely' /\ OneEach' /\ OneProofPerAuthorization'
  BY DEF IInv, StepUpsAreTimely, SteppingUp, OneEach, OneProofPerAuthorization, At
<1>3. CookiesKnow' /\ SessionsAgree' /\ SignOutsKnow'
  BY DEF IInv, CookiesKnow, Spent, SessionsAgree, SignOutsKnow, Sids
<1>4. ProofsAreDated' /\ ProofIsTheMembers' /\ SessionsAreBounded'
  BY DEF IInv, ProofsAreDated, SteppingUp, At, ProofIsTheMembers, SessionsAreBounded
<1> QED
  BY <1>1, <1>2, <1>3, <1>4 DEF IInv

(* Every handler, the clock, the sweep and the administrators keep it. *)
LEMMA StepKeeps == IInv /\ [Next]_vars => IInv'
<1> SUFFICES ASSUME IInv, [Next]_vars PROVE IInv'
  OBVIOUS
<1>1. ASSUME NEW f \in Flows, CreateAuthorizationURL(f) PROVE IInv'
  BY <1>1, CreateAuthorizationURLKeeps
<1>2. ASSUME NEW q \in Requests, Callback(q) PROVE IInv'
  BY <1>2, ConsumeAuthFlowKeeps, MintTicketKeeps DEF Callback
<1>3. ASSUME NEW q \in Requests, Redemption(q) PROVE IInv'
  BY <1>3, BeginRedeemKeeps, ConsumeTicketKeeps DEF Redemption
<1>4. ASSUME NEW q \in Requests, SignIn(q) \/ StepUp(q) PROVE IInv'
  BY <1>4, SignInKeeps, StepUpKeeps
<1>5. ASSUME NEW q \in Requests, SignOut(q) \/ \E c \in cookies : BeginSignOut(q, c) PROVE IInv'
  BY <1>5, BeginSignOutKeeps, SignOutKeeps
<1>6. ASSUME NEW q \in Requests, Abandon(q) PROVE IInv'
  BY <1>6, AbandonKeeps
<1>7. ASSUME Tick \/ Sweep \/ ChangeProvider \/ \E p \in People : ChangeMember(p) PROVE IInv'
  BY <1>7, TickKeeps, SweepKeeps, ChangeProviderKeeps, ChangeMemberKeeps
<1> QED
  BY <1>1, <1>2, <1>3, <1>4, <1>5, <1>6, <1>7, StutterKeeps DEF Next

(* Every reachable state satisfies the inductive invariant: identity's flows
   and tickets, auth's cookies and sign-outs, and the requests between them. *)
THEOREM Inductive == Spec => []IInv
BY InitEstablishes, StepKeeps, PTL DEF Spec

(* The tables, the cookies and the requests of identity and auth keep their
   types, and a request that spent a ticket knows whose it was.            *)
THEOREM TypeCorrect == Spec => []TypeOK
<1>1. IInv => TypeOK
  BY DEF IInv
<1> QED
  BY <1>1, Inductive, PTL

(* identity/service.go:309-345, flow.go:246-262: one authorization gives one
   proof, for any number of requests that race for it and tickets swept.   *)
THEOREM AuthorizationIsSpentOnce == Spec => []OneProofPerAuthorization
<1>1. IInv => OneProofPerAuthorization
  BY DEF IInv
<1> QED
  BY <1>1, Inductive, PTL

(* stepup.go:58-62: no session carries somebody else's proof. *)
THEOREM ProofIsNobodyElses == Spec => []ProofIsTheMembers
<1>1. IInv => ProofIsTheMembers
  BY DEF IInv
<1> QED
  BY <1>1, Inductive, PTL

(* api/stepup.go:55-62, stepup.go:158-161: for any lifetimes, a session ends
   when it was to end and is fresh for as long as its proof.               *)
THEOREM SessionsKeepTheirDates == Spec => []SessionsAreDated
<1>1. IInv => SessionsAreDated
  <2> SUFFICES ASSUME IInv PROVE StepUpIsDated
    BY DEF IInv, SessionsAreDated
  <2> SUFFICES ASSUME NEW c \in cookies, NEW d \in cookies, c.sid = d.sid, c.stepped < d.stepped,
                      SteppedUpWithin(d, Sensitive)
               PROVE  now - (ticket[d.via].expires - 1) < Sensitive
    BY DEF StepUpIsDated
  <2>1. /\ now \in Int /\ c.stepped \in Int /\ d.stepped \in Int /\ d.via \in Flows
        /\ ticket[d.via].expires \in Int
    BY Numbers DEF IInv, TypeOK, Cookie
  <2>2. d.stepped < ticket[d.via].expires
    BY <2>1 DEF IInv, ProofsAreDated
  <2> QED
    BY <2>1, <2>2, Numbers DEF SteppedUpWithin
<1> QED
  BY <1>1, Inductive, PTL

(* authenticator.go:241-265: no value of a session that somebody signed out of
   is accepted again, before or after the sweep forgets the sign-out.      *)
THEOREM SignOutIsFinal == Spec => []SignedOutStaysOut
<1>1. IInv => SignedOutStaysOut
  <2> SUFFICES ASSUME IInv, NEW c \in cookies, c.sid \in ended PROVE ~Accepted(c)
    BY DEF SignedOutStaysOut
  <2>1. now \in Int /\ c.expires \in Int
    BY Numbers DEF IInv, TypeOK, Cookie
  <2> QED
    BY <2>1 DEF IInv, SignOutsKnow, Accepted
<1> QED
  BY <1>1, Inductive, PTL

-----------------------------------------------------------------------------
(* The parts together. *)

PageProofs == INSTANCE SettingsProofs WITH
    Admins <- {"carol", "dave"}, Careless <- {"dave"},
    MaxChanges <- MaxSettingChanges, changes <- settingChanges

CatalogueProofs == INSTANCE NamesProofs WITH
    Editors <- Requests, Nobody <- None,
    Shipped <- <<[name |-> "vulakaerr", aliases |-> {"va"}]>>,
    File    <- <<[name |-> "vulak", to |-> 1], [name |-> "va", to |-> 2], [name |-> "vulakaerr", to |-> 2]>>,
    Starts  <- {<<s, s>> : s \in Spellings} \cup {<<"vulak", "vulakaerr">>},
    Within  <- {<<s, s>> : s \in Spellings} \cup {<<"vulak", "vulakaerr">>}

-----------------------------------------------------------------------------
(* A part of the instance runs as its own specification says. *)
LEMMA PageRuns == OneOf => Page!Spec
<1>1. OneOfInit => Page!Init
  BY DEF OneOfInit
<1>2. [OneOfNext]_<<vars, pageVars, catalogueVars, smallVars, side>> => [Page!Next]_(Page!vars)
  BY DEF OneOfNext, smallVars, pageVars, Page!vars, Page!budget
<1> QED
  BY <1>1, <1>2, PTL DEF OneOf, Page!Spec

(* The same of the catalogue. *)
LEMMA CatalogueRuns == OneOf => Catalogue!Spec
<1>1. OneOfInit => Catalogue!Init
  BY DEF OneOfInit
<1>2. [OneOfNext]_<<vars, pageVars, catalogueVars, smallVars, side>> => [Catalogue!Next]_(Catalogue!vars)
  BY DEF OneOfNext, catalogueVars, Catalogue!vars
<1> QED
  BY <1>1, <1>2, PTL DEF OneOf, Catalogue!Spec

(* The same of the way in. *)
LEMMA SignInRuns == OneOf => Spec
<1>1. OneOfInit => Init
  BY DEF OneOfInit
<1>2. [OneOfNext]_<<vars, pageVars, catalogueVars, smallVars, side>> => [Next]_vars
  BY DEF OneOfNext
<1> QED
  BY <1>1, <1>2, PTL DEF OneOf, Spec

(* The same of the key set. *)
LEMMA KeysRun == OneOf => Keys!Spec
<1>1. OneOfInit => Keys!Init
  BY DEF OneOfInit
<1>2. [OneOfNext]_<<vars, pageVars, catalogueVars, smallVars, side>> => [Keys!Next]_(Keys!vars)
  BY DEF OneOfNext, smallVars, keyVars, Keys!vars
<1> QED
  BY <1>1, <1>2, PTL DEF OneOf, Keys!Spec

(* The same of the bucket. *)
LEMMA MeterRuns == OneOf => Meter!Spec
<1>1. OneOfInit => Meter!Init
  BY DEF OneOfInit
<1>2. [OneOfNext]_<<vars, pageVars, catalogueVars, smallVars, side>> => [Meter!Next]_(Meter!vars)
  BY DEF OneOfNext, smallVars, meterVars, Meter!vars
<1> QED
  BY <1>1, <1>2, PTL DEF OneOf, Meter!Spec

(* The same of the ids. *)
LEMMA GeneratorRuns == OneOf => Generator!Spec
<1>1. OneOfInit => Generator!Init
  BY DEF OneOfInit
<1>2. [OneOfNext]_<<vars, pageVars, catalogueVars, smallVars, side>> => [Generator!Next]_(Generator!vars)
  BY DEF OneOfNext, smallVars, idVars, Generator!vars
<1> QED
  BY <1>1, <1>2, PTL DEF OneOf, Generator!Spec

-----------------------------------------------------------------------------
(* Settings, by its own theorems. *)
LEMMA PageIsPage == Page!Spec => PageProofs!Spec
<1>1. Page!Init => PageProofs!Init
  BY DEF Page!Init, Page!Switches, Page!NothingRead, PageProofs!Init,
    PageProofs!Switches, PageProofs!NothingRead
<1>2. [Page!Next]_(Page!vars) => [PageProofs!Next]_(PageProofs!vars)
  BY DEF Page!Next, Page!vars, Page!budget, Page!Request, Page!Authenticate,
    Page!Describe, Page!NotModified, Page!Apply, Page!Decide,
    Page!OpenWizard, Page!InstanceStep, Page!Tick, Page!Effective,
    Page!Tail, Page!Tails, Page!ChainTail, Page!ETag, Page!Reading,
    Page!Moves, Page!Appended, Page!Next1, Page!Matches, Page!Done,
    Page!Switches, Page!Ids, Page!NothingRead, Page!Cardinality,
    Page!IsFiniteSet, PageProofs!Next, PageProofs!vars, PageProofs!budget,
    PageProofs!Request, PageProofs!Authenticate, PageProofs!Describe,
    PageProofs!NotModified, PageProofs!Apply, PageProofs!Decide,
    PageProofs!OpenWizard, PageProofs!InstanceStep, PageProofs!Tick,
    PageProofs!Effective, PageProofs!Tail, PageProofs!Tails,
    PageProofs!ChainTail, PageProofs!ETag, PageProofs!Reading,
    PageProofs!Moves, PageProofs!Appended, PageProofs!Next1,
    PageProofs!Matches, PageProofs!Done, PageProofs!Switches,
    PageProofs!Ids, PageProofs!NothingRead, PageProofs!Cardinality,
    PageProofs!IsFiniteSet
<1> QED
  BY <1>1, <1>2, PTL DEF Page!Spec, PageProofs!Spec

(* What Settings assumes is what MCInstance assumes of it. *)
LEMMA PageAssumes == PageProofs!SettingsAssumption
BY PageAssumption DEF Page!SettingsAssumption, PageProofs!SettingsAssumption

(* settings.go:77-93: a tag that a reader still holds describes the present. *)
THEOREM TagsHold == OneOf => []TagsDoNotRepeat
<1>1. PageProofs!TagsDoNotRepeat => TagsDoNotRepeat
  BY DEF TagsDoNotRepeat,
       Page!TagsDoNotRepeat, Page!ETag, Page!ChainTail, Page!Tails,
    PageProofs!TagsDoNotRepeat, PageProofs!ETag, PageProofs!ChainTail,
    PageProofs!Tails
<1>2. PageProofs!Spec => []PageProofs!TagsDoNotRepeat
  BY PageAssumes, PageProofs!TagsHold
<1> QED
  BY <1>1, <1>2, PageRuns, PageIsPage, PTL

(* instancegrant/service.go:379-417: the head of either chain is its last row. *)
THEOREM HeadsAreLatest == OneOf => []CurrentIsTheLatest
<1>1. PageProofs!CurrentIsTheLatest => CurrentIsTheLatest
  BY DEF CurrentIsTheLatest,
       Page!CurrentIsTheLatest, Page!ChainTail, Page!Tails, Page!Tail,
    Page!Cardinality, Page!IsFiniteSet, PageProofs!CurrentIsTheLatest,
    PageProofs!ChainTail, PageProofs!Tails, PageProofs!Tail,
    PageProofs!Cardinality, PageProofs!IsFiniteSet
<1>2. PageProofs!Spec => []PageProofs!CurrentIsTheLatest
  BY PageAssumes, PageProofs!HeadsAreLatest
<1> QED
  BY <1>1, <1>2, PageRuns, PageIsPage, PTL

(* settings.go:213-233: nobody extends a ledger who had not read all of it,
   but for a client that sends `If-Match: *`.                              *)
THEOREM WritersHaveRead == OneOf => NothingUnseenIsReplaced
<1>1. PageProofs!NothingUnseenIsReplaced => NothingUnseenIsReplaced
  BY DEF NothingUnseenIsReplaced,
       Page!NothingUnseenIsReplaced, Page!vars, Page!budget,
    PageProofs!NothingUnseenIsReplaced, PageProofs!vars, PageProofs!budget
<1>2. PageProofs!Spec => PageProofs!NothingUnseenIsReplaced
  BY PageAssumes, PageProofs!WritersHaveRead
<1> QED
  BY <1>1, <1>2, PageRuns, PageIsPage, PTL

-----------------------------------------------------------------------------
(* The catalogue, by its own. *)
LEMMA CatalogueIsCatalogue == Catalogue!Spec => CatalogueProofs!Spec
<1>1. Catalogue!Init => CatalogueProofs!Init
  BY DEF Catalogue!Init, Catalogue!NoTarget, Catalogue!NoUpdate,
    Catalogue!NoLookup, Catalogue!NoSeed, Catalogue!Targets,
    CatalogueProofs!Init, CatalogueProofs!NoTarget,
    CatalogueProofs!NoUpdate, CatalogueProofs!NoLookup,
    CatalogueProofs!NoSeed, CatalogueProofs!Targets
<1>2. [Catalogue!Next]_(Catalogue!vars) => [CatalogueProofs!Next]_(CatalogueProofs!vars)
  <2>1. ASSUME NEW name, NEW aliases 
        PROVE  Catalogue!Create(name, aliases) <=> CatalogueProofs!Create(name, aliases)
    BY DEF Catalogue!Create, Catalogue!Spend, Catalogue!Known,
      Catalogue!Targets, Catalogue!CheckNamespace, Catalogue!Claims,
      Catalogue!Fresh, CatalogueProofs!Create, CatalogueProofs!Spend,
      CatalogueProofs!Known, CatalogueProofs!Targets,
      CatalogueProofs!CheckNamespace, CatalogueProofs!Claims,
      CatalogueProofs!Fresh
  <2>2. ASSUME NEW q 
        PROVE  Catalogue!CommitUpdate(q) <=> CatalogueProofs!CommitUpdate(q)
    BY DEF Catalogue!CommitUpdate, Catalogue!CheckNamespace,
      Catalogue!Claims, Catalogue!Known, Catalogue!Targets,
      Catalogue!NoUpdate, Catalogue!NoTarget, CatalogueProofs!CommitUpdate,
      CatalogueProofs!CheckNamespace, CatalogueProofs!Claims,
      CatalogueProofs!Known, CatalogueProofs!Targets,
      CatalogueProofs!NoUpdate, CatalogueProofs!NoTarget
  <2>3. ASSUME NEW q, NEW t 
        PROVE  Catalogue!BeginUpdate(q, t) <=> CatalogueProofs!BeginUpdate(q, t)
    BY DEF Catalogue!BeginUpdate, Catalogue!Spend, Catalogue!Known,
      Catalogue!Targets, Catalogue!Patches, Catalogue!NoUpdate,
      Catalogue!NoTarget, CatalogueProofs!BeginUpdate,
      CatalogueProofs!Spend, CatalogueProofs!Known, CatalogueProofs!Targets,
      CatalogueProofs!Patches, CatalogueProofs!NoUpdate,
      CatalogueProofs!NoTarget
  <2>4. ASSUME NEW n 
        PROVE  Catalogue!ReadNames(n) <=> CatalogueProofs!ReadNames(n)
    BY DEF Catalogue!ReadNames, Catalogue!NoLookup, Catalogue!NoSeed,
      Catalogue!Owners, Catalogue!Claims, Catalogue!Known,
      Catalogue!Targets, CatalogueProofs!ReadNames,
      CatalogueProofs!NoLookup, CatalogueProofs!NoSeed,
      CatalogueProofs!Owners, CatalogueProofs!Claims, CatalogueProofs!Known,
      CatalogueProofs!Targets
  <2>5. Catalogue!ReadAliases <=> CatalogueProofs!ReadAliases
    BY DEF Catalogue!ReadAliases, Catalogue!ResolveIn, Catalogue!Rungs,
      Catalogue!AliasesNow, Catalogue!Known, Catalogue!Targets,
      CatalogueProofs!ReadAliases, CatalogueProofs!ResolveIn,
      CatalogueProofs!Rungs, CatalogueProofs!AliasesNow,
      CatalogueProofs!Known, CatalogueProofs!Targets
  <2>6. Catalogue!Told <=> CatalogueProofs!Told
    BY DEF Catalogue!Told, Catalogue!NoLookup, CatalogueProofs!Told,
      CatalogueProofs!NoLookup
  <2>7. Catalogue!SeedTargets <=> CatalogueProofs!SeedTargets
    BY DEF Catalogue!SeedTargets, Catalogue!RoomToShip, Catalogue!Known,
      Catalogue!Targets, Catalogue!ShippedInto, Catalogue!Ship,
      Catalogue!Owners, Catalogue!Claims, Catalogue!Fresh,
      Catalogue!Cardinality, Catalogue!IsFiniteSet,
      CatalogueProofs!SeedTargets, CatalogueProofs!RoomToShip,
      CatalogueProofs!Known, CatalogueProofs!Targets,
      CatalogueProofs!ShippedInto, CatalogueProofs!Ship,
      CatalogueProofs!Owners, CatalogueProofs!Claims, CatalogueProofs!Fresh,
      CatalogueProofs!Cardinality, CatalogueProofs!IsFiniteSet
  <2>8. Catalogue!BeginSeed <=> CatalogueProofs!BeginSeed
    BY DEF Catalogue!BeginSeed, Catalogue!NoSeed, Catalogue!NoLookup,
      Catalogue!Spend, CatalogueProofs!BeginSeed, CatalogueProofs!NoSeed,
      CatalogueProofs!NoLookup, CatalogueProofs!Spend
  <2>9. Catalogue!ResolveSeed <=> CatalogueProofs!ResolveSeed
    BY DEF Catalogue!ResolveSeed, Catalogue!ResolveIn, Catalogue!Rungs,
      Catalogue!AliasesNow, Catalogue!Known, Catalogue!Targets,
      Catalogue!Groups, Catalogue!NoSeed, Catalogue!Cardinality,
      Catalogue!IsFiniteSet, CatalogueProofs!ResolveSeed,
      CatalogueProofs!ResolveIn, CatalogueProofs!Rungs,
      CatalogueProofs!AliasesNow, CatalogueProofs!Known,
      CatalogueProofs!Targets, CatalogueProofs!Groups,
      CatalogueProofs!NoSeed, CatalogueProofs!Cardinality,
      CatalogueProofs!IsFiniteSet
  <2>10. Catalogue!ApplySeedWindow <=> CatalogueProofs!ApplySeedWindow
    BY DEF Catalogue!ApplySeedWindow, Catalogue!Min, Catalogue!Max,
      CatalogueProofs!ApplySeedWindow, CatalogueProofs!Min,
      CatalogueProofs!Max
  <2>11. Catalogue!EndSeed <=> CatalogueProofs!EndSeed
    BY DEF Catalogue!EndSeed, Catalogue!NoSeed, CatalogueProofs!EndSeed,
      CatalogueProofs!NoSeed
  <2>12. Catalogue!vars = CatalogueProofs!vars /\ Catalogue!Targets = CatalogueProofs!Targets
    BY DEF Catalogue!vars, Catalogue!Targets, CatalogueProofs!vars,
      CatalogueProofs!Targets
  <2>13. Catalogue!Request => CatalogueProofs!Request
    <3>1. (\E name \in Spellings, aliases \in SUBSET Spellings : Catalogue!Create(name, aliases))
             => CatalogueProofs!Request
      BY <2>1 DEF CatalogueProofs!Request
    <3>2. (\E q \in Requests : Catalogue!CommitUpdate(q)) => CatalogueProofs!Request
      BY <2>2 DEF CatalogueProofs!Request
    <3>3. (\E q \in Requests : \E t \in Catalogue!Targets : Catalogue!BeginUpdate(q, t))
             => CatalogueProofs!Request
      BY <2>3, <2>12 DEF CatalogueProofs!Request
    <3>4. (\E n \in Spellings : Catalogue!ReadNames(n)) => CatalogueProofs!Request
      BY <2>4 DEF CatalogueProofs!Request
    <3>5. Catalogue!ReadAliases \/ Catalogue!Told => CatalogueProofs!Request
      BY <2>5, <2>6 DEF CatalogueProofs!Request
    <3> QED
      BY <3>1, <3>2, <3>3, <3>4, <3>5 DEF Catalogue!Request
  <2>14. Catalogue!SeedCommand => CatalogueProofs!SeedCommand
    BY <2>7, <2>8, <2>9, <2>10, <2>11 DEF Catalogue!SeedCommand, CatalogueProofs!SeedCommand
  <2>15. UNCHANGED Catalogue!vars => UNCHANGED CatalogueProofs!vars
    BY DEF Catalogue!vars, CatalogueProofs!vars
  <2> QED
    BY <2>13, <2>14, <2>15 DEF Catalogue!Next, CatalogueProofs!Next
<1> QED
  BY <1>1, <1>2, PTL DEF Catalogue!Spec, CatalogueProofs!Spec

(* What Names assumes is what MCInstance assumes of it. *)
LEMMA CatalogueAssumes == CatalogueProofs!NamesAssumption
BY CatalogueAssumption DEF Catalogue!NamesAssumption, CatalogueProofs!NamesAssumption

(* resolve.go:26-31: a target's own spelling is never answered with another. *)
THEOREM ExactHolds == OneOf => []ExactIsNeverOutranked
<1>1. CatalogueProofs!ExactIsNeverOutranked => ExactIsNeverOutranked
  BY DEF ExactIsNeverOutranked, Catalogue!ExactIsNeverOutranked,
         CatalogueProofs!ExactIsNeverOutranked
<1>2. CatalogueProofs!Spec => []CatalogueProofs!ExactIsNeverOutranked
  BY CatalogueAssumes, CatalogueProofs!ExactHolds
<1> QED
  BY <1>1, <1>2, CatalogueRuns, CatalogueIsCatalogue, PTL

(* seed.go:208-238, embedded.go:400-407: a seed that stops may be run again. *)
THEOREM SeedsHold == OneOf => []SeedsMayBeRunAgain
<1>1. CatalogueProofs!SeedsMayBeRunAgain => SeedsMayBeRunAgain
  BY DEF SeedsMayBeRunAgain,
       Catalogue!SeedsMayBeRunAgain, Catalogue!RoomToShip,
    Catalogue!ShippedInto, Catalogue!Ship, Catalogue!Fresh,
    Catalogue!Owners, Catalogue!Claims, Catalogue!Known, Catalogue!Targets,
    Catalogue!Max, Catalogue!Cardinality, Catalogue!IsFiniteSet,
    CatalogueProofs!SeedsMayBeRunAgain, CatalogueProofs!RoomToShip,
    CatalogueProofs!ShippedInto, CatalogueProofs!Ship,
    CatalogueProofs!Fresh, CatalogueProofs!Owners, CatalogueProofs!Claims,
    CatalogueProofs!Known, CatalogueProofs!Targets, CatalogueProofs!Max,
    CatalogueProofs!Cardinality, CatalogueProofs!IsFiniteSet
<1>2. CatalogueProofs!Spec => []CatalogueProofs!SeedsMayBeRunAgain
  BY CatalogueAssumes, CatalogueProofs!SeedsHold
<1> QED
  BY <1>1, <1>2, CatalogueRuns, CatalogueIsCatalogue, PTL

-----------------------------------------------------------------------------
(* The ids.  Every id has a millisecond and entropy, and the last is after the
   others; so an id after the last is after all of them.                    *)
IdSet == [ms : Int, entropy : Int]

IdsInv ==
    /\ wall \in Int
    /\ minted \in Seq(IdSet)
    /\ Generator!IdsRise

(* New: a later millisecond, or the last one with more entropy. *)
LEMMA NewIdIsLater == ASSUME IdsInv, Generator!New PROVE IdsInv'
<1> DEFINE last == minted[Len(minted)]
<1>1. PICK id : /\ id \in IF Generator!Reuses THEN Generator!Increment(Generator!LastId)
                          ELSE [ms : {wall}, entropy : 0..MaxEntropy]
                /\ minted' = Append(minted, id)
  BY DEF Generator!New
<1>2. Len(minted) \in Nat /\ wall' = wall
  BY DEF IdsInv, Generator!New
<1>3. minted # <<>> => last \in IdSet /\ Len(minted) >= 1
  BY <1>2 DEF IdsInv
<1>4. id \in IdSet /\ (minted # <<>> => Generator!Before(last, id))
  <2>1. CASE Generator!Reuses
    <3>1. minted # <<>> /\ Generator!LastId = last
      BY <2>1 DEF Generator!Reuses, Generator!Minted, Generator!LastId
    <3>2. PICK e \in {last.entropy + 1} \cap 0..MaxEntropy : id = [last EXCEPT !.entropy = e]
      BY <1>1, <2>1, <3>1 DEF Generator!Increment
    <3>3. id.ms = last.ms /\ id.entropy = last.entropy + 1 /\ id \in IdSet
      BY <1>3, <3>1, <3>2 DEF IdSet
    <3> QED
      BY <1>3, <3>1, <3>3 DEF Generator!Before, IdSet
  <2>2. CASE ~ Generator!Reuses
    <3>1. id \in [ms : {wall}, entropy : 0..MaxEntropy]
      BY <1>1, <2>2
    <3>2. id \in IdSet /\ id.ms = wall
      BY <3>1 DEF IdSet, IdsInv
    <3>3. minted # <<>> => last.ms < wall
      BY <1>3, <2>2 DEF Generator!Reuses, Generator!Minted, Generator!LastId, IdSet, IdsInv
    <3> QED
      BY <3>2, <3>3 DEF Generator!Before
  <2> QED
    BY <2>1, <2>2
<1>5. minted' \in Seq(IdSet) /\ Len(minted') = Len(minted) + 1 /\ DOMAIN minted' = 1..(Len(minted) + 1)
  BY <1>1, <1>2, <1>4 DEF IdsInv
<1>6. \A i \in 1..Len(minted) : minted'[i] = minted[i] /\ minted[i] \in IdSet
  BY <1>1, <1>2, <1>4 DEF IdsInv
<1>7. minted'[Len(minted) + 1] = id
  BY <1>1, <1>2, <1>4 DEF IdsInv
<1>8. ASSUME NEW i \in DOMAIN minted', NEW j \in DOMAIN minted', i < j
      PROVE  Generator!Before(minted'[i], minted'[j])
  <2>1. i \in 1..Len(minted) /\ (j \in 1..Len(minted) \/ j = Len(minted) + 1)
    BY <1>2, <1>5, <1>8
  <2>2. CASE j \in 1..Len(minted)
    BY <1>6, <1>8, <2>1, <2>2 DEF IdsInv, Generator!IdsRise
  <2>3. CASE j = Len(minted) + 1
    <3>1. minted # <<>> /\ last \in IdSet /\ Generator!Before(last, id)
      BY <1>2, <1>3, <1>4, <2>1
    <3>2. minted[i] = last \/ Generator!Before(minted[i], last)
      BY <1>2, <2>1 DEF IdsInv, Generator!IdsRise
    <3>3. Generator!Before(minted[i], id)
      BY <1>4, <1>6, <2>1, <3>1, <3>2 DEF Generator!Before, IdSet
    <3> QED
      BY <1>6, <1>7, <2>1, <2>3, <3>3
  <2> QED
    BY <2>1, <2>2, <2>3
<1> QED
  BY <1>2, <1>5, <1>8 DEF IdsInv, Generator!IdsRise

(* ulid.go:176-193: whatever the wall clock does, for any number of ids. *)
THEOREM IdsKeepRising == OneOf => []IdsRise
<1>1. Generator!Init => IdsInv
  BY DEF Generator!Init, IdsInv, Generator!IdsRise
<1>2. IdsInv /\ [Generator!Next]_(Generator!vars) => IdsInv'
  <2> SUFFICES ASSUME IdsInv, [Generator!Next]_(Generator!vars) PROVE IdsInv'
    OBVIOUS
  <2>1. CASE Generator!New
    BY <2>1, NewIdIsLater
  <2>2. CASE Generator!SetClock
    BY <2>2 DEF Generator!SetClock, IdsInv, Generator!IdsRise, Generator!Before
  <2>3. CASE UNCHANGED Generator!vars
    BY <2>3 DEF Generator!vars, IdsInv, Generator!IdsRise, Generator!Before
  <2> QED
    BY <2>1, <2>2, <2>3 DEF Generator!Next
<1>3. IdsInv => IdsRise
  BY DEF IdsInv, IdsRise
<1> QED
  BY <1>1, <1>2, <1>3, GeneratorRuns, PTL DEF Generator!Spec

-----------------------------------------------------------------------------
(* The key set.  A key that is no longer published was taken out after the set
   it is in was asked for; and a set that has worked is as old as the last
   attempt, unless nothing was ever asked for.                              *)
KeyCacheSet == [keys : SUBSET Kids, fetchedAt : Int, lastAttempt : Int, ok : BOOLEAN]

VerifierSet == [at : {"idle", "fetch", "served", "answered"}, kid : Kids \cup {None},
                why : {"stale", "unknown"}, since : Int, read : Int, keys : SUBSET Kids]

KeysTyped ==
    /\ keyNow \in Int /\ MinRefresh <= keyNow
    /\ published \in SUBSET Kids /\ withdrawn \in [Kids -> Int]
    /\ cache \in KeyCacheSet /\ verifier \in VerifierSet
    /\ cache.lastAttempt <= keyNow /\ cache.fetchedAt <= keyNow
    /\ before \in [at : Int, ok : BOOLEAN]

WithdrawnSince(keys, t) == \A k \in keys \ published : withdrawn[k] >= t

SetsAreAsOldAsAsked ==
    /\ WithdrawnSince(cache.keys, cache.fetchedAt)
    /\ verifier.at \in {"fetch", "served"} => verifier.since = cache.lastAttempt
    /\ verifier.at = "served" => WithdrawnSince(verifier.keys, verifier.since)
    /\ verifier.at \in {"idle", "answered"} /\ cache.ok /\ cache.keys # {} =>
         cache.fetchedAt = cache.lastAttempt
    /\ verifier.at \in {"idle", "answered"} /\ cache.ok /\ cache.keys = {} =>
         verifier.at = "idle" /\ cache.lastAttempt = 0

AnswersAreCurrent ==
    verifier.at = "answered" =>
      /\ verifier.read <= keyNow /\ Cardinality(verifier.keys) <= 1
      /\ \A k \in verifier.keys \ published : verifier.read - withdrawn[k] < KeyTTL

KeysInv ==
    /\ KeysTyped /\ SetsAreAsOldAsAsked /\ AnswersAreCurrent
    /\ verifier.at = "fetch" /\ before.ok => verifier.since - before.at >= MinRefresh

(* A verifier, field by field. *)
V(at, kid, why, since, read, keys) ==
    [at |-> at, kid |-> kid, why |-> why, since |-> since, read |-> read, keys |-> keys]

(* What is looked up is one key of the set at most. *)
LEMMA LookupIsOneKey ==
    ASSUME NEW keys \in SUBSET Kids, NEW kid
    PROVE  Keys!Lookup(keys, kid) \subseteq keys /\ Cardinality(Keys!Lookup(keys, kid)) <= 1
<1>1. CASE kid \in Kids
  <2>1. Keys!Lookup(keys, kid) = keys \cap {kid}
    BY <1>1 DEF Keys!Lookup
  <2>2. keys \cap {kid} = {} \/ keys \cap {kid} = {kid}
    OBVIOUS
  <2>3. Cardinality({}) = 0 /\ Cardinality({kid}) = 1
    BY FS_EmptySet, FS_Singleton
  <2> QED
    BY <2>1, <2>2, <2>3
<1>2. CASE kid \notin Kids /\ Keys!Cardinality(keys) = 1
  <2>1. Keys!Lookup(keys, kid) = keys
    BY <1>2 DEF Keys!Lookup
  <2>2. Cardinality(keys) = 1
    BY <1>2 DEF Keys!Cardinality, Cardinality, Keys!IsFiniteSet, IsFiniteSet
  <2> QED
    BY <2>1, <2>2
<1>3. CASE kid \notin Kids /\ Keys!Cardinality(keys) # 1
  <2>1. Keys!Lookup(keys, kid) = {}
    BY <1>3 DEF Keys!Lookup
  <2> QED
    BY <2>1, FS_EmptySet
<1> QED
  BY <1>1, <1>2, <1>3

(* A request begins: of the attempt before it is remembered when it was and
   whether it worked, which must be an interval ago if it did.              *)
LEMMA FetchKeeps ==
    ASSUME Keys!KeySetAssumption, KeysTyped, NEW kid \in Kids \cup {None}, NEW why \in {"stale", "unknown"},
           NEW old \in KeyCacheSet,
           WithdrawnSince(old.keys, old.fetchedAt), old.fetchedAt <= keyNow,
           old.ok => keyNow - old.lastAttempt >= MinRefresh,
           UNCHANGED <<keyNow, published, withdrawn>>,
           verifier' = V("fetch", kid, why, keyNow, 0, {}),
           before' = [at |-> old.lastAttempt, ok |-> old.ok],
           cache' = [old EXCEPT !.lastAttempt = keyNow]
    PROVE  KeysInv'
<1>1. /\ cache' \in KeyCacheSet /\ cache'.lastAttempt = keyNow
      /\ cache'.keys = old.keys /\ cache'.fetchedAt = old.fetchedAt
  BY DEF KeyCacheSet, KeysTyped
<1>2. verifier' \in VerifierSet /\ verifier'.at = "fetch" /\ verifier'.since = keyNow
  BY DEF V, VerifierSet, KeysTyped
<1>3. /\ before' \in [at : Int, ok : BOOLEAN]
      /\ before'.ok => keyNow - before'.at >= MinRefresh
  BY DEF KeyCacheSet
<1>4. KeysTyped'
  BY <1>1, <1>2, <1>3 DEF KeysTyped
<1>5. SetsAreAsOldAsAsked'
  BY <1>1, <1>2 DEF SetsAreAsOldAsAsked, WithdrawnSince
<1> QED
  BY <1>2, <1>3, <1>4, <1>5 DEF KeysInv, AnswersAreCurrent

(* An answer from a set that was asked for less than a lifetime ago. *)
LEMMA GiveKeeps ==
    ASSUME Keys!KeySetAssumption, KeysTyped, NEW kid \in Kids \cup {None}, NEW new \in KeyCacheSet,
           new.keys # {}, WithdrawnSince(new.keys, new.fetchedAt),
           keyNow - new.fetchedAt < KeyTTL, new.fetchedAt <= keyNow, new.lastAttempt <= keyNow,
           new.ok => new.fetchedAt = new.lastAttempt,
           UNCHANGED <<keyNow, published, withdrawn, before>>,
           verifier' = V("answered", kid, "stale", 0, keyNow, Keys!Lookup(new.keys, kid)),
           cache' = new
    PROVE  KeysInv'
<1>1. /\ new.keys \in SUBSET Kids /\ new.fetchedAt \in Int
  BY DEF KeyCacheSet
<1>2. Keys!Lookup(new.keys, kid) \subseteq new.keys /\ Cardinality(Keys!Lookup(new.keys, kid)) <= 1
  BY <1>1, LookupIsOneKey
<1>3. /\ verifier' \in VerifierSet /\ verifier'.at = "answered" /\ verifier'.read = keyNow
      /\ verifier'.keys = Keys!Lookup(new.keys, kid)
  BY <1>1, <1>2 DEF V, VerifierSet, KeysTyped
<1>4. KeysTyped'
  BY <1>3 DEF KeysTyped
<1>5. SetsAreAsOldAsAsked'
  BY <1>3 DEF SetsAreAsOldAsAsked, WithdrawnSince
<1>6. AnswersAreCurrent'
  <2>1. ASSUME NEW k \in verifier'.keys \ published' PROVE verifier'.read - withdrawn'[k] < KeyTTL
    <3>1. k \in new.keys \ published /\ withdrawn[k] >= new.fetchedAt
      BY <1>2, <1>3 DEF WithdrawnSince
    <3>2. withdrawn[k] \in Int /\ keyNow \in Int
      BY <1>1, <3>1 DEF KeysTyped
    <3>3. KeyTTL \in Int
      BY DEF Keys!KeySetAssumption
    <3> QED
      BY <1>1, <1>3, <3>1, <3>2, <3>3
  <2> QED
    BY <1>2, <1>3, <2>1 DEF AnswersAreCurrent, KeysTyped
<1> QED
  BY <1>3, <1>4, <1>5, <1>6 DEF KeysInv

(* keyFor: a set that is stale, or lacks the key, or has it. *)
LEMMA KeyForKeeps ==
    ASSUME Keys!KeySetAssumption, KeysInv, NEW kid \in Kids \cup {None}, Keys!KeyFor(kid) PROVE KeysInv'
<1>1. verifier.at = "idle" /\ UNCHANGED <<keyNow, published, withdrawn>>
  BY DEF Keys!KeyFor, Keys!Nowhere
<1>2. cache \in KeyCacheSet /\ KeysTyped /\ WithdrawnSince(cache.keys, cache.fetchedAt)
  BY DEF KeysInv, KeysTyped, SetsAreAsOldAsAsked
<1>3. ASSUME NEW why \in {"stale", "unknown"}, Keys!Fetch(kid, why), cache.ok => keyNow - cache.lastAttempt >= MinRefresh
      PROVE  KeysInv'
  <2>1. /\ verifier' = V("fetch", kid, why, keyNow, 0, {})
        /\ before' = [at |-> cache.lastAttempt, ok |-> cache.ok]
        /\ cache' = [cache EXCEPT !.lastAttempt = keyNow]
    BY <1>3 DEF Keys!Fetch, Keys!Nowhere, V
  <2>2. cache.fetchedAt <= keyNow
    BY <1>2 DEF KeysTyped
  <2> QED
    BY <1>1, <1>2, <1>3, <2>1, <2>2, FetchKeeps
<1>4. CASE Keys!Stale
  <2>1. cache.ok => keyNow - cache.lastAttempt >= MinRefresh
    <3>1. CASE cache.ok /\ cache.keys = {}
      <4>1. cache.lastAttempt = 0
        BY <1>1, <3>1 DEF KeysInv, SetsAreAsOldAsAsked
      <4> QED
        BY <4>1, <1>2 DEF KeysTyped, Keys!KeySetAssumption
    <3>2. CASE cache.ok /\ cache.keys # {}
      <4>1. cache.fetchedAt = cache.lastAttempt
        BY <1>1, <3>2 DEF KeysInv, SetsAreAsOldAsAsked
      <4>2. keyNow - cache.lastAttempt >= KeyTTL
        BY <1>4, <3>2, <4>1 DEF Keys!Stale
      <4> QED
        BY <4>2, <1>2 DEF KeysTyped, KeyCacheSet, Keys!KeySetAssumption
    <3> QED
      BY <3>1, <3>2
  <2> QED
    BY <1>3, <1>4, <2>1 DEF Keys!KeyFor
<1>5. CASE ~ Keys!Stale /\ Keys!Lookup(cache.keys, kid) = {} /\ Keys!MayRefetch
  BY <1>3, <1>5 DEF Keys!KeyFor, Keys!MayRefetch
<1>6. CASE ~ Keys!Stale /\ ~ (Keys!Lookup(cache.keys, kid) = {} /\ Keys!MayRefetch)
  <2>1. cache' = cache /\ Keys!Give(cache.keys, kid)
    BY <1>6 DEF Keys!KeyFor
  <2>2. before' = before /\ verifier' = V("answered", kid, "stale", 0, keyNow, Keys!Lookup(cache.keys, kid))
    BY <2>1 DEF Keys!Give, Keys!Nowhere, V
  <2>3. cache.keys # {} /\ keyNow - cache.fetchedAt < KeyTTL
    BY <1>2, <1>6 DEF Keys!Stale, KeysTyped, KeyCacheSet, Keys!KeySetAssumption
  <2>4. /\ cache.fetchedAt <= keyNow /\ cache.lastAttempt <= keyNow
        /\ cache.ok => cache.fetchedAt = cache.lastAttempt
    BY <1>1, <2>3 DEF KeysInv, KeysTyped, SetsAreAsOldAsAsked
  <2> QED
    BY <1>1, <1>2, <2>1, <2>2, <2>3, <2>4, GiveKeeps
<1> QED
  BY <1>4, <1>5, <1>6

(* The issuer's answer is the document of that moment. *)
LEMMA ServeKeeps == ASSUME KeysInv, Keys!Serve PROVE KeysInv'
<1>1. /\ verifier.at = "fetch" /\ UNCHANGED <<keyNow, published, withdrawn, cache, before>>
      /\ verifier' = [verifier EXCEPT !.at = "served", !.keys = published]
  BY DEF Keys!Serve
<1>2. verifier \in VerifierSet /\ published \in SUBSET Kids
  BY DEF KeysInv, KeysTyped
<1>3. verifier' = V("served", verifier.kid, verifier.why, verifier.since, verifier.read, published)
  BY <1>1, <1>2 DEF V, VerifierSet
<1>4. /\ verifier' \in VerifierSet /\ verifier'.at = "served" /\ verifier'.since = verifier.since
      /\ verifier'.keys = published
  BY <1>2, <1>3 DEF V, VerifierSet
<1> QED
  BY <1>1, <1>4 DEF KeysInv, KeysTyped, SetsAreAsOldAsAsked, WithdrawnSince, AnswersAreCurrent

(* A set that arrived in time is an answer, or leads to a second request. *)
LEMMA FetchedKeeps == ASSUME Keys!KeySetAssumption, KeysInv, Keys!Fetched PROVE KeysInv'
<1> DEFINE got == [cache EXCEPT !.keys = verifier.keys, !.fetchedAt = verifier.since, !.ok = TRUE]
           kid == verifier.kid
<1>1. /\ verifier.at = "served" /\ verifier.keys # {} /\ keyNow - verifier.since <= FetchTimeout
      /\ UNCHANGED <<keyNow, published, withdrawn>>
  BY DEF Keys!Fetched
<1>2. KeysTyped /\ kid \in Kids \cup {None} /\ verifier.keys \in SUBSET Kids /\ verifier.since \in Int
  BY DEF KeysInv, KeysTyped, VerifierSet
<1>3. /\ got \in KeyCacheSet /\ got.keys = verifier.keys /\ got.fetchedAt = verifier.since
      /\ got.lastAttempt = cache.lastAttempt /\ got.ok = TRUE
  BY <1>2 DEF KeysTyped, KeyCacheSet
<1>4. /\ verifier.since = cache.lastAttempt /\ WithdrawnSince(verifier.keys, verifier.since)
      /\ cache.lastAttempt <= keyNow
  BY <1>1 DEF KeysInv, KeysTyped, SetsAreAsOldAsAsked
<1>5. /\ IF verifier.why = "stale" /\ Keys!Lookup(got.keys, kid) = {} /\ Keys!MayRefetch
         THEN /\ verifier' = V("fetch", kid, "unknown", keyNow, 0, {})
              /\ before' = [at |-> cache.lastAttempt, ok |-> TRUE]
              /\ cache' = [got EXCEPT !.lastAttempt = keyNow]
         ELSE Keys!Give(got.keys, kid) /\ cache' = got
  BY DEF Keys!Fetched, Keys!Stamped, Keys!Nowhere, V
<1> HIDE DEF got
<1>6. CASE verifier.why = "stale" /\ Keys!Lookup(got.keys, kid) = {} /\ Keys!MayRefetch
  <2>1. keyNow - got.lastAttempt >= MinRefresh
    BY <1>3, <1>6 DEF Keys!MayRefetch
  <2>2. before' = [at |-> got.lastAttempt, ok |-> got.ok]
    BY <1>3, <1>5, <1>6
  <2>3. /\ verifier' = V("fetch", kid, "unknown", keyNow, 0, {})
        /\ cache' = [got EXCEPT !.lastAttempt = keyNow]
    BY <1>5, <1>6
  <2>4. WithdrawnSince(got.keys, got.fetchedAt) /\ got.fetchedAt <= keyNow
    BY <1>3, <1>4
  <2> QED
    BY <1>1, <1>2, <1>3, <2>1, <2>2, <2>3, <2>4, FetchKeeps
<1>7. CASE ~ (verifier.why = "stale" /\ Keys!Lookup(got.keys, kid) = {} /\ Keys!MayRefetch)
  <2>1. cache' = got /\ before' = before
        /\ verifier' = V("answered", kid, "stale", 0, keyNow, Keys!Lookup(got.keys, kid))
    BY <1>5, <1>7 DEF Keys!Give, Keys!Nowhere, V
  <2>2. keyNow - got.fetchedAt < KeyTTL
    BY <1>1, <1>2, <1>3 DEF KeysTyped, Keys!KeySetAssumption
  <2>3. /\ got.keys # {} /\ WithdrawnSince(got.keys, got.fetchedAt)
        /\ got.fetchedAt <= keyNow /\ got.lastAttempt <= keyNow /\ got.fetchedAt = got.lastAttempt
    BY <1>1, <1>3, <1>4
  <2> QED
    BY <1>1, <1>2, <1>3, <2>1, <2>2, <2>3, GiveKeeps
<1> QED
  BY <1>6, <1>7

(* A request that failed leaves the set, and is remembered to have failed. *)
LEMMA FailedKeeps == ASSUME KeysInv, Keys!Failed PROVE KeysInv'
<1>1. /\ cache' = [cache EXCEPT !.ok = FALSE] /\ verifier' = V("idle", None, "stale", 0, 0, {})
      /\ UNCHANGED <<keyNow, published, withdrawn, before>>
  BY DEF Keys!Failed, Keys!Nowhere, V
<1>2. /\ cache' \in KeyCacheSet /\ cache'.ok = FALSE /\ cache'.keys = cache.keys
      /\ cache'.fetchedAt = cache.fetchedAt /\ cache'.lastAttempt = cache.lastAttempt
  BY <1>1 DEF KeysInv, KeysTyped, KeyCacheSet
<1>3. verifier' \in VerifierSet /\ verifier'.at = "idle"
  BY <1>1 DEF V, VerifierSet
<1> QED
  BY <1>1, <1>2, <1>3 DEF KeysInv, KeysTyped, SetsAreAsOldAsAsked, WithdrawnSince, AnswersAreCurrent

(* The verification is over. *)
LEMMA AnsweredKeeps == ASSUME KeysInv, Keys!Answered PROVE KeysInv'
<1>1. /\ verifier.at = "answered" /\ verifier' = V("idle", None, "stale", 0, 0, {})
      /\ UNCHANGED <<keyNow, published, withdrawn, cache, before>>
  BY DEF Keys!Answered, Keys!Nowhere, V
<1>2. verifier' \in VerifierSet /\ verifier'.at = "idle"
  BY <1>1 DEF V, VerifierSet
<1> QED
  BY <1>1, <1>2 DEF KeysInv, KeysTyped, SetsAreAsOldAsAsked, WithdrawnSince, AnswersAreCurrent

(* The issuer publishes another document: what it takes out it takes out now. *)
LEMMA RotateKeeps == ASSUME Keys!KeySetAssumption, KeysInv, Keys!Rotate PROVE KeysInv'
<1>1. /\ published' \in SUBSET Kids
      /\ withdrawn' = [k \in Kids |-> IF k \in published \ published' THEN keyNow ELSE withdrawn[k]]
      /\ UNCHANGED <<keyNow, cache, verifier, before>>
  BY DEF Keys!Rotate
<1>2. KeysTyped'
  BY <1>1 DEF KeysInv, KeysTyped
<1>3. ASSUME NEW keys \in SUBSET Kids, NEW t \in Int, t <= keyNow, WithdrawnSince(keys, t)
      PROVE  WithdrawnSince(keys, t)'
  BY <1>1, <1>3 DEF WithdrawnSince, KeysInv, KeysTyped
<1>4. SetsAreAsOldAsAsked'
  <2>1. WithdrawnSince(cache.keys, cache.fetchedAt)'
    BY <1>1, <1>3 DEF KeysInv, KeysTyped, KeyCacheSet, SetsAreAsOldAsAsked, WithdrawnSince
  <2>2. verifier.at = "served" => WithdrawnSince(verifier.keys, verifier.since)'
    BY <1>1, <1>3 DEF KeysInv, KeysTyped, KeyCacheSet, VerifierSet, SetsAreAsOldAsAsked, WithdrawnSince
  <2> QED
    BY <1>1, <2>1, <2>2 DEF KeysInv, SetsAreAsOldAsAsked
<1>5. AnswersAreCurrent'
  <2>1. ASSUME verifier.at = "answered", NEW k \in verifier.keys \ published'
        PROVE  verifier.read - withdrawn'[k] < KeyTTL
    <3>1. k \in Kids /\ verifier.read \in Int /\ verifier.read <= keyNow /\ keyNow \in Int
      BY <2>1 DEF KeysInv, KeysTyped, VerifierSet, AnswersAreCurrent
    <3>2. CASE k \in published
      BY <1>1, <3>1, <3>2 DEF Keys!KeySetAssumption
    <3>3. CASE k \notin published
      BY <1>1, <2>1, <3>1, <3>3 DEF KeysInv, AnswersAreCurrent
    <3> QED
      BY <3>2, <3>3
  <2> QED
    BY <1>1, <2>1 DEF KeysInv, AnswersAreCurrent
<1> QED
  BY <1>1, <1>2, <1>4, <1>5 DEF KeysInv

(* All of it, whatever the verifier, the issuer and the clock do. *)
LEMMA KeysHold == OneOf => []KeysInv
<1>a. Keys!KeySetAssumption
  BY KeysAssumption
<1>1. Keys!Init => KeysInv
  <2> SUFFICES ASSUME Keys!Init PROVE KeysInv
    OBVIOUS
  <2>1. /\ keyNow = MinRefresh /\ published = Kids /\ withdrawn = [k \in Kids |-> 0]
        /\ cache = [keys |-> {}, fetchedAt |-> 0, lastAttempt |-> 0, ok |-> TRUE]
        /\ verifier = V("idle", None, "stale", 0, 0, {}) /\ before = [at |-> 0, ok |-> TRUE]
    BY DEF Keys!Init, Keys!Nowhere, V
  <2>2. verifier \in VerifierSet /\ verifier.at = "idle"
    BY <2>1 DEF V, VerifierSet
  <2>3. KeysTyped
    BY <1>a, <2>1, <2>2 DEF KeysTyped, KeyCacheSet, Keys!KeySetAssumption
  <2> QED
    BY <2>1, <2>2, <2>3 DEF KeysInv, SetsAreAsOldAsAsked, WithdrawnSince, AnswersAreCurrent
<1>2. KeysInv /\ [Keys!Next]_(Keys!vars) => KeysInv'
  <2> SUFFICES ASSUME KeysInv, [Keys!Next]_(Keys!vars) PROVE KeysInv'
    OBVIOUS
  <2>1. ASSUME NEW kid \in Kids \cup {None}, Keys!KeyFor(kid) PROVE KeysInv'
    BY <1>a, <2>1, KeyForKeeps
  <2>2. CASE Keys!Serve
    BY <2>2, ServeKeeps
  <2>3. CASE Keys!Fetched
    BY <1>a, <2>3, FetchedKeeps
  <2>4. CASE Keys!Failed
    BY <2>4, FailedKeeps
  <2>5. CASE Keys!Answered
    BY <2>5, AnsweredKeeps
  <2>6. CASE Keys!Rotate
    BY <1>a, <2>6, RotateKeeps
  <2>7. CASE Keys!Tick
    <3>1. /\ keyNow \in Int /\ keyNow' = keyNow + 1
          /\ UNCHANGED <<published, withdrawn, cache, verifier, before>>
      BY <2>7 DEF Keys!Tick, KeysInv, KeysTyped
    <3>2. KeysTyped'
      BY <1>a, <3>1 DEF KeysInv, KeysTyped, KeyCacheSet, Keys!KeySetAssumption
    <3>3. SetsAreAsOldAsAsked'
      BY <3>1 DEF KeysInv, SetsAreAsOldAsAsked, WithdrawnSince
    <3>4. AnswersAreCurrent'
      BY <3>1 DEF KeysInv, KeysTyped, VerifierSet, AnswersAreCurrent
    <3> QED
      BY <3>1, <3>2, <3>3, <3>4 DEF KeysInv
  <2>8. CASE UNCHANGED Keys!vars
    <3>1. UNCHANGED <<keyNow, published, withdrawn, cache, verifier, before>>
      BY <2>8 DEF Keys!vars
    <3> QED
      BY <3>1 DEF KeysInv, KeysTyped, SetsAreAsOldAsAsked, WithdrawnSince, AnswersAreCurrent
  <2> QED
    BY <2>1, <2>2, <2>3, <2>4, <2>5, <2>6, <2>7, <2>8 DEF Keys!Next
<1> QED
  BY <1>1, <1>2, KeysRun, PTL DEF Keys!Spec

(* jwks.go:23-36: a key that was withdrawn a lifetime ago verifies nothing, and
   an issuer that answered is not asked again within an interval.           *)
THEOREM KeysStayCurrent == OneOf => []KeysAreCurrent
<1>1. KeysInv => KeysAreCurrent
  BY DEF KeysInv, AnswersAreCurrent, KeysAreCurrent, Keys!KeysAreCurrent
<1> QED
  BY <1>1, KeysHold, PTL

-----------------------------------------------------------------------------
(* The bucket.  What a caller took since any attempt, with what is left to
   take, is no more than a burst and what came back until the bucket was last
   looked at; and a caller that was forgotten as full might as well have been
   found full now.                                                          *)
BucketSet == [tokens : 0..Burst, seen : Nat]

BucketNow(c) ==
    IF bucket[c] = Meter!NoBucket THEN [tokens |-> Burst, seen |-> meterNow] ELSE bucket[c]

Within(seq, b) ==
    \A i \in 1..Len(seq) :
      (Len(seq) - i + 1 + b.tokens) * Refill + seq[i] <= Burst * Refill + b.seen

BurstKept(seq) ==
    \A j \in 1..Len(seq) : \A i \in 1..j : j - i + 1 <= Burst + (seq[j] - seq[i]) \div Refill

MeterInv ==
    /\ meterNow \in Nat
    /\ bucket \in [Callers -> BucketSet \cup {Meter!NoBucket}]
    /\ admitted \in [Callers -> Seq(Nat)]
    /\ \A c \in Callers :
         /\ bucket[c].seen <= meterNow
         /\ Within(admitted[c], BucketNow(c)) /\ BurstKept(admitted[c])
    /\ IsFiniteSet(Meter!Tracked) /\ Cardinality(Meter!Tracked) <= MaxKeys

(* What has come back is whole tokens, and less than one is left over. *)
LEMMA Earned ==
    ASSUME NEW d \in Int, NEW r \in Nat \ {0}
    PROVE  /\ d \div r \in Int /\ (d \div r) * r <= d /\ d < (d \div r) * r + r
           /\ d \in Nat => d \div r \in Nat
OBVIOUS

(* Times a number. *)
LEMMA TimesSum ==
    ASSUME NEW x \in Int, NEW y \in Int, NEW r \in Nat
    PROVE  (x + y) * r = x * r + y * r /\ x * r \in Int /\ y * r \in Int /\ (x <= y => x * r <= y * r)
OBVIOUS

(* What fits by a time fits by a later one. *)
LEMMA LaterStill ==
    ASSUME NEW p \in Int, NEW s \in Int, NEW r \in Int, NEW seen \in Int, NEW later \in Int,
           p + s <= r + seen, seen <= later
    PROVE  p + s <= r + later
OBVIOUS

(* What fits beside some tokens fits with none once the bucket has filled. *)
LEMMA FullByNow ==
    ASSUME NEW p \in Int, NEW q \in Nat, NEW r \in Int, NEW s \in Int, NEW seen \in Int,
           NEW later \in Int, p + q + s <= r + seen, later - seen >= r
    PROVE  p + r + s <= r + later
OBVIOUS

(* As many tokens as fit in a time are not more than what comes back in it. *)
LEMMA WholeTokens ==
    ASSUME NEW n \in Int, NEW d \in Int, NEW r \in Nat \ {0}, n * r <= d
    PROVE  n <= d \div r
<1> DEFINE e == d \div r
<1>1. e \in Int /\ e * r <= d /\ d < e * r + r
  BY Earned
<1> HIDE DEF e
<1>2. n * r < (e + 1) * r
  BY <1>1
<1>3. ASSUME n >= e + 1 PROVE FALSE
  <2>1. n * r >= (e + 1) * r
    BY <1>1, <1>3
  <2> QED
    BY <2>1, <1>1, <1>2
<1> QED
  BY <1>1, <1>3

(* Refilling a bucket changes nothing of that: a token for its time. *)
LEMMA RefillKeeps ==
    ASSUME Meter!LimiterAssumption, meterNow \in Nat, NEW b \in BucketSet, b.seen <= meterNow,
           NEW seq \in Seq(Nat), Within(seq, b)
    PROVE  /\ Meter!Refilled(b) \in BucketSet /\ Within(seq, Meter!Refilled(b))
           /\ Meter!Refilled(b).seen <= meterNow /\ meterNow - Meter!Refilled(b).seen < Refill
<1> DEFINE e == (meterNow - b.seen) \div Refill
           c == Meter!Refilled(b)
<1>a. Burst \in Nat /\ Refill \in Nat \ {0}
  BY DEF Meter!LimiterAssumption
<1>b. b.tokens \in 0..Burst /\ b.seen \in Nat /\ meterNow - b.seen \in Nat
  BY DEF BucketSet
<1>d. meterNow - b.seen \in Int
  BY <1>b
<1>1. e \in Int /\ e * Refill <= meterNow - b.seen /\ meterNow - b.seen < e * Refill + Refill
  BY <1>a, <1>d, Earned
<1>2. e \in Nat
  BY <1>a, <1>b, <1>d, Earned
<1>3. c = IF e = 0 THEN b ELSE [tokens |-> IF b.tokens + e > Burst THEN Burst ELSE b.tokens + e,
                                seen   |-> b.seen + e * Refill]
  BY DEF Meter!Refilled
<1> HIDE DEF e, c
<1>4. CASE e = 0
  BY <1>1, <1>3, <1>4, <1>a, <1>b
  DEF c
<1>5. CASE e # 0
  <2>1. e * Refill \in Nat
    BY <1>2, <1>a
  <2>2. c.seen = b.seen + e * Refill /\ c.tokens \in 0..Burst /\ c.tokens <= b.tokens + e
    BY <1>2, <1>3, <1>5, <1>a, <1>b
  <2>3. c \in BucketSet
    BY <1>3, <1>5, <2>1, <2>2, <1>b DEF BucketSet
  <2>4. c.seen <= meterNow /\ meterNow - c.seen < Refill
    BY <1>1, <2>1, <2>2, <1>a, <1>b
  <2>5. ASSUME NEW i \in 1..Len(seq)
        PROVE  (Len(seq) - i + 1 + c.tokens) * Refill + seq[i] <= Burst * Refill + c.seen
    <3>1. (Len(seq) - i + 1 + b.tokens) * Refill + seq[i] <= Burst * Refill + b.seen
      BY DEF Within
    <3>2. Len(seq) - i + 1 \in Nat /\ seq[i] \in Nat
      OBVIOUS
    <3> DEFINE n == Len(seq) - i + 1
    <3> HIDE DEF n
    <3>n. n \in Nat /\ seq[i] \in Int
      BY <3>2 DEF n
    <3>v. b.tokens \in Nat /\ c.tokens \in Nat /\ c.tokens <= b.tokens + e
      BY <2>2, <1>b
    <3>3. n + c.tokens \in Int /\ n + b.tokens \in Int /\ n + c.tokens <= (n + b.tokens) + e
      <4>1. \A m \in Nat, x \in Nat, y \in Nat, z \in Nat :
              x <= y + z => m + x \in Int /\ m + y \in Int /\ m + x <= (m + y) + z
        OBVIOUS
      <4> QED
        BY <3>v, <3>n, <1>2, <4>1
    <3>w. (n + b.tokens) + e \in Int
      BY <3>3, <1>2
    <3>4. ((n + b.tokens) + e) * Refill = (n + b.tokens) * Refill + e * Refill
      BY <3>3, <3>w, <1>2, <1>a, TimesSum
    <3>5. (n + c.tokens) * Refill <= ((n + b.tokens) + e) * Refill
      BY <3>3, <3>w, <1>a, TimesSum
    <3>t. /\ (n + c.tokens) * Refill \in Int /\ (n + b.tokens) * Refill \in Int
          /\ Burst * Refill \in Int
      BY <3>3, <1>a, TimesSum
    <3>6. (n + b.tokens) * Refill + seq[i] <= Burst * Refill + b.seen
      BY <3>1 DEF n
    <3>7. (n + c.tokens) * Refill + seq[i] <= Burst * Refill + c.seen
      <4> DEFINE p == (n + c.tokens) * Refill
                 q == (n + b.tokens) * Refill
                 r == Burst * Refill
                 d == e * Refill
      <4>1. p \in Int /\ q \in Int /\ r \in Int /\ d \in Nat /\ p <= q + d
        BY <2>1, <3>4, <3>5, <3>t
      <4>2. q + seq[i] <= r + b.seen /\ c.seen = b.seen + d /\ b.seen \in Int
        BY <2>2, <3>6, <1>b
      <4> HIDE DEF p, q, r, d
      <4>3. p + seq[i] <= r + c.seen
        BY <4>1, <4>2, <3>n
      <4> QED
        BY <4>3 DEF p, r
    <3> QED
      BY <3>7 DEF n
  <2>6. Within(seq, c)
    BY <2>5 DEF Within
  <2> QED
    BY <2>3, <2>4, <2>6 DEF c
<1> QED
  BY <1>4, <1>5, <1>2

(* A token taken out of a bucket that was just looked at, or was full. *)
LEMMA TakenKeeps ==
    ASSUME Meter!LimiterAssumption, meterNow \in Nat, NEW b \in BucketSet, b.tokens > 0,
           b.seen <= meterNow, meterNow - b.seen < Refill,
           NEW seq \in Seq(Nat), Within(seq, b), BurstKept(seq)
    PROVE  /\ Meter!Taken(b) \in BucketSet /\ Meter!Taken(b).seen <= meterNow
           /\ Within(Append(seq, meterNow), Meter!Taken(b)) /\ BurstKept(Append(seq, meterNow))
<1> DEFINE c == Meter!Taken(b)
           new == Append(seq, meterNow)
           n == Len(seq)
<1>a. Burst \in Nat /\ Refill \in Nat \ {0}
  BY DEF Meter!LimiterAssumption
<1>b. b.tokens \in 1..Burst /\ b.seen \in Nat /\ n \in Nat
  BY DEF BucketSet
<1>1. /\ c.tokens = b.tokens - 1 /\ c.seen = IF b.tokens = Burst THEN meterNow ELSE b.seen
      /\ c = [tokens |-> c.tokens, seen |-> c.seen]
  BY DEF Meter!Taken
<1>2. /\ Len(new) = n + 1 /\ new[n + 1] = meterNow /\ \A i \in 1..n : new[i] = seq[i] /\ seq[i] \in Nat
      /\ new \in Seq(Nat)
  OBVIOUS
<1> HIDE DEF c, new, n
<1>3. c.tokens \in Nat /\ c.tokens <= Burst /\ c.seen \in Nat /\ b.seen <= c.seen /\ c.seen <= meterNow
  BY <1>1, <1>b, <1>a
<1>4. c \in BucketSet
  <2>1. c.tokens \in 0..Burst
    BY <1>3, <1>a
  <2> QED
    BY <1>1, <1>3, <2>1 DEF BucketSet
<1>5. ASSUME NEW i \in 1..(n + 1)
      PROVE  ((n + 1) - i + 1 + c.tokens) * Refill + new[i] <= Burst * Refill + c.seen
  <2>1. CASE i \in 1..n
    <3> DEFINE k == n - i + 1 + b.tokens
    <3>1. k * Refill + seq[i] <= Burst * Refill + b.seen
      BY <2>1 DEF Within, n
    <3>2. (n + 1) - i + 1 + c.tokens = k /\ k \in Int
      BY <2>1, <1>1, <1>b
    <3> HIDE DEF k
    <3>3. k * Refill \in Int /\ Burst * Refill \in Int
      BY <3>2, <1>a, TimesSum
    <3>4. k * Refill + new[i] <= Burst * Refill + c.seen
      <4>1. new[i] = seq[i] /\ seq[i] \in Int
        BY <2>1, <1>2
      <4> QED
        BY <3>1, <3>3, <4>1, <1>3, <1>b, LaterStill
    <3> QED
      BY <3>2, <3>4
  <2>2. CASE i = n + 1
    <3>1. ((n + 1) - i + 1 + c.tokens) = b.tokens /\ new[i] = meterNow
      <4>1. c.tokens = b.tokens - 1 /\ (n + 1) - i = 0
        BY <2>2, <1>1, <1>b
      <4> QED
        BY <2>2, <4>1, <1>2, <1>b
    <3>2. CASE b.tokens = Burst
      <4>1. Burst * Refill + meterNow <= Burst * Refill + c.seen
        BY <3>2, <1>1, <1>a, TimesSum
      <4> QED
        BY <3>1, <3>2, <4>1
    <3>3. CASE b.tokens # Burst
      <4>1. b.tokens + 1 <= Burst
        BY <3>3, <1>b, <1>a
      <4>t. b.tokens \in Int /\ b.tokens + 1 \in Int
        BY <1>b
      <4>2. (b.tokens + 1) * Refill <= Burst * Refill
        BY <4>1, <4>t, <1>a, TimesSum
      <4>3. (b.tokens + 1) * Refill = b.tokens * Refill + 1 * Refill
        BY <4>t, <1>a, TimesSum
      <4>4. b.tokens * Refill \in Int /\ Burst * Refill \in Int /\ 1 * Refill = Refill
        BY <4>t, <1>a, TimesSum
      <4>5. b.tokens * Refill + meterNow <= Burst * Refill + c.seen
        <5> DEFINE p == b.tokens * Refill
                   q == Burst * Refill
        <5>1. p \in Int /\ q \in Int /\ p + Refill <= q /\ c.seen = b.seen
          BY <3>3, <4>2, <4>3, <4>4, <1>1
        <5> HIDE DEF p, q
        <5>2. p + meterNow <= q + c.seen
          BY <5>1, <1>a, <1>b
        <5> QED
          BY <5>2 DEF p, q
      <4> QED
        BY <3>1, <4>5
    <3> QED
      BY <3>2, <3>3
  <2> QED
    BY <2>1, <2>2, <1>b
<1>6. Within(new, c)
  BY <1>2, <1>5 DEF Within
<1>7. BurstKept(new)
  <2>1. ASSUME NEW j \in 1..(n + 1), NEW i \in 1..j
        PROVE  j - i + 1 <= Burst + (new[j] - new[i]) \div Refill
    <3>1. CASE j \in 1..n
      <4>1. i \in 1..n /\ new[j] = seq[j] /\ new[i] = seq[i]
        BY <3>1, <1>2, <1>b
      <4>2. j - i + 1 <= Burst + (seq[j] - seq[i]) \div Refill
        BY <3>1 DEF BurstKept, n
      <4> QED
        BY <4>1, <4>2
    <3>2. CASE j = n + 1
      <4>1. i \in 1..(n + 1) /\ new[i] \in Nat /\ new[j] = meterNow
        <5>1. i \in 1..n \/ i = n + 1
          BY <3>2, <1>b
        <5> QED
          BY <5>1, <3>2, <1>2, <1>b
      <4> DEFINE k == (n + 1) - i + 1
      <4>2. k \in Nat /\ (k + c.tokens) * Refill + new[i] <= Burst * Refill + c.seen
        BY <4>1, <1>5, <1>b
      <4>k. j - i + 1 = k
        BY <3>2
      <4> HIDE DEF k
      <4>t. k \in Int /\ k + c.tokens \in Int /\ k - Burst \in Int /\ k <= k + c.tokens
        BY <4>2, <1>3, <1>a
      <4>3. k * Refill <= (k + c.tokens) * Refill
        BY <4>t, <1>a, TimesSum
      <4>4. ((k - Burst) + Burst) * Refill = (k - Burst) * Refill + Burst * Refill
        BY <4>t, <1>a, TimesSum
      <4>u. (k - Burst) + Burst = k
        BY <4>t, <1>a
      <4>5. /\ (k + c.tokens) * Refill \in Int /\ k * Refill \in Int /\ Burst * Refill \in Int
            /\ (k - Burst) * Refill \in Int
        BY <4>t, <1>a, TimesSum
      <4>6. (k - Burst) * Refill <= meterNow - new[i] /\ meterNow - new[i] \in Int
        <5> DEFINE p == (k + c.tokens) * Refill
                   q == k * Refill
                   r == Burst * Refill
                   d == (k - Burst) * Refill
        <5>1. p \in Int /\ q \in Int /\ r \in Int /\ d \in Int /\ q <= p /\ q = d + r
          BY <4>3, <4>4, <4>5, <4>u
        <5>2. p + new[i] <= r + c.seen
          BY <4>2
        <5> HIDE DEF p, q, r, d
        <5>3. d <= meterNow - new[i] /\ meterNow - new[i] \in Int
          BY <5>1, <5>2, <4>1, <1>3
        <5> QED
          BY <5>3 DEF d
      <4>7. k - Burst <= (meterNow - new[i]) \div Refill
        BY <4>t, <4>6, <1>a, WholeTokens
      <4>8. (meterNow - new[i]) \div Refill \in Int
        BY <4>1, <1>a
      <4> QED
        BY <4>1, <4>2, <4>7, <4>8, <4>k, <1>a
    <3> QED
      BY <3>1, <3>2, <1>b
  <2> QED
    BY <1>2, <2>1 DEF BurstKept
<1> QED
  BY <1>3, <1>4, <1>6, <1>7 DEF c, new

(* A bucket that has had time to fill is as good as one found full. *)
LEMMA FullKeeps ==
    ASSUME Meter!LimiterAssumption, NEW now1 \in Nat, NEW b \in BucketSet,
           now1 - b.seen >= Refill * Burst, NEW seq \in Seq(Nat), Within(seq, b)
    PROVE  Within(seq, [tokens |-> Burst, seen |-> now1])
<1>a. Burst \in Nat /\ Refill \in Nat \ {0} /\ b.tokens \in Nat /\ b.seen \in Nat
  BY DEF Meter!LimiterAssumption, BucketSet
<1>1. ASSUME NEW i \in 1..Len(seq)
      PROVE  (Len(seq) - i + 1 + Burst) * Refill + seq[i] <= Burst * Refill + now1
  <2>1. (Len(seq) - i + 1 + b.tokens) * Refill + seq[i] <= Burst * Refill + b.seen
    BY DEF Within
  <2> DEFINE k == Len(seq) - i + 1
  <2>2. k \in Int /\ seq[i] \in Int
    OBVIOUS
  <2>3. (k + b.tokens) * Refill + seq[i] <= Burst * Refill + b.seen
    BY <2>1
  <2> HIDE DEF k
  <2>4. (k + b.tokens) * Refill = k * Refill + b.tokens * Refill
    BY <2>2, <1>a, TimesSum
  <2>5. (k + Burst) * Refill = k * Refill + Burst * Refill
    BY <2>2, <1>a, TimesSum
  <2>6. k * Refill \in Int /\ b.tokens * Refill \in Nat /\ Burst * Refill \in Int
    BY <2>2, <1>a, TimesSum
  <2>7. Refill * Burst = Burst * Refill
    BY <1>a
  <2>8. (k + Burst) * Refill + seq[i] <= Burst * Refill + now1
    <3> DEFINE p == k * Refill
               q == b.tokens * Refill
               r == Burst * Refill
    <3>1. /\ p \in Int /\ q \in Nat /\ r \in Int /\ (k + Burst) * Refill = p + r
          /\ p + q + seq[i] <= r + b.seen
      BY <2>3, <2>4, <2>5, <2>6
    <3>2. now1 - b.seen >= r
      BY <2>7
    <3>3. b.seen \in Int /\ now1 \in Int
      BY <1>a
    <3> DEFINE s    == seq[i]
               seen == b.seen
    <3>4. s \in Int /\ seen \in Int /\ p + q + s <= r + seen /\ now1 - seen >= r
      BY <3>1, <3>2, <3>3, <2>2
    <3> HIDE DEF p, q, r, s, seen
    <3>5. p + r + s <= r + now1
      BY <3>1, <3>3, <3>4, FullByNow
    <3> QED
      BY <3>1, <3>5 DEF r, s
  <2> QED
    BY <2>8 DEF k
<1> QED
  BY <1>1 DEF Within

(* And one found full later is no worse. *)
LEMMA LaterKeeps ==
    ASSUME Meter!LimiterAssumption, NEW t \in Nat, NEW u \in Nat, t <= u, NEW seq \in Seq(Nat),
           Within(seq, [tokens |-> Burst, seen |-> t])
    PROVE  Within(seq, [tokens |-> Burst, seen |-> u])
<1> SUFFICES ASSUME NEW i \in 1..Len(seq)
             PROVE  (Len(seq) - i + 1 + Burst) * Refill + seq[i] <= Burst * Refill + u
  BY DEF Within
<1> DEFINE p == (Len(seq) - i + 1 + Burst) * Refill
           r == Burst * Refill
<1>1. Burst \in Nat /\ Refill \in Nat /\ Len(seq) - i + 1 \in Int /\ seq[i] \in Int
  BY DEF Meter!LimiterAssumption
<1>2. p + seq[i] <= r + t
  BY DEF Within
<1>3. p \in Int /\ r \in Int
  <2>1. Len(seq) - i + 1 + Burst \in Int
    BY <1>1
  <2> QED
    BY <2>1, <1>1, TimesSum
<1> HIDE DEF p, r
<1>4. p + seq[i] <= r + u
  BY <1>1, <1>2, <1>3
<1> QED
  BY <1>4 DEF p, r

(* FiniteSets, as Limiter sees it. *)
LEMMA SizeIsSize == ASSUME NEW S PROVE Meter!Cardinality(S) = Cardinality(S)
BY DEF Meter!Cardinality, Cardinality, Meter!IsFiniteSet, IsFiniteSet

(* evict: whoever stays was there, and there is room for one more. *)
LEMMA RoomsHaveRoom ==
    ASSUME Meter!LimiterAssumption, MeterInv, NEW room \in Meter!Rooms
    PROVE  room \subseteq Meter!Tracked /\ Cardinality(room) < MaxKeys
<1> DEFINE tracked == Meter!Tracked
           waiting == {d \in tracked : meterNow - bucket[d].seen < Refill * Burst}
<1>1. /\ IsFiniteSet(tracked) /\ Cardinality(tracked) \in Nat /\ Cardinality(tracked) <= MaxKeys
      /\ MaxKeys \in Nat
  BY FS_CardinalityType DEF MeterInv, Meter!LimiterAssumption
<1>2. waiting \subseteq tracked /\ IsFiniteSet(waiting) /\ Cardinality(waiting) <= Cardinality(tracked)
      /\ Cardinality(waiting) \in Nat
  BY <1>1, FS_Subset, FS_CardinalityType
<1>3. room \in IF Cardinality(tracked) < MaxKeys THEN {tracked}
               ELSE IF Cardinality(waiting) < MaxKeys THEN {waiting}
               ELSE {waiting \ {d} : d \in waiting}
  BY SizeIsSize DEF Meter!Rooms
<1> HIDE DEF tracked, waiting
<1>4. CASE room = tracked /\ Cardinality(tracked) < MaxKeys
  BY <1>4 DEF tracked
<1>5. CASE room = waiting /\ Cardinality(waiting) < MaxKeys
  BY <1>2, <1>5 DEF tracked
<1>6. CASE \E d \in waiting : room = waiting \ {d}
  <2>1. PICK d \in waiting : room = waiting \ {d}
    BY <1>6
  <2>2. Cardinality(room) = Cardinality(waiting) - 1
    BY <1>2, <2>1, FS_RemoveElement
  <2> QED
    BY <1>1, <1>2, <2>1, <2>2 DEF tracked
<1> QED
  BY <1>3, <1>4, <1>5, <1>6

(* allow: one attempt of one caller, and whom it makes room by. *)
LEMMA AllowKeeps ==
    ASSUME Meter!LimiterAssumption, MeterInv, NEW c \in Callers, Meter!Allow(c) PROVE MeterInv'
<1> DEFINE tracked == Meter!Tracked
           b == IF c \in tracked THEN Meter!Refilled(bucket[c]) ELSE [tokens |-> Burst, seen |-> meterNow]
           after == IF b.tokens > 0 THEN Meter!Taken(b) ELSE b
           Full(d) == ~ (meterNow - bucket[d].seen < Refill * Burst)
<1>1. PICK room \in IF c \in tracked THEN {tracked} ELSE Meter!Rooms :
        /\ bucket' = [d \in Callers |-> IF d = c THEN after
                                        ELSE IF d \in room THEN bucket[d] ELSE Meter!NoBucket]
        /\ admitted' = [d \in Callers |->
             IF d = c /\ b.tokens > 0 THEN Append(admitted[d], meterNow)
             ELSE IF d \in tracked \ room /\ ~ Full(d) THEN <<>> ELSE admitted[d]]
        /\ meterNow' = meterNow
  BY DEF Meter!Allow
<1>a. Burst \in Nat /\ Refill \in Nat \ {0} /\ meterNow \in Nat
  BY DEF Meter!LimiterAssumption, MeterInv
<1>2. room \subseteq tracked
  BY RoomsHaveRoom
<1>3. \A d \in Callers : /\ admitted[d] \in Seq(Nat) /\ bucket[d].seen <= meterNow
                         /\ Within(admitted[d], BucketNow(d)) /\ BurstKept(admitted[d])
                         /\ bucket[d] \in BucketSet \cup {Meter!NoBucket}
                         /\ d \in tracked <=> bucket[d] # Meter!NoBucket
  BY DEF MeterInv, Meter!Tracked
<1>4. Meter!NoBucket \notin BucketSet
  BY DEF Meter!NoBucket, BucketSet
<1>5. /\ b \in BucketSet /\ b.seen <= meterNow /\ meterNow - b.seen < Refill
      /\ Within(admitted[c], b)
  <2>1. CASE c \in tracked
    <3>1. bucket[c] \in BucketSet /\ BucketNow(c) = bucket[c] /\ b = Meter!Refilled(bucket[c])
      BY <1>3, <2>1 DEF BucketNow
    <3> HIDE DEF b, tracked
    <3> QED
      BY <1>3, <1>a, <3>1, RefillKeeps
  <2>2. CASE c \notin tracked
    <3>1. b = [tokens |-> Burst, seen |-> meterNow] /\ BucketNow(c) = b
      BY <1>3, <2>2 DEF BucketNow
    <3>2. Burst \in 0..Burst
      BY <1>a
    <3> HIDE DEF b, tracked
    <3> QED
      BY <1>3, <1>a, <3>1, <3>2 DEF BucketSet
  <2> QED
    BY <2>1, <2>2
<1>6. /\ after \in BucketSet /\ after.seen <= meterNow
      /\ admitted'[c] \in Seq(Nat) /\ Within(admitted'[c], after) /\ BurstKept(admitted'[c])
  <2>1. CASE b.tokens > 0
    <3>1. after = Meter!Taken(b) /\ admitted'[c] = Append(admitted[c], meterNow)
      BY <1>1, <2>1
    <3> HIDE DEF b, after, tracked
    <3>2. admitted[c] \in Seq(Nat) /\ BurstKept(admitted[c])
      BY <1>3
    <3>3. Append(admitted[c], meterNow) \in Seq(Nat)
      BY <3>2, <1>a
    <3> QED
      BY <1>5, <1>a, <2>1, <3>1, <3>2, <3>3, TakenKeeps
  <2>2. CASE ~ (b.tokens > 0)
    <3>1. after = b /\ (c \in tracked => c \in room)
      BY <1>1, <2>2
    <3>2. admitted'[c] = admitted[c]
      BY <1>1, <2>2, <3>1
    <3> HIDE DEF b, after, tracked
    <3> QED
      BY <1>3, <1>5, <3>1, <3>2
  <2> QED
    BY <2>1, <2>2
<1> HIDE DEF after, b
<1>7. bucket'[c] = after /\ BucketNow(c)' = after
  BY <1>1, <1>4, <1>6 DEF BucketNow
<1>8. ASSUME NEW d \in Callers, d # c
      PROVE  /\ bucket'[d] \in BucketSet \cup {Meter!NoBucket} /\ bucket'[d].seen <= meterNow
             /\ admitted'[d] \in Seq(Nat) /\ Within(admitted'[d], BucketNow(d)') /\ BurstKept(admitted'[d])
  <2>1. CASE d \in room
    <3>1. bucket'[d] = bucket[d] /\ admitted'[d] = admitted[d] /\ BucketNow(d)' = BucketNow(d)
      BY <1>1, <1>8, <2>1 DEF BucketNow
    <3> QED
      BY <1>3, <3>1
  <2>2. CASE d \notin room
    <3>1. /\ bucket'[d] = Meter!NoBucket
          /\ BucketNow(d)' = [tokens |-> Burst, seen |-> meterNow]
      BY <1>1, <1>8, <2>2 DEF BucketNow
    <3>2. Meter!NoBucket.seen <= meterNow
      BY <1>a DEF Meter!NoBucket
    <3>3. CASE d \notin tracked
      <4>1. admitted'[d] = admitted[d] /\ BucketNow(d) = BucketNow(d)'
        BY <1>1, <1>3, <1>8, <3>1, <3>3 DEF BucketNow
      <4> QED
        BY <1>3, <3>1, <3>2, <4>1
    <3>4. CASE d \in tracked /\ ~ Full(d)
      <4>1. admitted'[d] = <<>>
        BY <1>1, <1>8, <2>2, <3>4
      <4> QED
        BY <3>1, <3>2, <4>1 DEF Within, BurstKept
    <3>5. CASE d \in tracked /\ Full(d)
      <4>1. admitted'[d] = admitted[d]
        BY <1>1, <1>8, <3>5
      <4>2. bucket[d] \in BucketSet /\ BucketNow(d) = bucket[d]
        BY <1>3, <3>5 DEF BucketNow
      <4>3. meterNow - bucket[d].seen >= Refill * Burst
        <5>1. meterNow - bucket[d].seen \in Int /\ Refill * Burst \in Int
          BY <4>2, <1>a DEF BucketSet
        <5> QED
          BY <3>5, <5>1
      <4> QED
        BY <1>3, <1>a, <3>1, <3>2, <4>1, <4>2, <4>3, FullKeeps
    <3> QED
      BY <3>3, <3>4, <3>5
  <2> QED
    BY <2>1, <2>2
<1>9. /\ bucket' \in [Callers -> BucketSet \cup {Meter!NoBucket}]
      /\ admitted' \in [Callers -> Seq(Nat)]
  BY <1>1, <1>6, <1>7, <1>8
<1>10. IsFiniteSet(Meter!Tracked') /\ Cardinality(Meter!Tracked') <= MaxKeys
  <2>1. Meter!Tracked' \subseteq room \cup {c}
    BY <1>1 DEF Meter!Tracked
  <2>2. IsFiniteSet(tracked) /\ Cardinality(tracked) <= MaxKeys /\ MaxKeys \in Nat
    BY DEF MeterInv, Meter!LimiterAssumption
  <2>3. IsFiniteSet(room) /\ Cardinality(room) \in Nat
    BY <1>2, <2>2, FS_Subset, FS_CardinalityType
  <2>4. IsFiniteSet(room \cup {c}) /\ Cardinality(room \cup {c}) <= MaxKeys
    <3>1. CASE c \in tracked
      <4>1. room \cup {c} = tracked
        BY <1>1, <3>1
      <4> QED
        BY <2>2, <4>1
    <3>2. CASE c \notin tracked
      <4>1. Cardinality(room) < MaxKeys
        BY <1>1, <3>2, RoomsHaveRoom
      <4>2. IsFiniteSet(room \cup {c}) /\ Cardinality(room \cup {c}) = Cardinality(room) + 1
        BY <1>2, <2>3, <3>2, FS_AddElement
      <4> QED
        BY <2>2, <2>3, <4>1, <4>2
    <3> QED
      BY <3>1, <3>2
  <2>5. /\ IsFiniteSet(Meter!Tracked') /\ Cardinality(Meter!Tracked') <= Cardinality(room \cup {c})
        /\ Cardinality(Meter!Tracked') \in Nat /\ Cardinality(room \cup {c}) \in Nat
    BY <2>1, <2>4, FS_Subset, FS_CardinalityType
  <2> QED
    BY <2>2, <2>4, <2>5
<1> QED
  BY <1>1, <1>6, <1>7, <1>8, <1>9, <1>10, <1>a DEF MeterInv

(* All of it, whoever calls, and whoever is forgotten. *)
LEMMA MeterHolds == OneOf => []MeterInv
<1>a. Meter!LimiterAssumption
  BY MeterAssumption
<1>1. Meter!Init => MeterInv
  <2> SUFFICES ASSUME Meter!Init PROVE MeterInv
    OBVIOUS
  <2>1. meterNow = 0 /\ \A c \in Callers : bucket[c] = Meter!NoBucket /\ admitted[c] = <<>>
    BY DEF Meter!Init
  <2>2. Meter!Tracked = {}
    BY <2>1 DEF Meter!Tracked
  <2>3. IsFiniteSet(Meter!Tracked) /\ Cardinality(Meter!Tracked) <= MaxKeys
    BY <1>a, <2>2, FS_EmptySet DEF Meter!LimiterAssumption
  <2> QED
    BY <2>1, <2>3 DEF MeterInv, Meter!Init, Meter!NoBucket, Within, BurstKept
<1>2. MeterInv /\ [Meter!Next]_(Meter!vars) => MeterInv'
  <2> SUFFICES ASSUME MeterInv, [Meter!Next]_(Meter!vars) PROVE MeterInv'
    OBVIOUS
  <2>1. ASSUME NEW c \in Callers, Meter!Allow(c) PROVE MeterInv'
    BY <1>a, <2>1, AllowKeeps
  <2>2. CASE Meter!Tick \/ UNCHANGED Meter!vars
    <3>1. meterNow \in Nat /\ meterNow' \in Nat /\ meterNow <= meterNow' /\ UNCHANGED <<bucket, admitted>>
      BY <2>2 DEF Meter!Tick, Meter!vars, MeterInv
    <3>2. Meter!Tracked' = Meter!Tracked
      BY <3>1 DEF Meter!Tracked
    <3>3. ASSUME NEW c \in Callers
          PROVE  bucket[c].seen <= meterNow' /\ Within(admitted[c], BucketNow(c)')
      <4>1. /\ bucket[c].seen <= meterNow /\ Within(admitted[c], BucketNow(c))
            /\ admitted[c] \in Seq(Nat) /\ bucket[c] \in BucketSet \cup {Meter!NoBucket}
        BY DEF MeterInv
      <4>2. bucket[c].seen \in Int
        BY <4>1 DEF BucketSet, Meter!NoBucket
      <4>3. CASE bucket[c] = Meter!NoBucket
        <5>1. /\ BucketNow(c) = [tokens |-> Burst, seen |-> meterNow]
              /\ BucketNow(c)' = [tokens |-> Burst, seen |-> meterNow']
          BY <3>1, <4>3 DEF BucketNow
        <5> QED
          BY <1>a, <3>1, <4>1, <4>2, <5>1, LaterKeeps
      <4>4. CASE bucket[c] # Meter!NoBucket
        <5>1. BucketNow(c)' = BucketNow(c)
          BY <3>1, <4>4 DEF BucketNow
        <5> QED
          BY <3>1, <4>1, <4>2, <5>1
      <4> QED
        BY <4>3, <4>4
    <3> QED
      BY <3>1, <3>2, <3>3 DEF MeterInv
  <2> QED
    BY <2>1, <2>2 DEF Meter!Next
<1> QED
  BY <1>1, <1>2, MeterRuns, PTL DEF Meter!Spec

(* ratelimit.go:12-25 and evict, 100-121: any number of callers and any table. *)
THEOREM BurstsAreKept == OneOf => []BurstIsKept
<1>1. MeterInv => BurstIsKept
  <2> SUFFICES ASSUME MeterInv, NEW c \in Callers PROVE
                 \A j \in DOMAIN admitted[c] : \A i \in 1..j :
                   j - i + 1 <= Burst + (admitted[c][j] - admitted[c][i]) \div Refill
    BY DEF BurstIsKept, Meter!BurstIsKept
  <2>1. admitted[c] \in Seq(Nat) /\ BurstKept(admitted[c])
    BY DEF MeterInv
  <2>2. DOMAIN admitted[c] = 1..Len(admitted[c])
    BY <2>1
  <2> QED
    BY <2>1, <2>2 DEF BurstKept
<1> QED
  BY <1>1, MeterHolds, PTL

-----------------------------------------------------------------------------
(* The rows, the cookies and the tables of the process keep their types and
   their bounds, for any number of each.                                    *)
THEOREM RowsKeepTheirTypes == OneOf => []RowsAreTyped
<1>1. PageProofs!TypeOK => Page!TypeOK
  BY DEF Page!TypeOK, Page!Switches, Page!Ids, PageProofs!TypeOK,
    PageProofs!Switches, PageProofs!Ids
<1>2. CatalogueProofs!TypeOK => Catalogue!TypeOK
  BY DEF Catalogue!TypeOK, Catalogue!Targets, CatalogueProofs!TypeOK,
    CatalogueProofs!Targets
<1>3. KeysInv => Keys!TypeOK
  BY DEF KeysInv, KeysTyped, KeyCacheSet, AnswersAreCurrent, Keys!TypeOK,
         Keys!Cardinality, Keys!IsFiniteSet, Cardinality, IsFiniteSet
<1>4. MeterInv => Meter!TypeOK
  <2>1. MeterInv => Cardinality(Meter!Tracked) <= MaxKeys
    BY DEF MeterInv
  <2>2. ASSUME MeterInv, NEW c \in Callers PROVE bucket[c].tokens \in 0..Burst /\ bucket[c].seen <= meterNow
    BY <2>2, MeterAssumption DEF MeterInv, BucketSet, Meter!NoBucket, Meter!LimiterAssumption
  <2> QED
    BY <2>1, <2>2, SizeIsSize DEF Meter!TypeOK
<1>5. PageProofs!Spec => []PageProofs!TypeOK
  BY PageAssumes, PageProofs!TypeCorrect
<1>6. CatalogueProofs!Spec => []CatalogueProofs!TypeOK
  BY CatalogueAssumes, CatalogueProofs!TypeCorrect
<1>7. TypeOK /\ Page!TypeOK /\ Catalogue!TypeOK /\ Keys!TypeOK /\ Meter!TypeOK => RowsAreTyped
  BY DEF RowsAreTyped
<1> QED
  BY <1>1, <1>2, <1>3, <1>4, <1>5, <1>6, <1>7, SignInRuns, TypeCorrect, PageRuns, PageIsPage, CatalogueRuns,
     CatalogueIsCatalogue, KeysHold, MeterHolds, PTL

=============================================================================
