------------------------------- MODULE Discord -------------------------------
(***************************************************************************)
(* Slash commands: what internal/discord does with an interaction that     *)
(* Discord signed, and the bindings by which an officer says which circle  *)
(* a channel is about and whether answers there may be seen by everybody   *)
(* who reads it.                                                           *)
(*                                                                         *)
(* The route asks for no idempotency key: the bytes that were signed may   *)
(* arrive any number of times while they are fresh, and each arrival is    *)
(* resolved anew, while officers bind channels, members come and go,       *)
(* circles are deleted and the catalogue is edited.  What a command prints *)
(* is left out, and so are `board`, which is `status` without a target,    *)
(* and `circles`, which neither resolves to an answer nor may be seen.     *)
(***************************************************************************)
EXTENDS Integers, FiniteSets

CONSTANTS People, Circles, Channels,
          Joined,        \* the role everybody starts with, in each circle
          ReplayWindow,  \* five minutes
          FutureSkew,    \* two minutes; tod's FutureTolerance is the same
          MaxNow,        \* bound: the clock
          MaxPresses,    \* bound: interactions
          MaxChanges,    \* bound: roles changed, circles deleted, names moved
          Nobody         \* no person, and no circle

(* Stated by the module that gives them values. *)
DiscordAssumption == Nobody \notin Circles /\ FutureSkew \in Nat

Presses == 1..MaxPresses
Targets == 1..2
Roles   == {"stranger", "observer", "member", "officer"}

VARIABLES
    now,
    pressed,  \* the interactions that Discord has signed
    handler,  \* a delivery in the server; as they meet in tod_report alone,
              \* where Report is one step, one stands for any number
    binding,  \* circle_discord_channel
    editing,  \* an officer's request between its checks and its transaction,
              \* where nothing that it read is used; again one for any number
    role,     \* membership rows, a revoked one as a stranger
    deleted,  \* tombstoned circles
    enabled,  \* whether the Discord provider is
    means,    \* the target that the name people type resolves to
    reports,  \* tod_report rows, and the interaction each came from
    decided,  \* history: what was last decided about each channel, and whose
    changes

circles == <<binding, editing, role, deleted, decided>>
vars    == <<now, pressed, handler, circles, enabled, means, reports, changes>>

Undecided == [circle |-> Nobody, visible |-> FALSE]
Unbound   == [circle |-> Nobody, here |-> FALSE, visible |-> FALSE]
NotSent   == [who |-> Nobody, channel |-> Nobody, command |-> "none", open |-> FALSE, signed |-> 0]
Idle      == [at |-> "idle", of |-> 0, circle |-> Nobody, visible |-> FALSE,
              target |-> 0, said |-> Undecided]
NoRequest == [circle |-> Nobody, channel |-> Nobody, to |-> Unbound]

Sent        == pressed[handler.of]
At(stage)   == handler.at = stage
Move(stage) == [handler EXCEPT !.at = stage]

Init ==
    /\ now = 0
    /\ pressed = [i \in Presses |-> NotSent] /\ handler = Idle
    /\ binding = [ch \in Channels |-> Unbound] /\ editing = NoRequest
    /\ role = Joined /\ deleted = {} /\ enabled = TRUE /\ means = 1
    /\ reports = {} /\ decided = [ch \in Channels |-> Undecided] /\ changes = 0

-----------------------------------------------------------------------------
(* Discord's side: somebody presses enter, and it signs the second. *)
Press(i, p, ch) ==
    /\ pressed[i] = NotSent /\ \A j \in 1..(i - 1) : pressed[j] # NotSent
    /\ \E command \in {"status", "report"}, open \in BOOLEAN, ahead \in 0..FutureSkew :
         /\ open => command = "status"   \* `report` has no such option
         /\ pressed' = [pressed EXCEPT ![i] =
             [who |-> p, channel |-> ch, command |-> command, open |-> open, signed |-> now + ahead]]
    /\ UNCHANGED <<now, handler, circles, enabled, means, reports, changes>>

Fresh(signed) == signed - now <= FutureSkew /\ now - signed <= ReplayWindow

(* Verify, on the raw bytes: the first delivery of an interaction, or another. *)
Deliver(i) ==
    /\ handler = Idle /\ pressed[i] # NotSent /\ Fresh(pressed[i].signed)
    /\ handler' = [Idle EXCEPT !.at = "verified", !.of = i]
    /\ UNCHANGED <<now, pressed, circles, enabled, means, reports, changes>>

(* The channel says which circle; an unbound channel, a tombstoned circle and a
   binding made for another guild all refuse.                              *)
Resolve ==
    LET b == binding[Sent.channel] IN
    /\ At("verified")
    /\ handler' = IF b.circle # Nobody /\ b.circle \notin deleted /\ b.here
                  THEN [handler EXCEPT !.at = "resolved", !.circle = b.circle, !.visible = b.visible,
                                    !.said = decided[Sent.channel]]
                  ELSE Idle
    /\ UNCHANGED <<now, pressed, circles, enabled, means, reports, changes>>

May(r, command) == r # "stranger" /\ (command = "report" => r # "observer")

(* Principal, by the live membership, and the command's permission. *)
Admit ==
    /\ At("resolved")
    /\ handler' = IF enabled /\ May(role[handler.circle][Sent.who], Sent.command)
                  THEN Move("admitted") ELSE Idle
    /\ UNCHANGED <<now, pressed, circles, enabled, means, reports, changes>>

(* The binding's half and the invoker's, by the binding as it was resolved. *)
ReplyIsVisible == Sent.command = "status" /\ handler.visible /\ Sent.open

Status ==
    /\ At("admitted") /\ Sent.command = "status"
    /\ handler' = IF ReplyIsVisible THEN Move("posted") ELSE Idle
    /\ UNCHANGED <<now, pressed, circles, enabled, means, reports, changes>>

(* The target is resolved, the circle is read, and then tod.Create begins. *)
Name ==
    /\ At("admitted") /\ Sent.command = "report"
    /\ handler' = IF handler.circle \in deleted THEN Idle
                  ELSE [handler EXCEPT !.at = "writing", !.target = means]
    /\ UNCHANGED <<now, pressed, circles, enabled, means, reports, changes>>

(* Mutant: a report is dated by the server's clock. *)
DiedAtArrival == now

(* A death is dated when the command was signed, not when it arrived; the
   minutes somebody may add are inside the signature too.                  *)
DiedAt == Sent.signed

(* tod.Create; the natural key makes the second arrival a replay. *)
Report ==
    LET new == [circle |-> handler.circle, target |-> handler.target,
                who |-> Sent.who, died |-> DiedAt]
    IN
    /\ At("writing") /\ DiedAt - now <= FutureSkew
    /\ reports' = IF \E r \in reports : r.key = new THEN reports
                  ELSE reports \cup {[key |-> new, from |-> handler.of]}
    /\ handler' = Idle
    /\ UNCHANGED <<now, pressed, circles, enabled, means, changes>>

(* What was posted is there; and a request may be cancelled before it is done. *)
Finish ==
    /\ handler # Idle /\ handler' = Idle
    /\ UNCHANGED <<now, pressed, circles, enabled, means, reports, changes>>

-----------------------------------------------------------------------------
(* An officer's side. *)

(* The route's permission and If-Match, before Bind or Unbind opens its
   transaction; the guild is whatever the officer typed, and the switch of a
   binding for another guild, which no command gets past, is left off.     *)
BeginEdit(p, c, ch) ==
    /\ editing = NoRequest /\ role[c][p] = "officer" /\ c \notin deleted
    /\ \/ \E here \in BOOLEAN : \E visible \in {here, FALSE} :
            editing' = [circle |-> c, channel |-> ch,
                        to |-> [circle |-> c, here |-> here, visible |-> visible]]
       \/ editing' = [circle |-> c, channel |-> ch, to |-> Unbound]
    /\ UNCHANGED <<now, pressed, handler, binding, role, deleted, enabled, means, reports, decided, changes>>

(* Mutant: the upsert leaves the switch of the row it finds. *)
ReplacedKeepingTheSwitch(old, to) ==
    IF old = Unbound THEN to ELSE [to EXCEPT !.visible = old.visible]

(* The upsert: a rebound channel keeps nothing of the row it had. *)
Replaced(old, to) == to

(* Bind: not a channel that a live circle other than its own holds. *)
Bind ==
    LET e == editing
        b == binding[e.channel]
    IN
    /\ e # NoRequest /\ e.to # Unbound
    /\ IF b.circle \in {Nobody, e.circle} \cup deleted
       THEN /\ binding' = [binding EXCEPT ![e.channel] = Replaced(b, e.to)]
            /\ decided' = [decided EXCEPT ![e.channel] = [circle |-> e.circle, visible |-> e.to.visible]]
       ELSE UNCHANGED <<binding, decided>>
    /\ editing' = NoRequest
    /\ UNCHANGED <<now, pressed, handler, role, deleted, enabled, means, reports, changes>>

(* Unbind: of this circle's own binding. *)
Unbind ==
    LET e == editing IN
    /\ e # NoRequest /\ e.to = Unbound
    /\ IF binding[e.channel].circle = e.circle
       THEN /\ binding' = [binding EXCEPT ![e.channel] = Unbound]
            /\ decided' = [decided EXCEPT ![e.channel] = Undecided]
       ELSE UNCHANGED <<binding, decided>>
    /\ editing' = NoRequest
    /\ UNCHANGED <<now, pressed, handler, role, deleted, enabled, means, reports, changes>>

-----------------------------------------------------------------------------
(* What Admission, SignIn, Projection and Names do to this. *)

Change == changes < MaxChanges /\ changes' = changes + 1

ChangeMember(c, p) ==
    /\ Change /\ \E r \in Roles \ {role[c][p]} : role' = [role EXCEPT ![c][p] = r]
    /\ UNCHANGED <<now, pressed, handler, binding, editing, deleted, enabled, means, reports, decided>>

DeleteCircle(c) ==
    /\ Change /\ c \notin deleted /\ deleted' = deleted \cup {c}
    /\ UNCHANGED <<now, pressed, handler, binding, editing, role, enabled, means, reports, decided>>

Elsewhere ==
    /\ Change
    /\ \/ enabled' = ~enabled /\ UNCHANGED means
       \/ means' \in Targets \ {means} /\ UNCHANGED enabled
    /\ UNCHANGED <<now, pressed, handler, circles, reports>>

Tick ==
    /\ now < MaxNow /\ now' = now + 1
    /\ UNCHANGED <<pressed, handler, circles, enabled, means, reports, changes>>

Command ==
    \/ \E i \in Presses : Deliver(i)
    \/ Resolve \/ Admit \/ Status \/ Name \/ Report \/ Finish

Next ==
    \/ \E i \in Presses, p \in People, ch \in Channels : Press(i, p, ch)
    \/ Command
    \/ \E p \in People, c \in Circles :
         ChangeMember(c, p) \/ \E ch \in Channels : BeginEdit(p, c, ch)
    \/ Bind \/ Unbind
    \/ \E c \in Circles : DeleteCircle(c)
    \/ Elsewhere \/ Tick

Spec == Init /\ [][Next]_vars

-----------------------------------------------------------------------------
(* Rows and handlers keep their types; who is answered has been resolved. *)
TypeOK ==
    /\ binding \in [Channels -> [circle : Circles \cup {Nobody}, here : BOOLEAN, visible : BOOLEAN]]
    /\ \A ch \in Channels : binding[ch].circle = Nobody => binding[ch] = Unbound
    /\ \A r \in reports : r.key.circle \in Circles /\ r.key.target \in Targets /\ r.from \in Presses
    /\ handler.at \notin {"idle", "verified"} => handler.circle \in Circles

(* dispatch.go:338-353, died_at is the signed instant: however often and
   however late within the window one interaction arrives, a circle gets one
   report of it about one target.                                          *)
ARedeliveryIsOneReport ==
    \A r, s \in reports :
      r.from = s.from /\ r.key.circle = s.key.circle /\ r.key.target = s.key.target => r = s

(* binding.go:163-169 and dispatch.go:193-200: what is posted where a channel
   can read it is a circle's whose own officer had said so, in the last
   decision about that channel when the command was resolved; never one that
   a circle before it, or an earlier decision, left in the row.            *)
OnlyItsOfficersDisclose ==
    At("posted") => handler.said = [circle |-> handler.circle, visible |-> TRUE]

WhatACommandLeaves == ARedeliveryIsOneReport /\ OnlyItsOfficersDisclose
=============================================================================
