---------------------------- MODULE DiscordProofs ----------------------------
(***************************************************************************)
(* Theorems of Discord for any people, circles, channels and interactions, *)
(* any windows and any number of changes around a command.                 *)
(***************************************************************************)
EXTENDS Discord, TLAPS

-----------------------------------------------------------------------------
(* The inductive invariant.  A row of the bindings says what the last decision
   about its channel says; a command that has been resolved carries that of
   then; and a report says who pressed enter, and which second was signed.  *)
PressedSet == [who : People \cup {Nobody}, channel : Channels \cup {Nobody},
               command : {"none", "status", "report"}, open : BOOLEAN, signed : Int]

HandlerSet == [at : {"idle", "verified", "resolved", "admitted", "posted", "writing"},
               of : {0} \cup Presses, circle : Circles \cup {Nobody}, visible : BOOLEAN,
               target : {0} \cup Targets,
               said : [circle : Circles \cup {Nobody}, visible : BOOLEAN]]

BindingSet == [circle : Circles \cup {Nobody}, here : BOOLEAN, visible : BOOLEAN]

Typed ==
    /\ now \in Int /\ means \in Targets
    /\ pressed \in [Presses -> PressedSet]
    /\ handler \in HandlerSet
    /\ binding \in [Channels -> BindingSet]
    /\ decided \in [Channels -> [circle : Circles \cup {Nobody}, visible : BOOLEAN]]
    /\ editing \in [circle : Circles \cup {Nobody}, channel : Channels \cup {Nobody}, to : BindingSet]
    /\ reports \subseteq [key : [circle : Circles, target : Targets, who : People \cup {Nobody}, died : Int],
                          from : Presses]

(* A delivery is of something pressed, by a person in a channel. *)
WasPressed(i) ==
    /\ i \in Presses /\ pressed[i] # NotSent
    /\ pressed[i].who \in People /\ pressed[i].channel \in Channels

SentKnows == \A i \in Presses : pressed[i] # NotSent => WasPressed(i)

HandlerKnows ==
    /\ handler # Idle => WasPressed(handler.of)
    /\ handler.at \notin {"idle", "verified"} =>
         /\ handler.circle \in Circles
         /\ handler.said = [circle |-> handler.circle, visible |-> handler.visible]
    /\ At("posted") => handler.visible = TRUE
    /\ At("writing") => handler.target \in Targets

BindingsAreDecided ==
    \A ch \in Channels :
      /\ decided[ch] = [circle |-> binding[ch].circle, visible |-> binding[ch].visible]
      /\ binding[ch].circle = Nobody => binding[ch] = Unbound

EditorKnows ==
    editing # NoRequest =>
      /\ editing.circle \in Circles /\ editing.channel \in Channels
      /\ editing.to # Unbound => editing.to.circle = editing.circle

ReportsSay ==
    /\ \A r \in reports :
         /\ WasPressed(r.from)
         /\ r.key.who = pressed[r.from].who /\ r.key.died = pressed[r.from].signed
    /\ \A r, s \in reports : r.key = s.key => r = s

IInv == Typed /\ SentKnows /\ HandlerKnows /\ BindingsAreDecided /\ EditorKnows /\ ReportsSay

-----------------------------------------------------------------------------
(* The invariant says what the two properties say, and the types. *)
LEMMA Implied == ASSUME IInv PROVE TypeOK /\ WhatACommandLeaves
<1>1. TypeOK
  BY DEF IInv, Typed, TypeOK, HandlerKnows, BindingsAreDecided, BindingSet
<1>2. OnlyItsOfficersDisclose
  BY DEF IInv, HandlerKnows, OnlyItsOfficersDisclose, At
<1>3. ASSUME NEW r \in reports, NEW s \in reports, r.from = s.from,
             r.key.circle = s.key.circle, r.key.target = s.key.target
      PROVE  r = s
  <2>1. r.key.who = s.key.who /\ r.key.died = s.key.died
    BY <1>3 DEF IInv, ReportsSay
  <2>2. /\ r.key \in [circle : Circles, target : Targets, who : People \cup {Nobody}, died : Int]
        /\ s.key \in [circle : Circles, target : Targets, who : People \cup {Nobody}, died : Int]
    BY DEF IInv, Typed
  <2>3. r.key = s.key
    BY <1>3, <2>1, <2>2
  <2> QED
    BY <2>3 DEF IInv, ReportsSay
<1> QED
  BY <1>1, <1>2, <1>3 DEF WhatACommandLeaves, ARedeliveryIsOneReport

-----------------------------------------------------------------------------
(* A handler that moves and touches nothing else. *)
LEMMA MoveKeeps ==
    ASSUME IInv, UNCHANGED <<now, pressed, circles, enabled, means, reports, changes>>,
           handler' \in HandlerSet, HandlerKnows'
    PROVE  IInv'
<1>u. UNCHANGED <<now, pressed, binding, editing, decided, means, reports>>
  BY DEF circles
<1>1. Typed'
  BY <1>u DEF IInv, Typed
<1>2. BindingsAreDecided' /\ EditorKnows'
  BY <1>u DEF IInv, BindingsAreDecided, EditorKnows
<1>3. ReportsSay'
  BY <1>u DEF IInv, ReportsSay, WasPressed
<1>4. SentKnows'
  BY <1>u DEF IInv, SentKnows, WasPressed
<1> QED
  BY <1>1, <1>2, <1>3, <1>4 DEF IInv

(* A handler, field by field, and the steps that set some of its fields. *)
H(at, of, circle, visible, target, said) ==
    [at |-> at, of |-> of, circle |-> circle, visible |-> visible, target |-> target, said |-> said]

(* A handler that moves on keeps all it has but its stage. *)
LEMMA Moved ==
    ASSUME handler \in HandlerSet, NEW stage
    PROVE  Move(stage) = H(stage, handler.of, handler.circle, handler.visible, handler.target, handler.said)
BY DEF Move, H, HandlerSet

(* The end of a command. *)
LEMMA EndKeeps ==
    ASSUME IInv, handler' = Idle, UNCHANGED <<now, pressed, circles, enabled, means, reports, changes>>
    PROVE  IInv'
<1>1. Idle \in HandlerSet
  BY DEF Idle, HandlerSet, Undecided
<1>2. HandlerKnows'
  BY DEF HandlerKnows, Idle, At
<1> QED
  BY <1>1, <1>2, MoveKeeps

(* A set of records, from its fields. *)
LEMMA HTyped ==
    ASSUME NEW at \in {"idle", "verified", "resolved", "admitted", "posted", "writing"},
           NEW of \in {0} \cup Presses, NEW circle \in Circles \cup {Nobody}, NEW visible \in BOOLEAN,
           NEW target \in {0} \cup Targets,
           NEW said \in [circle : Circles \cup {Nobody}, visible : BOOLEAN]
    PROVE  H(at, of, circle, visible, target, said) \in HandlerSet
BY DEF H, HandlerSet

(* Verify. *)
LEMMA DeliverKeeps == ASSUME IInv, NEW i \in Presses, Deliver(i) PROVE IInv'
<1>1. handler' = H("verified", i, Nobody, FALSE, 0, Undecided)
  BY DEF Deliver, Idle, H
<1>2. Undecided \in [circle : Circles \cup {Nobody}, visible : BOOLEAN]
  BY DEF Undecided
<1>3. handler' \in HandlerSet
  BY <1>1, <1>2, HTyped
<1>4. WasPressed(i)
  <2>1. pressed[i] \in PressedSet /\ pressed[i] # NotSent
    BY DEF Deliver, IInv, Typed
  <2> QED
    BY <2>1 DEF IInv, SentKnows, WasPressed
<1>5. HandlerKnows'
  BY <1>1, <1>4 DEF HandlerKnows, WasPressed, Deliver, At, H
<1>6. UNCHANGED <<now, pressed, circles, enabled, means, reports, changes>>
  BY DEF Deliver
<1> QED
  BY <1>3, <1>5, <1>6, MoveKeeps

(* The channel's circle, with what was last decided of the channel. *)
LEMMA ResolveKeeps == ASSUME DiscordAssumption, IInv, Resolve PROVE IInv'
<1> DEFINE b == binding[Sent.channel]
<1>u. UNCHANGED <<now, pressed, circles, enabled, means, reports, changes>>
  BY DEF Resolve
<1>1. CASE b.circle # Nobody /\ b.circle \notin deleted /\ b.here
  <2>1. handler.at = "verified" /\ handler \in HandlerSet /\ WasPressed(handler.of)
    BY DEF Resolve, IInv, Typed, HandlerKnows, At, Idle
  <2>2. Sent.channel \in Channels
    BY <2>1 DEF WasPressed, Sent
  <2>3. b \in BindingSet /\ decided[Sent.channel] = [circle |-> b.circle, visible |-> b.visible]
    BY <2>2 DEF IInv, Typed, BindingsAreDecided
  <2>4. handler' = [handler EXCEPT !.at = "resolved", !.circle = b.circle, !.visible = b.visible,
                                   !.said = decided[Sent.channel]]
    BY <1>1 DEF Resolve
  <2>5. handler' = H("resolved", handler.of, b.circle, b.visible, handler.target,
                     [circle |-> b.circle, visible |-> b.visible])
    <3> HIDE DEF b
    <3> QED BY <2>1, <2>3, <2>4 DEF H, HandlerSet
  <2>6. /\ b.circle \in Circles /\ b.visible \in BOOLEAN
        /\ [circle |-> b.circle, visible |-> b.visible] \in [circle : Circles \cup {Nobody}, visible : BOOLEAN]
    BY <1>1, <2>3 DEF BindingSet
  <2>7. handler.of \in {0} \cup Presses /\ handler.target \in {0} \cup Targets
    BY <2>1 DEF HandlerSet
  <2>8. handler' \in HandlerSet
    <3> HIDE DEF b
    <3> QED BY <2>5, <2>6, <2>7, HTyped
  <2>9. HandlerKnows'
    <3>1. /\ handler'.of = handler.of /\ handler'.at = "resolved" /\ handler'.circle = b.circle
          /\ handler'.said = [circle |-> handler'.circle, visible |-> handler'.visible]
      BY <2>5 DEF H
    <3>2. WasPressed(handler.of)'
      BY <1>u, <2>1, <3>1 DEF WasPressed
    <3> QED
      BY <3>1, <3>2, <2>6 DEF HandlerKnows, At
  <2> QED
    BY <1>u, <2>8, <2>9, MoveKeeps
<1>2. CASE ~(b.circle # Nobody /\ b.circle \notin deleted /\ b.here)
  BY <1>u, <1>2, EndKeeps DEF Resolve
<1> QED
  BY <1>1, <1>2

(* Principal: the command goes on as it was. *)
LEMMA AdmitKeeps == ASSUME IInv, Admit PROVE IInv'
<1>u. UNCHANGED <<now, pressed, circles, enabled, means, reports, changes>>
  BY DEF Admit
<1>1. CASE handler' = Move("admitted")
  <2>1. handler.at = "resolved" /\ handler \in HandlerSet /\ HandlerKnows
    BY DEF Admit, IInv, Typed, At
  <2>2. handler' = H("admitted", handler.of, handler.circle, handler.visible, handler.target, handler.said)
    BY <1>1, <2>1, Moved
  <2>3. handler' \in HandlerSet
    BY <2>1, <2>2 DEF H, HandlerSet
  <2>4. HandlerKnows'
    <3>1. /\ handler'.of = handler.of /\ handler'.at = "admitted" /\ handler'.circle = handler.circle
          /\ handler'.said = handler.said /\ handler'.visible = handler.visible
      BY <2>2 DEF H
    <3>2. handler # Idle /\ handler.circle \in Circles
          /\ handler.said = [circle |-> handler.circle, visible |-> handler.visible]
      BY <2>1 DEF HandlerKnows, Idle
    <3>3. WasPressed(handler.of)'
      BY <1>u, <2>1, <3>1, <3>2 DEF WasPressed, HandlerKnows
    <3> QED
      BY <3>1, <3>2, <3>3 DEF HandlerKnows, At
  <2> QED
    BY <1>u, <2>3, <2>4, MoveKeeps
<1> QED
  BY <1>1, <1>u, EndKeeps DEF Admit

(* A status: what is posted was to be visible. *)
LEMMA StatusKeeps == ASSUME IInv, Status PROVE IInv'
<1>u. UNCHANGED <<now, pressed, circles, enabled, means, reports, changes>>
  BY DEF Status
<1>1. CASE ReplyIsVisible
  <2>1. handler.at = "admitted" /\ handler \in HandlerSet /\ HandlerKnows /\ handler.visible \in BOOLEAN
    BY DEF Status, IInv, Typed, At, HandlerSet
  <2>2. handler' = H("posted", handler.of, handler.circle, handler.visible, handler.target, handler.said)
    BY <1>1, <2>1, Moved DEF Status
  <2>3. handler' \in HandlerSet
    BY <2>1, <2>2 DEF H, HandlerSet
  <2>4. HandlerKnows'
    <3>1. /\ handler'.of = handler.of /\ handler'.at = "posted" /\ handler'.circle = handler.circle
          /\ handler'.said = handler.said /\ handler'.visible = handler.visible
      BY <2>2 DEF H
    <3>2. handler # Idle /\ handler.circle \in Circles
          /\ handler.said = [circle |-> handler.circle, visible |-> handler.visible]
      BY <2>1 DEF HandlerKnows, Idle
    <3>3. WasPressed(handler.of)'
      BY <1>u, <2>1, <3>1, <3>2 DEF WasPressed, HandlerKnows
    <3>4. handler.visible = TRUE
      BY <1>1, <2>1 DEF ReplyIsVisible
    <3> QED
      BY <3>1, <3>2, <3>3, <3>4 DEF HandlerKnows, At
  <2> QED
    BY <1>u, <2>3, <2>4, MoveKeeps
<1> QED
  BY <1>1, <1>u, EndKeeps DEF Status

(* A report's target, as it is named now. *)
LEMMA NameKeeps == ASSUME IInv, Name PROVE IInv'
<1>u. UNCHANGED <<now, pressed, circles, enabled, means, reports, changes>>
  BY DEF Name
<1>1. CASE handler.circle \notin deleted
  <2>1. handler.at = "admitted" /\ handler \in HandlerSet /\ HandlerKnows /\ means \in Targets
    BY DEF Name, IInv, Typed, At
  <2>2. handler' = [handler EXCEPT !.at = "writing", !.target = means]
    BY <1>1 DEF Name
  <2>3. handler' = H("writing", handler.of, handler.circle, handler.visible, means, handler.said)
    BY <2>1, <2>2 DEF H, HandlerSet
  <2>4. handler' \in HandlerSet
    BY <2>1, <2>3 DEF H, HandlerSet
  <2>5. HandlerKnows'
    <3>1. /\ handler'.of = handler.of /\ handler'.at = "writing" /\ handler'.circle = handler.circle
          /\ handler'.said = handler.said /\ handler'.visible = handler.visible /\ handler'.target = means
      BY <2>3 DEF H
    <3>2. handler # Idle /\ handler.circle \in Circles
          /\ handler.said = [circle |-> handler.circle, visible |-> handler.visible]
      BY <2>1 DEF HandlerKnows, Idle
    <3>3. WasPressed(handler.of)'
      BY <1>u, <2>1, <3>1, <3>2 DEF WasPressed, HandlerKnows
    <3> QED
      BY <2>1, <3>1, <3>2, <3>3 DEF HandlerKnows, At
  <2> QED
    BY <1>u, <2>4, <2>5, MoveKeeps
<1> QED
  BY <1>1, <1>u, EndKeeps DEF Name

(* tod.Create: a row that was not there, of who pressed enter and when. *)
LEMMA ReportKeeps == ASSUME IInv, Report PROVE IInv'
<1> DEFINE new == [circle |-> handler.circle, target |-> handler.target,
                   who |-> Sent.who, died |-> DiedAt]
           row == [key |-> new, from |-> handler.of]
<1>u. UNCHANGED <<now, pressed, binding, editing, decided, means>>
  BY DEF Report, circles
<1>1. handler # Idle /\ handler.at = "writing" /\ handler' = Idle
  BY DEF Report, At, Idle
<1>2. /\ WasPressed(handler.of) /\ handler.circle \in Circles /\ handler.target \in Targets
  BY <1>1 DEF IInv, HandlerKnows, At
<1>3. Sent \in PressedSet
  BY <1>2 DEF IInv, Typed, WasPressed, Sent
<1>4. row \in [key : [circle : Circles, target : Targets, who : People \cup {Nobody}, died : Int],
               from : Presses]
  BY <1>2, <1>3 DEF WasPressed, PressedSet, DiedAt
<1>5. reports' = reports \/ (reports' = reports \cup {row} /\ ~ \E r \in reports : r.key = new)
  BY DEF Report
<1>6. Typed'
  <2>1. reports' \subseteq [key : [circle : Circles, target : Targets, who : People \cup {Nobody}, died : Int],
                            from : Presses]
    <3> HIDE DEF row
    <3> QED BY <1>4, <1>5 DEF IInv, Typed
  <2>2. Idle \in HandlerSet
    BY DEF Idle, HandlerSet, Undecided
  <2> QED
    BY <1>u, <1>1, <2>1, <2>2 DEF IInv, Typed
<1>7. ReportsSay'
  <2>1. row.key = new /\ row.from = handler.of
    OBVIOUS
  <2>2. new.who = pressed[handler.of].who /\ new.died = pressed[handler.of].signed
    BY DEF Sent, DiedAt
  <2> HIDE DEF row, new
  <2>3. ASSUME NEW r \in reports'
        PROVE  WasPressed(r.from) /\ r.key.who = pressed[r.from].who /\ r.key.died = pressed[r.from].signed
    <3>1. r \in reports \/ r = row
      BY <1>5
    <3>2. CASE r \in reports
      BY <3>2 DEF IInv, ReportsSay
    <3>3. CASE r = row
      BY <3>3, <2>1, <2>2, <1>2
    <3> QED
      BY <3>1, <3>2, <3>3
  <2>4. ASSUME NEW r \in reports', NEW s \in reports', r.key = s.key PROVE r = s
    <3>1. (r \in reports \/ r = row) /\ (s \in reports \/ s = row)
      BY <1>5
    <3>2. CASE r \in reports /\ s \in reports
      BY <3>2, <2>4 DEF IInv, ReportsSay
    <3> QED
      BY <3>1, <3>2, <2>1, <2>4, <1>5
  <2> QED
    BY <1>u, <2>3, <2>4 DEF ReportsSay, WasPressed
<1>8. SentKnows' /\ HandlerKnows' /\ BindingsAreDecided' /\ EditorKnows'
  BY <1>u, <1>1 DEF IInv, SentKnows, HandlerKnows, BindingsAreDecided, EditorKnows, WasPressed, Idle, At
<1> QED
  BY <1>6, <1>7, <1>8 DEF IInv

(* Enter: a press that was not sent is sent, once. *)
LEMMA PressKeeps ==
    ASSUME DiscordAssumption, IInv, NEW i \in Presses, NEW p \in People, NEW ch \in Channels, Press(i, p, ch)
    PROVE  IInv'
<1>u. UNCHANGED <<now, handler, binding, editing, decided, means, reports>>
  BY DEF Press, circles
<1>1. PICK command \in {"status", "report"}, open \in BOOLEAN, ahead \in 0..FutureSkew :
        pressed' = [pressed EXCEPT ![i] =
          [who |-> p, channel |-> ch, command |-> command, open |-> open, signed |-> now + ahead]]
  BY DEF Press
<1> DEFINE new == [who |-> p, channel |-> ch, command |-> command, open |-> open, signed |-> now + ahead]
<1>2. now + ahead \in Int
  BY DEF DiscordAssumption, IInv, Typed
<1>3. new \in PressedSet /\ new # NotSent /\ new.who = p /\ new.channel = ch
  <2>1. command \in {"none", "status", "report"}
    OBVIOUS
  <2>2. new \in PressedSet
    BY <1>2, <2>1 DEF PressedSet
  <2>3. new.command # "none"
    OBVIOUS
  <2> QED
    BY <2>2, <2>3 DEF NotSent
<1> HIDE DEF new
<1>4. pressed \in [Presses -> PressedSet] /\ pressed[i] = NotSent
  BY DEF IInv, Typed, Press
<1>5. /\ pressed' \in [Presses -> PressedSet]
      /\ pressed'[i] = new /\ \A j \in Presses : j # i => pressed'[j] = pressed[j]
  BY <1>1, <1>3, <1>4 DEF new
<1>6. ASSUME NEW j \in Presses, WasPressed(j) PROVE WasPressed(j)' /\ pressed'[j] = pressed[j]
  <2>1. j # i
    BY <1>4, <1>6 DEF WasPressed
  <2> QED
    BY <1>5, <1>6, <2>1 DEF WasPressed
<1>7. Typed'
  BY <1>u, <1>5 DEF IInv, Typed
<1>8. SentKnows'
  <2>1. ASSUME NEW j \in Presses, pressed'[j] # NotSent PROVE WasPressed(j)'
    BY <1>3, <1>5, <1>6, <2>1 DEF IInv, SentKnows, WasPressed
  <2> QED
    BY <2>1 DEF SentKnows
<1>9. HandlerKnows'
  <2>1. ASSUME handler # Idle PROVE WasPressed(handler.of)'
    <3>1. WasPressed(handler.of) /\ handler.of \in Presses
      BY <2>1 DEF IInv, HandlerKnows, WasPressed
    <3>2. PICK j \in Presses : j = handler.of
      BY <3>1
    <3>3. WasPressed(j)'
      BY <3>1, <3>2, <1>6
    <3>4. handler'.of = j
      BY <3>2, <1>u
    <3> QED
      BY <1>u, <3>2, <3>3, <3>4 DEF WasPressed
  <2> QED
    BY <1>u, <2>1 DEF IInv, HandlerKnows, At, WasPressed
<1>10. ReportsSay'
  <2>1. ASSUME NEW r \in reports
        PROVE  WasPressed(r.from)' /\ r.key.who = pressed'[r.from].who /\ r.key.died = pressed'[r.from].signed
    <3>1. WasPressed(r.from) /\ r.key.who = pressed[r.from].who /\ r.key.died = pressed[r.from].signed
      BY DEF IInv, ReportsSay
    <3> QED
      BY <3>1, <1>6 DEF WasPressed
  <2> QED
    BY <1>u, <2>1 DEF IInv, ReportsSay, WasPressed
<1>11. BindingsAreDecided' /\ EditorKnows'
  BY <1>u DEF IInv, BindingsAreDecided, EditorKnows
<1> QED
  BY <1>7, <1>8, <1>9, <1>10, <1>11 DEF IInv

(* An officer's request knows its circle; a row is as its decision says. *)
LEMMA BeginEditKeeps ==
    ASSUME IInv, NEW p \in People, NEW c \in Circles, NEW ch \in Channels, BeginEdit(p, c, ch) PROVE IInv'
<1>u. UNCHANGED <<now, pressed, handler, binding, decided, means, reports>>
  BY DEF BeginEdit
<1>1. PICK to : /\ editing' = [circle |-> c, channel |-> ch, to |-> to]
                /\ to \in BindingSet /\ (to # Unbound => to.circle = c)
  <2>1. CASE editing' = [circle |-> c, channel |-> ch, to |-> Unbound]
    <3>1. Unbound \in BindingSet
      BY DEF Unbound, BindingSet
    <3> QED
      BY <2>1, <3>1
  <2>2. CASE \E here \in BOOLEAN : \E visible \in {here, FALSE} :
               editing' = [circle |-> c, channel |-> ch,
                           to |-> [circle |-> c, here |-> here, visible |-> visible]]
    <3>1. PICK here \in BOOLEAN, visible \in BOOLEAN :
               editing' = [circle |-> c, channel |-> ch,
                           to |-> [circle |-> c, here |-> here, visible |-> visible]]
      BY <2>2
    <3>2. [circle |-> c, here |-> here, visible |-> visible] \in BindingSet
      BY DEF BindingSet
    <3> QED
      BY <3>1, <3>2
  <2> QED
    BY <2>1, <2>2 DEF BeginEdit
<1>2. Typed' /\ EditorKnows'
  BY <1>u, <1>1 DEF IInv, Typed, EditorKnows
<1>3. SentKnows' /\ HandlerKnows' /\ BindingsAreDecided' /\ ReportsSay'
  BY <1>u DEF IInv, SentKnows, HandlerKnows, BindingsAreDecided, ReportsSay, WasPressed, At
<1> QED
  BY <1>2, <1>3 DEF IInv

(* The end of an officer's request, which may write one row with its decision. *)
LEMMA EditKeeps ==
    ASSUME IInv, editing' = NoRequest,
           UNCHANGED <<now, pressed, handler, role, deleted, enabled, means, reports, changes>>,
           NEW ch \in Channels, NEW to \in BindingSet, to.circle = Nobody => to = Unbound,
           \/ UNCHANGED <<binding, decided>>
           \/ /\ binding' = [binding EXCEPT ![ch] = to]
              /\ decided' = [decided EXCEPT ![ch] = [circle |-> to.circle, visible |-> to.visible]]
    PROVE  IInv'
<1>1. [circle |-> to.circle, visible |-> to.visible] \in [circle : Circles \cup {Nobody}, visible : BOOLEAN]
  BY DEF BindingSet
<1>2. /\ binding' \in [Channels -> BindingSet]
      /\ decided' \in [Channels -> [circle : Circles \cup {Nobody}, visible : BOOLEAN]]
  BY <1>1 DEF IInv, Typed
<1>3. NoRequest \in [circle : Circles \cup {Nobody}, channel : Channels \cup {Nobody}, to : BindingSet]
  BY DEF NoRequest, Unbound, BindingSet
<1>4. Typed'
  BY <1>2, <1>3 DEF IInv, Typed
<1>5. BindingsAreDecided'
  <2>1. ASSUME NEW d \in Channels
        PROVE  /\ decided'[d] = [circle |-> binding'[d].circle, visible |-> binding'[d].visible]
               /\ binding'[d].circle = Nobody => binding'[d] = Unbound
    <3>1. binding \in [Channels -> BindingSet] /\ BindingsAreDecided
          /\ decided \in [Channels -> [circle : Circles \cup {Nobody}, visible : BOOLEAN]]
      BY DEF IInv, Typed
    <3>2. CASE binding'[d] = binding[d] /\ decided'[d] = decided[d]
      BY <3>1, <3>2 DEF BindingsAreDecided
    <3>3. CASE binding'[d] = to /\ decided'[d] = [circle |-> to.circle, visible |-> to.visible]
      BY <3>3
    <3> QED
      BY <3>1, <3>2, <3>3
  <2> QED
    BY <2>1 DEF BindingsAreDecided
<1>6. SentKnows' /\ HandlerKnows' /\ EditorKnows' /\ ReportsSay'
  BY DEF IInv, SentKnows, HandlerKnows, EditorKnows, ReportsSay, WasPressed, At
<1> QED
  BY <1>4, <1>5, <1>6 DEF IInv

(* Bind writes the row it was asked for, whole. *)
LEMMA BindKeeps == ASSUME DiscordAssumption, IInv, Bind PROVE IInv'
<1>1. editing # NoRequest /\ editing.to # Unbound
  BY DEF Bind
<1>2. /\ editing.circle \in Circles /\ editing.channel \in Channels
      /\ editing.to \in BindingSet /\ editing.to.circle = editing.circle
  BY <1>1 DEF IInv, EditorKnows, Typed
<1>3. editing.to.circle # Nobody
  BY <1>2 DEF DiscordAssumption
<1>4. \/ UNCHANGED <<binding, decided>>
      \/ /\ binding' = [binding EXCEPT ![editing.channel] = editing.to]
         /\ decided' = [decided EXCEPT ![editing.channel] =
                          [circle |-> editing.to.circle, visible |-> editing.to.visible]]
  BY <1>2 DEF Bind, Replaced
<1>5. /\ editing' = NoRequest
      /\ UNCHANGED <<now, pressed, handler, role, deleted, enabled, means, reports, changes>>
  BY DEF Bind
<1> QED
  BY <1>2, <1>3, <1>4, <1>5, EditKeeps

(* Unbind removes the row and what was decided with it. *)
LEMMA UnbindKeeps == ASSUME IInv, Unbind PROVE IInv'
<1>1. editing # NoRequest
  BY DEF Unbind
<1>2. editing.channel \in Channels
  BY <1>1 DEF IInv, EditorKnows
<1>3. Unbound \in BindingSet
  BY DEF Unbound, BindingSet
<1>4. \/ UNCHANGED <<binding, decided>>
      \/ /\ binding' = [binding EXCEPT ![editing.channel] = Unbound]
         /\ decided' = [decided EXCEPT ![editing.channel] =
                          [circle |-> Unbound.circle, visible |-> Unbound.visible]]
  BY DEF Unbind, Unbound, Undecided
<1>5. /\ editing' = NoRequest
      /\ UNCHANGED <<now, pressed, handler, role, deleted, enabled, means, reports, changes>>
  BY DEF Unbind
<1> QED
  BY <1>2, <1>3, <1>4, <1>5, EditKeeps

(* What happens around a command, of which the invariant says nothing. *)
LEMMA AroundKeeps ==
    ASSUME IInv, UNCHANGED <<pressed, handler, binding, editing, decided, reports>>,
           now' \in Int, means' \in Targets
    PROVE  IInv'
<1>1. Typed'
  BY DEF IInv, Typed
<1>2. SentKnows' /\ HandlerKnows' /\ BindingsAreDecided' /\ EditorKnows' /\ ReportsSay'
  BY DEF IInv, SentKnows, HandlerKnows, BindingsAreDecided, EditorKnows, ReportsSay, WasPressed, At
<1> QED
  BY <1>1, <1>2 DEF IInv

-----------------------------------------------------------------------------
(* The first state, and every step. *)
LEMMA InitHolds == ASSUME Init PROVE IInv
<1>1. Typed
  BY DEF Init, Typed, Targets, PressedSet, NotSent, HandlerSet, Idle, Undecided, BindingSet, Unbound, NoRequest
<1>2. SentKnows /\ HandlerKnows /\ ReportsSay
  BY DEF Init, SentKnows, HandlerKnows, ReportsSay, Idle, At
<1>3. BindingsAreDecided /\ EditorKnows
  BY DEF Init, BindingsAreDecided, EditorKnows, Undecided, Unbound
<1> QED
  BY <1>1, <1>2, <1>3 DEF IInv

(* Every press, decision and step of a handler keeps the invariant. *)
LEMMA StepKeeps == ASSUME DiscordAssumption, IInv, [Next]_vars PROVE IInv'
<1>1. ASSUME NEW i \in Presses, NEW p \in People, NEW ch \in Channels, Press(i, p, ch) PROVE IInv'
  BY <1>1, PressKeeps
<1>2. ASSUME NEW i \in Presses, Deliver(i) PROVE IInv'
  BY <1>2, DeliverKeeps
<1>3. CASE Resolve
  BY <1>3, ResolveKeeps
<1>4. CASE Admit
  BY <1>4, AdmitKeeps
<1>5. CASE Status
  BY <1>5, StatusKeeps
<1>6. CASE Name
  BY <1>6, NameKeeps
<1>7. CASE Report
  BY <1>7, ReportKeeps
<1>8. CASE Finish
  BY <1>8, EndKeeps DEF Finish
<1>t. now \in Int /\ means \in Targets
  BY DEF IInv, Typed
<1>9. ASSUME NEW p \in People, NEW c \in Circles, ChangeMember(c, p) PROVE IInv'
  BY <1>9, <1>t, AroundKeeps DEF ChangeMember
<1>10. ASSUME NEW p \in People, NEW c \in Circles, NEW ch \in Channels, BeginEdit(p, c, ch) PROVE IInv'
  BY <1>10, BeginEditKeeps
<1>11. CASE Bind
  BY <1>11, BindKeeps
<1>12. CASE Unbind
  BY <1>12, UnbindKeeps
<1>13. ASSUME NEW c \in Circles, DeleteCircle(c) PROVE IInv'
  BY <1>13, <1>t, AroundKeeps DEF DeleteCircle
<1>14. CASE Elsewhere
  BY <1>14, <1>t, AroundKeeps DEF Elsewhere, circles
<1>15. CASE Tick
  BY <1>15, <1>t, AroundKeeps DEF Tick, circles
<1>16. CASE UNCHANGED vars
  BY <1>16, <1>t, AroundKeeps DEF vars, circles
<1> QED
  BY <1>1, <1>2, <1>3, <1>4, <1>5, <1>6, <1>7, <1>8, <1>9, <1>10, <1>11, <1>12, <1>13, <1>14, <1>15, <1>16
  DEF Next, Command

-----------------------------------------------------------------------------
(* Every state of a run: what a row, a command and a report know. *)
THEOREM Inductive == ASSUME DiscordAssumption PROVE Spec => []IInv
<1>1. Init => IInv
  BY InitHolds
<1>2. IInv /\ [Next]_vars => IInv'
  BY StepKeeps
<1> QED
  BY <1>1, <1>2, PTL DEF Spec

(* Rows and handlers keep their types; who is answered has been resolved. *)
THEOREM TypeCorrect == ASSUME DiscordAssumption PROVE Spec => []TypeOK
<1>1. IInv => TypeOK
  BY Implied
<1> QED
  BY <1>1, Inductive, PTL

(* dispatch.go:338-353, binding.go:163-169, dispatch.go:193-200: however often
   an interaction arrives there is one report of it about one target, and only
   what an officer of the circle last decided to show is posted.            *)
THEOREM CommandsLeave == ASSUME DiscordAssumption PROVE Spec => []WhatACommandLeaves
<1>1. IInv => WhatACommandLeaves
  BY Implied
<1> QED
  BY <1>1, Inductive, PTL
=============================================================================
