----------------------------- MODULE MCReports ------------------------------
(***************************************************************************)
(* The two ways a report comes in, on small instances: the requests of     *)
(* Ingest, as MCIngest has them, and the commands of Discord, where one    *)
(* person is an officer of two circles and one channel is bound to either. *)
(* They have no variable in common but for the report log, and no row of   *)
(* one can be a row of the other, so that the run follows one of them with *)
(* the other at rest, and not their product.                               *)
(***************************************************************************)
EXTENDS MCIngest

CONSTANTS Circles, Channels, ReplayWindow, FutureSkew, MaxNow, MaxPresses, MaxChanges

VARIABLES clock, pressed, handler, binding, editing, role, deleted, enabled, means, reports, decided, changes,
          door  \* which of them this behaviour follows

Bot == INSTANCE Discord WITH
    People <- {"carol"}, Joined <- [c \in Circles |-> [p \in {"carol"} |-> "officer"]], Nobody <- None,
    now <- clock

ASSUME BotAssumption == Bot!DiscordAssumption

botVars == <<clock, pressed, handler, binding, editing, role, deleted, enabled, means, reports, decided, changes>>

EitherInit == Init /\ Bot!Init /\ door \in {"request", "command"}

EitherNext ==
    /\ UNCHANGED door
    /\ \/ door = "request" /\ Next /\ UNCHANGED botVars
       \/ door = "command" /\ Bot!Next /\ UNCHANGED vars

Either == EitherInit /\ [][EitherNext]_<<vars, botVars, door>>

(* The type invariants: rows, records and requests hold what tod, api and
   discord put there.                                                      *)
RowsAreTyped == TypeOK /\ Bot!TypeOK

(* dispatch.go:338-353: however often and however late within the window one
   interaction arrives, a circle gets one report of it about one target; and
   binding.go:163-169: what is posted where a channel can read it is what the
   last decision about that channel, by the circle's own officer, allows.  *)
WhatACommandLeaves == Bot!WhatACommandLeaves
=============================================================================
