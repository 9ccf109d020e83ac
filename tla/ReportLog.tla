----------------------------- MODULE ReportLog ------------------------------
(***************************************************************************)
(* What the write API promises a client that retries: while the server     *)
(* remembers an operation's Idempotency-Key it acts on it at most once, a  *)
(* fact that a unique index names is in the log at most once whatever the  *)
(* keys were, a report is withdrawn only when it is there to withdraw, and *)
(* nobody is told that something is in the log before it is.               *)
(***************************************************************************)
EXTENDS Naturals

CONSTANTS Operations,  \* logical operations of clients
          Facts,       \* what a row says
          FactOf,      \* the fact an operation asks for
          Needs,       \* the fact a retraction withdraws, None for the rest
          Keyed,       \* facts a unique index admits once
          None

VARIABLES rows,        \* how many rows of the log say each fact
          remembered,  \* operations whose key the server holds
          acted,       \* those it has acted on while holding the key
          told         \* operations some client believes done

logVars == <<rows, remembered, acted, told>>

Init ==
    /\ rows = [f \in Facts |-> 0]
    /\ remembered = {} /\ acted = {} /\ told = {}

(* Operations that share a key are remembered and forgotten together. *)
Remember ==
    /\ remembered \subseteq remembered' /\ remembered # remembered'
    /\ UNCHANGED <<rows, acted, told>>

Forget ==
    /\ remembered' \subseteq remembered /\ remembered # remembered'
    /\ acted' = acted \cap remembered'
    /\ UNCHANGED <<rows, told>>

(* Acting on an operation uses up the key it came under. *)
Act(op) ==
    /\ FactOf[op] \in Keyed => rows[FactOf[op]] = 0
    /\ Needs[op] # None => rows[Needs[op]] > 0
    /\ rows' = [rows EXCEPT ![FactOf[op]] = @ + 1]
    /\ acted \cup {op} \subseteq acted' /\ acted' \subseteq remembered
    /\ UNCHANGED <<remembered, told>>

Tell(op) ==
    /\ told' = told \cup {op}
    /\ rows[FactOf[op]] > 0
    /\ UNCHANGED <<rows, remembered, acted>>

Next ==
    \/ Remember \/ Forget
    \/ \E op \in remembered \ acted : Act(op)
    \/ \E op \in Operations \ told : Tell(op)

Spec == Init /\ [][Next]_logVars
=============================================================================
