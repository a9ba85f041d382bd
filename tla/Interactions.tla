---------------------------- MODULE Interactions ----------------------------
(***************************************************************************)
(* The menus of /model: gateway/discord.py (cmd_model, ModelView,          *)
(* ModelSelect.callback), services/command.py and runtime/interactions.py. *)
(* A menu carries the request_id of a ticket in PendingInteractionStore; a *)
(* pick in it runs /model with that ticket, which is taken out of the      *)
(* store, so that it is good for one switch.  Handlers overlap: a menu     *)
(* stays on the screen after a pick, may be picked in again, and survives  *)
(* the program, in which nobody listens to it then.                        *)
(*                                                                         *)
(* handle_cli_command is also called by other code, which may hand in any  *)
(* ticket.  What a switch does to wrapper and record is Conversation's.    *)
(***************************************************************************)
EXTENDS Naturals, Sequences, SequencesExt, FiniteSets

CONSTANTS
  Pickers,       \* handlers: of /model, of a menu, or of a call
  MenuAgents,
  Scopes,        \* session keys
  MaxTickets,    \* bound: tickets made
  MaxRestarts    \* bound: ends of the program

ASSUME InteractionAssumption == MaxTickets \in Nat /\ MaxRestarts \in Nat

NoTicket == 0
Idle == [step |-> "idle", ticket |-> NoTicket, agent |-> "none", scope |-> "none"]

VARIABLES
  tickets,    \* all tickets made, by request_id: whose they are, for which session
  waiting,    \* _pending
  menus,      \* menus on a screen with a view that listens
  picker,     \* what each handler does
  switches,   \* the switches made with a ticket: it, the agent and the session
  restarts

interactionVars == <<tickets, waiting, menus, picker, switches, restarts>>

InteractionInit ==
  /\ tickets = <<>> /\ waiting = {} /\ menus = {}
  /\ picker = [h \in Pickers |-> Idle]
  /\ switches = <<>>
  /\ restarts = 0

Becomes(h, step, t, a, s) ==
  picker' = [picker EXCEPT ![h] = [step |-> step, ticket |-> t, agent |-> a, scope |-> s]]

Finishes(h) == picker' = [picker EXCEPT ![h] = Idle]

-----------------------------------------------------------------------------
\* /model: the options are asked of a wrapper, which may have to start.
AskModel(h, a, s) ==
  /\ picker[h].step = "idle" /\ Len(tickets) < MaxTickets
  /\ Becomes(h, "asking", NoTicket, a, s)
  /\ UNCHANGED <<tickets, waiting, menus, switches, restarts>>

\* Nothing catches a failure: Discord tells the user that the command failed.
AskFails(h) ==
  /\ picker[h].step = "asking"
  /\ Finishes(h)
  /\ UNCHANGED <<tickets, waiting, menus, switches, restarts>>

\* create, then the menu is sent.  The command was not deferred: when the
\* options took too long Discord does not take it, and the ticket waits for
\* nobody.
ShowMenu(h, taken) ==
  LET t == Len(tickets) + 1 IN
  /\ picker[h].step = "asking" /\ t <= MaxTickets
  /\ tickets' = Append(tickets, [agent |-> picker[h].agent, scope |-> picker[h].scope])
  /\ waiting' = waiting \cup {t}
  /\ menus' = IF taken THEN menus \cup {t} ELSE menus
  /\ Finishes(h)
  /\ UNCHANGED <<switches, restarts>>

\* A minute after the last pick: the ticket stays.
MenuExpires(t) ==
  /\ t \in menus
  /\ menus' = menus \ {t}
  /\ UNCHANGED <<tickets, waiting, picker, switches, restarts>>

-----------------------------------------------------------------------------
\* A mutant: the ticket is looked at and stays.
ConsumeLooks(t, a, c, s) ==
  [left |-> waiting,
   good |-> t \in waiting /\ tickets[t].agent = a /\ c = "/model" /\ tickets[t].scope = s]

\* consume: the ticket is taken first and compared then.
Consume(t, a, c, s) ==
  [left |-> waiting \ {t},
   good |-> t \in waiting /\ tickets[t].agent = a /\ c = "/model" /\ tickets[t].scope = s]

\* _validate_interaction_payload up to the first await.  `claimed` is the
\* session the payload names, or "none".
Answering(h, t, a, c, s, claimed) ==
  LET consumed == Consume(t, a, c, s) IN
  /\ picker[h].step = "idle"
  /\ IF claimed \notin {"none", s}
       THEN UNCHANGED <<waiting, picker>>
     ELSE IF t = NoTicket
       THEN Becomes(h, "switching", t, a, s) /\ UNCHANGED waiting
     ELSE /\ waiting' = consumed.left
          /\ IF consumed.good THEN Becomes(h, "switching", t, a, s) ELSE UNCHANGED picker
  /\ UNCHANGED <<tickets, menus, switches, restarts>>

\* ModelSelect.callback: agent and session are the menu's own.
PickModel(h, t) ==
  /\ t \in menus
  /\ Answering(h, t, tickets[t].agent, "/model", tickets[t].scope, tickets[t].scope)

\* Another caller, with any ticket or with a model and no ticket; a payload
\* whose command is another one is refused like one of another session.
CallModel(h, t, a, s, claimed) ==
  /\ t \in {NoTicket} \cup DOMAIN tickets
  /\ Answering(h, t, a, "/model", s, claimed)

\* Another command with a ticket: it does not switch the model.
CallOther(h, t, a, s) ==
  /\ t \in DOMAIN tickets
  /\ Answering(h, t, a, "/stats", s, "none")

\* ensure_wrapper, the turn's lock, the provider's /model.
SwitchDone(h) ==
  /\ picker[h].step = "switching"
  /\ switches' = IF picker[h].ticket = NoTicket THEN switches
                 ELSE Append(switches, [picker[h] EXCEPT !.step = "done"])
  /\ Finishes(h)
  /\ UNCHANGED <<tickets, waiting, menus, restarts>>

\* The wrapper does not start, the provider refuses: the ticket is used.
SwitchFails(h) ==
  /\ picker[h].step = "switching"
  /\ Finishes(h)
  /\ UNCHANGED <<tickets, waiting, menus, switches, restarts>>

\* The clients are closed, and shutdown clears the store.
EndProgram ==
  /\ restarts < MaxRestarts
  /\ restarts' = restarts + 1
  /\ waiting' = {} /\ menus' = {} /\ picker' = [h \in Pickers |-> Idle]
  /\ UNCHANGED <<tickets, switches>>

InteractionNext ==
  \/ \E h \in Pickers :
       \/ AskFails(h) \/ SwitchDone(h) \/ SwitchFails(h)
       \/ \E taken \in BOOLEAN : ShowMenu(h, taken)
       \/ \E t \in 1..MaxTickets : PickModel(h, t)
       \/ \E a \in MenuAgents, s \in Scopes :
            \/ AskModel(h, a, s)
            \/ \E t \in 0..MaxTickets :
                 \/ CallOther(h, t, a, s)
                 \/ \E claimed \in Scopes \cup {"none"} : CallModel(h, t, a, s, claimed)
  \/ \E t \in 1..MaxTickets : MenuExpires(t)
  \/ EndProgram

InteractionSpec == InteractionInit /\ [][InteractionNext]_interactionVars

-----------------------------------------------------------------------------
InteractionTypeOK ==
  /\ tickets \in Seq([agent : MenuAgents, scope : Scopes])
  /\ menus \subseteq DOMAIN tickets /\ waiting \subseteq DOMAIN tickets
  /\ \A h \in Pickers : picker[h].step \in {"idle", "asking", "switching"}

UsesOf(t) == {i \in DOMAIN switches : switches[i].ticket = t}

\* docs/plans.md:914: "request_id와 session_key가 일치하는 경우에만 적용" (applied
\* only when request and session match).  However picks and calls overlap a
\* ticket makes one switch at most, for the agent and the session it was made
\* for.
TicketOnce ==
  \A t \in DOMAIN tickets :
    /\ Cardinality(UsesOf(t)) <= 1
    /\ \A i \in UsesOf(t) :
         switches[i].agent = tickets[t].agent /\ switches[i].scope = tickets[t].scope
=============================================================================
