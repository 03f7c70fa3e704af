-------------------------------- MODULE Cards --------------------------------
(***************************************************************************)
(* M09, the RecommendationPublisher: recommendations/service.py and        *)
(* repository.py.  A card is built for an event, and commanders approve or *)
(* reject it; an approval is recorded, changes the card and, where the     *)
(* gate was open, is handed to M10 and M11 under a token.                  *)
(*                                                                         *)
(* M07's recommendation, M10's queue and M11's pushes appear by what M09   *)
(* sees of them.  The state and the requests are shared with module        *)
(* Response, which adds the citizens' reports and the officers' closures.  *)
(***************************************************************************)
EXTENDS Naturals, FiniteSets

CONSTANTS
  Events,      \* event ids
  Clients,     \* concurrent requests of any kind
  MaxCards,    \* bound: cards built
  MaxCalls,    \* bound: requests
  MaxSeconds,  \* bound: the clock, in seconds
  MaxToggles,  \* bound: changes of the governance state
  MaxFaults    \* bound: operations that raise

NoEvent == "none"

ASSUME CardsAssumption ==
  /\ NoEvent \notin Events
  /\ MaxCards \in Nat /\ MaxCalls \in Nat /\ MaxSeconds \in Nat
  /\ MaxToggles \in Nat /\ MaxFaults \in Nat

VARIABLES
  ev,         \* normalized_events: status and authenticated
  cards,      \* action_cards
  approvals,  \* approval_records
  done,       \* rows of execution_queue and of vms_deliveries, by token
  gov,        \* get_governance()
  now,        \* the clock
  req,        \* the requests under way
  calls,      \* requests so far
  toggles,    \* changes of the governance state so far
  faults,     \* operations that raised so far
  overlap     \* history: events that two requests worked on at once

cardVars == <<cards, approvals, done>>
countVars == <<calls, toggles, faults>>

CardIds == 1..MaxCards
NoCard == 0
Token == CardIds \X (0..MaxSeconds)

EventRow == [status : {"absent", "active", "closed"}, auth : BOOLEAN]
GovernanceState == [tier3 : BOOLEAN, shadow : BOOLEAN]

(* ActionCardRow: the column status, the status inside card_json, and the    *)
(* events of dispatch.assignments.                                           *)
CardStatus == {"partial", "complete", "approved", "rejected"}
ActionCardRow ==
  [event : Events, column : CardStatus, json : CardStatus, dispatch : SUBSET Events,
   created : 0..MaxSeconds]
NoRow == [event |-> NoEvent, column |-> "partial", json |-> "partial", dispatch |-> {},
          created |-> 0]

ApprovalRecordRow ==
  [call : 1..MaxCalls, card : CardIds, action : {"approved", "rejected"},
   enqueued : BOOLEAN, token : Token]

Idle == [pc |-> "idle", call |-> 0, event |-> NoEvent, card |-> NoCard, mode |-> "complete",
         auth |-> FALSE, dispatch |-> {}, action |-> "approved", exec |-> FALSE,
         second |-> 0, seen |-> "none", system |-> "m10"]

Exists(k) == cards[k].event # NoEvent
Made == {k \in CardIds : Exists(k)}

(* approve: what may be executed *)
Gate(g) == ~g.shadow /\ ~g.tier3

(* enqueue_dispatch asks for both again, push for the shadow mode only. *)
Admits(system) == IF system = "m10" THEN Gate(gov) ELSE ~gov.shadow

------------------------------------------------------------------------------
(* Requests. *)

Goto(c, pc) == req' = [req EXCEPT ![c].pc = pc]
End(c) == req' = [req EXCEPT ![c] = Idle]
Busy(e) == \E c \in Clients : req[c].event = e

(* A request about e starts at pc with some of its locals. *)
Begin(c, e, locals) ==
  /\ req[c].pc = "idle" /\ calls < MaxCalls
  /\ calls' = calls + 1
  /\ overlap' = IF Busy(e) THEN overlap \cup {e} ELSE overlap
  /\ req' = [req EXCEPT ![c] = [locals EXCEPT !.call = calls', !.event = e]]

(* A database call or a publish raises and ends the request. *)
Raise(c) ==
  /\ faults < MaxFaults /\ faults' = faults + 1
  /\ End(c)

------------------------------------------------------------------------------
(* build_card *)

(* get_card_by_event: the last one, or any of those of the last second. *)
Latest(e) ==
  {k \in Made : cards[k].event = e
                /\ \A l \in Made : cards[l].event = e => cards[l].created <= cards[k].created}

(* The cached card is returned, which changes nothing. *)
Reused(k, mode) ==
  \/ cards[k].json = "complete"
  \/ cards[k].json = "partial" /\ mode = "skeleton"

(* The event and the governance state are read.  In tier 3 the answer is the *)
(* SOP card, which is not saved.                                             *)
Build(c, e, mode, refresh) ==
  /\ ev[e].status # "absent" /\ ~gov.tier3
  /\ refresh \/ Latest(e) = {} \/ \E k \in Latest(e) : ~Reused(k, mode)
  /\ Begin(c, e, [Idle EXCEPT !.pc = "recommend", !.mode = mode, !.auth = ev[e].auth])
  /\ UNCHANGED <<ev, cardVars, gov, now, toggles, faults>>

(* Mutant: the hold is gone. *)
RecommendAnyEvent(c) ==
  /\ req[c].pc = "recommend"
  /\ req' = [req EXCEPT ![c].pc = "card",
       ![c].dispatch = IF req[c].mode = "skeleton" THEN {}
                       ELSE {req[c].event} \cup {e \in Events : ev[e].status = "active"}]
  /\ UNCHANGED <<ev, cardVars, gov, now, countVars, overlap>>

(* M07 is asked unless the mode is skeleton or the event not authenticated;  *)
(* it assigns units to the event and to every other active one.              *)
Recommend(c) ==
  /\ req[c].pc = "recommend"
  /\ req' = [req EXCEPT ![c].pc = "card",
       ![c].dispatch = IF req[c].mode = "skeleton" \/ ~req[c].auth THEN {}
                       ELSE {req[c].event} \cup {e \in Events : ev[e].status = "active"}]
  /\ UNCHANGED <<ev, cardVars, gov, now, countVars, overlap>>

(* save_card: complete if it has a dispatch section, else partial. *)
SaveCard(c) ==
  LET status == IF req[c].dispatch = {} THEN "partial" ELSE "complete"
  IN /\ req[c].pc = "card"
     /\ \E k \in CardIds :
          /\ k = Cardinality(Made) + 1
          /\ cards' = [cards EXCEPT ![k] =
               [event |-> req[c].event, column |-> status, json |-> status,
                dispatch |-> req[c].dispatch, created |-> now]]
     /\ End(c)
     /\ UNCHANGED <<ev, approvals, done, gov, now, countVars, overlap>>

------------------------------------------------------------------------------
(* approve and reject *)

(* get_card, whose status is not looked at; the gate and the second of the   *)
(* token are read at once.                                                   *)
Approve(c, k) ==
  /\ Exists(k)
  /\ Begin(c, cards[k].event, [Idle EXCEPT !.pc = "record", !.card = k,
                                           !.exec = Gate(gov), !.second = now])
  /\ UNCHANGED <<ev, cardVars, gov, now, toggles, faults>>

Reject(c, k) ==
  /\ Exists(k)
  /\ Begin(c, cards[k].event, [Idle EXCEPT !.pc = "record", !.card = k,
                                           !.action = "rejected", !.second = now])
  /\ UNCHANGED <<ev, cardVars, gov, now, toggles, faults>>

TokenOf(c) == <<req[c].card, req[c].second>>

(* Mutant: an approval is handed over before it is recorded. *)
RecordAfterwards(c) ==
  /\ req[c].pc = "record"
  /\ req' = [req EXCEPT ![c].pc = IF req[c].exec THEN "look" ELSE "load"]
  /\ UNCHANGED <<ev, cardVars, gov, now, countVars, overlap>>

(* save_approval *)
RecordApproval(c) ==
  /\ req[c].pc = "record"
  /\ approvals' = approvals \cup
       {[call |-> req[c].call, card |-> req[c].card, action |-> req[c].action,
         enqueued |-> req[c].exec, token |-> TokenOf(c)]}
  /\ Goto(c, "load")
  /\ UNCHANGED <<ev, cards, done, gov, now, countVars, overlap>>

(* update_status: session.get *)
LoadCard(c) ==
  /\ req[c].pc = "load"
  /\ req' = [req EXCEPT ![c].pc = "update", ![c].seen = cards[req[c].card].column]
  /\ UNCHANGED <<ev, cardVars, gov, now, countVars, overlap>>

(* Mutant: only the json is updated. *)
UpdateJson(c) ==
  /\ req[c].pc = "update"
  /\ cards' = [cards EXCEPT ![req[c].card].json = req[c].action]
  /\ Goto(c, "publish")
  /\ UNCHANGED <<ev, approvals, done, gov, now, countVars, overlap>>

(* Mutant: the row gets the verb. *)
UpdateVerb(c) ==
  LET a == req[c].action
  IN /\ req[c].pc = "update"
     /\ cards' = [cards EXCEPT ![req[c].card] =
          [@ EXCEPT !.json = a, !.column = IF a = "approved" THEN "approve" ELSE "reject"]]
     /\ Goto(c, "publish")
     /\ UNCHANGED <<ev, approvals, done, gov, now, countVars, overlap>>

(* update_status: the commit.  card_json is always written, the column only  *)
(* where it differs from what was loaded.                                    *)
UpdateCard(c) ==
  LET a == req[c].action
  IN /\ req[c].pc = "update"
     /\ cards' = [cards EXCEPT ![req[c].card].json = a,
                               ![req[c].card].column = IF req[c].seen = a THEN @ ELSE a]
     /\ Goto(c, "publish")
     /\ UNCHANGED <<ev, approvals, done, gov, now, countVars, overlap>>

(* _publish_card_delta; only an approval with the gate open goes on. *)
PublishDecision(c) ==
  /\ req[c].pc = "publish"
  /\ IF req[c].exec THEN Goto(c, "look") ELSE End(c)
  /\ UNCHANGED <<ev, cardVars, gov, now, countVars, overlap>>

(* After M10 comes M11, if the card has diversions, and then the answer. *)
NextSystem(c) ==
  \/ req[c].system = "m10" /\ req' = [req EXCEPT ![c].system = "m11", ![c].pc = "look"]
  \/ End(c)

(* Mutant: a card is executed once, whatever the token. *)
LookForCard(c) ==
  /\ req[c].pc = "look"
  /\ IF Admits(req[c].system)
        /\ \A d \in done : d.system = req[c].system => d.token[1] # req[c].card
     THEN Goto(c, "insert")
     ELSE NextSystem(c)
  /\ UNCHANGED <<ev, cardVars, gov, now, countVars, overlap>>

(* The gate is asked for again, and for rows of the token; a refusal is      *)
(* caught, and so is a row that answers the call.                            *)
Look(c) ==
  /\ req[c].pc = "look"
  /\ IF Admits(req[c].system)
        /\ \A d \in done : d.system = req[c].system => d.token # TokenOf(c)
     THEN Goto(c, "insert")
     ELSE NextSystem(c)
  /\ UNCHANGED <<ev, cardVars, gov, now, countVars, overlap>>

Insert(c) ==
  /\ req[c].pc = "insert"
  /\ done' = done \cup {[system |-> req[c].system, token |-> TokenOf(c), call |-> req[c].call]}
  /\ NextSystem(c)
  /\ UNCHANGED <<ev, cards, approvals, gov, now, countVars, overlap>>

(* What M10 or M11 raises is caught, anything else ends the request. *)
CardFault(c) ==
  /\ \/ /\ req[c].pc \in {"recommend", "card", "record", "load", "update", "publish"}
        /\ Raise(c)
     \/ /\ req[c].pc \in {"look", "insert"}
        /\ faults < MaxFaults /\ faults' = faults + 1
        /\ NextSystem(c)
  /\ UNCHANGED <<ev, cardVars, gov, now, calls, toggles, overlap>>

------------------------------------------------------------------------------
CardsInit ==
  /\ cards = [k \in CardIds |-> NoRow]
  /\ approvals = {} /\ done = {}
  /\ gov \in GovernanceState
  /\ now = 0
  /\ req = [c \in Clients |-> Idle]
  /\ calls = 0 /\ toggles = 0 /\ faults = 0
  /\ overlap = {}

(* M14 changes the tier or the shadow mode. *)
Toggle ==
  /\ toggles < MaxToggles /\ toggles' = toggles + 1
  /\ gov' \in GovernanceState \ {gov}
  /\ UNCHANGED <<ev, cardVars, now, req, calls, faults, overlap>>

Tick ==
  /\ now < MaxSeconds /\ now' = now + 1
  /\ UNCHANGED <<ev, cardVars, gov, req, countVars, overlap>>

CardStep(c) ==
  \/ Recommend(c) \/ SaveCard(c)
  \/ RecordApproval(c) \/ LoadCard(c) \/ UpdateCard(c) \/ PublishDecision(c)
  \/ Look(c) \/ Insert(c)

CardsNext ==
  \/ \E c \in Clients : CardStep(c) \/ CardFault(c)
  \/ \E c \in Clients, e \in Events, m \in {"skeleton", "complete"}, r \in BOOLEAN :
       Build(c, e, m, r)
  \/ \E c \in Clients, k \in CardIds : Approve(c, k) \/ Reject(c, k)
  \/ Toggle \/ Tick

------------------------------------------------------------------------------
(* Every row of M10 or M11 comes from an approval on record of its own call, *)
(* given while the gate was open; and where requests about the card's event  *)
(* do not overlap, a token has one row in either.  (The token is looked for  *)
(* before a row is inserted, and it has the second of the approval: this     *)
(* says nothing of a card that is approved again in another second.)         *)
ExecutionFollowsApproval ==
  \A d \in done :
    /\ \E a \in approvals : a.call = d.call /\ a.token = d.token
                            /\ a.action = "approved" /\ a.enqueued
    /\ cards[d.token[1]].event \notin overlap =>
         \A x \in done : x.system = d.system /\ x.token = d.token => x = d

(* execution/service.py:5: "Idempotency: keyed by approval_token -           *)
(* double-approve -> single execution".  A card that is approved in two      *)
(* seconds has two tokens.                                                   *)
CardExecutesOnce ==
  \A d, x \in done :
    d.system = "m10" /\ x.system = "m10" /\ d.token[1] = x.token[1] => d = x

(* An approval that says execution_enqueued has been handed to M10, or the   *)
(* request that gave it still works on it.  The property is about runs where *)
(* nothing raised and the gate did not change: a publish that raises, a      *)
(* refusal of M10 and one that M10 raises all leave the record as it is.     *)
EnqueuedIsExecuted ==
  faults = 0 /\ toggles = 0 =>
    \A a \in approvals :
      a.enqueued =>
        \/ \E d \in done : d.system = "m10" /\ d.token = a.token
        \/ \E c \in Clients : req[c].call = a.call

(* Where decisions on an event do not overlap and nothing raised, a card has *)
(* the status of the last decision on record, in its column and in its json. *)
(* (Decisions that overlap may leave one status in the column and another in *)
(* the json.)                                                                *)
DecisionStands ==
  faults = 0 =>
    \A a \in approvals :
      LET k == a.card
      IN cards[k].event \notin overlap /\ ~Busy(cards[k].event)
           /\ (\A b \in approvals : b.card = k => b.call <= a.call)
         => cards[k].column = a.action /\ cards[k].json = a.action
==============================================================================
