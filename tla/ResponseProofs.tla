---------------------------- MODULE ResponseProofs ----------------------------
(***************************************************************************)
(* Proofs about Response, for every number of events, requests, cards and  *)
(* faults: what is executed was approved, the last decision stands, a      *)
(* verified report has an authenticated event, and an event is closed      *)
(* once.                                                                   *)
(***************************************************************************)
EXTENDS Response, FiniteSetTheorems, TLAPS

------------------------------------------------------------------------------
(* The requests. *)

(* Places where a request has left no approval, and where it has. *)
BuildPcs == {"recommend", "card"}
ReportPcs == {"submit", "quoted", "unquoted", "reingest", "authenticate", "verified", "refuse"}
ClosePcs == {"event", "close", "closure"}
Recorded == {"load", "update", "publish", "look", "insert"}
Undecided == BuildPcs \cup ReportPcs \cup ClosePcs \cup {"record"}

ReportStatus == {"none", "pending", "verified", "rejected"}

RequestRow ==
  [pc : {"idle"} \cup Undecided \cup Recorded,
   call : 0..MaxCalls, event : Events \cup {NoEvent}, card : {NoCard} \cup CardIds,
   mode : {"skeleton", "complete"}, auth : BOOLEAN, dispatch : SUBSET Events,
   action : {"approved", "rejected"}, exec : BOOLEAN, second : 0..MaxSeconds,
   seen : CardStatus \cup ReportStatus, system : {"m10", "m11"}]

(* What save_approval writes for a request. *)
RecordOf(c) ==
  [call |-> req[c].call, card |-> req[c].card, action |-> req[c].action,
   enqueued |-> req[c].exec, token |-> TokenOf(c)]

------------------------------------------------------------------------------
(* The invariant that the others rest on: types, requests, numbers of cards. *)

CardsType == cards \in [CardIds -> ActionCardRow \cup {NoRow}]

(* Cards are numbered in the order they were saved, so a new one replaces     *)
(* none.                                                                      *)
CardNumbers == \E n \in Nat : Made = 1..n

RequestInv ==
  /\ req \in [Clients -> RequestRow]
  /\ \A c \in Clients :
       LET r == req[c]
       IN /\ r.pc = "idle" => r = Idle
          /\ r.pc # "idle" => r.call \in 1..calls /\ r.event \in Events
          /\ r.pc \in ReportPcs => r.event \in Reports
          /\ r.pc \in {"record"} \cup Recorded =>
               r.card \in Made /\ cards[r.card].event = r.event
          /\ r.exec => r.action = "approved"
          /\ r.pc \in {"look", "insert"} => r.exec
  /\ \A c, d \in Clients :
       req[c].pc # "idle" /\ req[c].call = req[d].call => c = d

(* Two requests about an event make it overlap. *)
OverlapInv ==
  \A c, d \in Clients :
    c # d /\ req[c].event = req[d].event /\ req[c].event # NoEvent => req[c].event \in overlap

BaseInv == TypeOK /\ CardsType /\ CardNumbers /\ RequestInv /\ OverlapInv

(* Approvals: one for a request at most, and none before it is recorded. *)
ApprovalInv ==
  /\ \A a \in approvals :
       /\ a.call \in 1..calls /\ a.card \in Made
       /\ a.enqueued => a.action = "approved"
  /\ \A a, b \in approvals : a.call = b.call => a = b
  /\ \A c \in Clients :
       /\ req[c].pc \in Undecided => \A a \in approvals : a.call # req[c].call
       /\ req[c].pc \in Recorded => RecordOf(c) \in approvals
  /\ \A d \in done : \E a \in approvals : a.call = d.call /\ a.token = d.token /\ a.enqueued

(* Where an event does not overlap, a token has one row of a system at most,  *)
(* and a request that is about to insert one has found none.                  *)
OnceInv ==
  /\ \A d \in done : d.token[1] \in Made
  /\ \A d, x \in done :
       cards[d.token[1]].event \notin overlap /\ x.system = d.system /\ x.token = d.token => x = d
  /\ \A c \in Clients :
       req[c].pc = "insert" /\ req[c].event \notin overlap =>
         \A d \in done : d.system = req[c].system => d.token # TokenOf(c)

(* While nothing raised and the gate stayed as it was, a request that goes on *)
(* to M11 has been through M10.                                               *)
HandedInv ==
  faults = 0 /\ toggles = 0 =>
    \A c \in Clients :
      /\ req[c].exec => Gate(gov)
      /\ req[c].system = "m11" => \E d \in done : d.system = "m10" /\ d.token = TokenOf(c)

ExecutionInv == ApprovalInv /\ OnceInv /\ HandedInv /\ EnqueuedIsExecuted

(* Where an event does not overlap, the request on it is the latest, and has  *)
(* loaded the column as it is; a card that is not what the last decision      *)
(* says is about to be updated by that decision.                              *)
DecisionInv ==
  /\ \A c \in Clients :
       req[c].pc # "idle" /\ req[c].event \notin overlap =>
         /\ \A a \in approvals : cards[a.card].event = req[c].event => a.call <= req[c].call
         /\ req[c].pc = "update" => req[c].seen = cards[req[c].card].column
  /\ faults = 0 =>
       \A a \in approvals :
         cards[a.card].event \notin overlap
           /\ (\A b \in approvals : b.card = a.card => b.call <= a.call)
         => \/ cards[a.card].column = a.action /\ cards[a.card].json = a.action
            \/ \E c \in Clients : req[c].call = a.call /\ req[c].pc \in {"load", "update"}

(* Whatever came after an ingest that stored the event finds it there. *)
PresentInv ==
  /\ \A c \in Clients :
       req[c].pc \in BuildPcs \cup ClosePcs \cup {"quoted", "authenticate", "verified"} =>
         ev[req[c].event].status # "absent"
  /\ \A c \in Clients : req[c].pc = "refuse" => report[req[c].event].status # "none"
  /\ \A k \in Made : ev[cards[k].event].status # "absent"
  /\ \A r \in Reports :
       /\ report[r].event # NoEvent => ev[r].status # "absent"
       /\ report[r].status = "verified" => report[r].event # NoEvent
  /\ \A e \in Events : closures[e] > 0 => ev[e].status # "absent"

(* What an event, its report, its cards and the request on it say of one      *)
(* another while requests on it do not overlap and nothing raised.            *)
RequestAgrees(c) ==
  LET r == req[c]
      e == r.event
  IN /\ r.pc \in {"submit", "unquoted", "reingest"} => ev[e].status = "absent"
     /\ r.pc = "submit" => report[e].status = "none"
     /\ r.pc = "verified" => ev[e].auth
     /\ r.pc = "recommend" /\ r.auth => ev[e].auth
     /\ r.pc = "card" /\ r.dispatch # {} => ev[e].auth
     /\ r.pc = "close" => r.auth = ev[e].auth
     /\ r.pc \in ClosePcs => closures[e] = 0
     /\ r.pc = "closure" => ev[e].status = "closed"

ReportAgrees(e) ==
  /\ report[e].status = "verified" => ev[e].auth
  /\ report[e].status # "none" /\ report[e].event = NoEvent =>
       \/ ev[e].status = "absent"
       \/ \E c \in Clients : req[c].event = e /\ req[c].pc \in {"authenticate", "verified"}

EventAgrees(e) ==
  /\ \A c \in Clients : req[c].event = e => RequestAgrees(c)
  /\ e \in Reports => ReportAgrees(e)
  /\ \A k \in Made : cards[k].event = e /\ cards[k].dispatch # {} => ev[e].auth
  /\ closures[e] <= 1 /\ (closures[e] = 1 => ev[e].status = "closed")

AgreeInv == faults = 0 => \A e \in Events \ overlap : EventAgrees(e)

------------------------------------------------------------------------------
(* Steps of one request. *)

OnlyMoves(c) ==
  /\ req' \in [Clients -> RequestRow]
  /\ \A d \in Clients \ {c} : req'[d] = req[d]

(* It starts, about e, with the next call. *)
Begins(c, e) ==
  /\ OnlyMoves(c) /\ req[c].pc = "idle"
  /\ calls' = calls + 1 /\ calls' \in 1..MaxCalls
  /\ req'[c].call = calls' /\ req'[c].event = e
  /\ overlap' = IF Busy(e) THEN overlap \cup {e} ELSE overlap
  /\ UNCHANGED <<toggles, faults>>

(* It goes on, with the same call, event and decision. *)
Continues(c, pc) ==
  /\ OnlyMoves(c) /\ req[c].pc # "idle"
  /\ req'[c].pc = pc
  /\ req'[c].call = req[c].call /\ req'[c].event = req[c].event
  /\ req'[c].card = req[c].card /\ req'[c].action = req[c].action
  /\ req'[c].exec = req[c].exec /\ req'[c].second = req[c].second
  /\ UNCHANGED <<calls, toggles, overlap>>

(* Only its place changes. *)
GoesTo(c, pc) ==
  /\ Continues(c, pc)
  /\ req'[c].auth = req[c].auth /\ req'[c].dispatch = req[c].dispatch
  /\ req'[c].seen = req[c].seen /\ req'[c].system = req[c].system

(* It is over. *)
Ends(c) ==
  /\ OnlyMoves(c) /\ req[c].pc # "idle"
  /\ req'[c] = Idle
  /\ UNCHANGED <<calls, toggles, overlap>>

(* It is over with a fault. *)
Raises(c) == Ends(c) /\ faults' = faults + 1 /\ faults' \in 0..MaxFaults

(* A request under way is of its type, and an idle one is Idle. *)
LEMMA IdleRow ==
  /\ Idle \in RequestRow /\ Idle.pc = "idle" /\ Idle.call = 0 /\ Idle.event = NoEvent
  /\ Idle.system = "m10" /\ Idle.exec = FALSE /\ Idle.action = "approved"
  /\ NoEvent \notin Events /\ Reports \subseteq Events
  /\ NoRow \notin ActionCardRow /\ NoRow.event = NoEvent
<1>1. Idle \in RequestRow
  BY CardsAssumption DEF Idle, RequestRow, CardStatus, ReportStatus, NoCard
<1>2. NoRow \notin ActionCardRow
  BY CardsAssumption DEF NoRow, ActionCardRow
<1>3. QED
  BY <1>1, <1>2, CardsAssumption, ResponseAssumption DEF Idle, NoRow

LEMMA BeginEffect ==
  ASSUME BaseInv, NEW c \in Clients, NEW e \in Events, NEW l \in RequestRow,
         Begin(c, e, l), UNCHANGED <<toggles, faults>>
  PROVE  /\ Begins(c, e)
         /\ req'[c].pc = l.pc /\ req'[c].card = l.card /\ req'[c].auth = l.auth
         /\ req'[c].action = l.action /\ req'[c].exec = l.exec /\ req'[c].seen = l.seen
         /\ req'[c].system = l.system
<1>1. /\ req[c].pc = "idle" /\ calls < MaxCalls /\ calls' = calls + 1
      /\ overlap' = IF Busy(e) THEN overlap \cup {e} ELSE overlap
      /\ req' = [req EXCEPT ![c] = [l EXCEPT !.call = calls', !.event = e]]
  BY DEF Begin
<1>2. calls' \in 0..MaxCalls /\ calls' \in 1..MaxCalls
  BY <1>1, CardsAssumption DEF BaseInv, TypeOK
<1>3. req \in [Clients -> RequestRow]
  BY DEF BaseInv, RequestInv
<1> DEFINE r == [l EXCEPT !.call = calls', !.event = e]
<1>4. /\ r \in RequestRow /\ r.call = calls' /\ r.event = e
      /\ r.pc = l.pc /\ r.card = l.card /\ r.auth = l.auth
      /\ r.action = l.action /\ r.exec = l.exec /\ r.seen = l.seen /\ r.system = l.system
  BY <1>2 DEF RequestRow
<1>5. req' = [req EXCEPT ![c] = r]
  BY <1>1
<1> HIDE DEF r
<1>6. OnlyMoves(c) /\ req'[c] = r
  BY <1>3, <1>4, <1>5 DEF OnlyMoves
<1>7. QED
  BY <1>1, <1>2, <1>4, <1>6 DEF Begins

LEMMA GotoEffect ==
  ASSUME BaseInv, NEW c \in Clients, NEW pc \in Undecided \cup Recorded, Goto(c, pc),
         req[c].pc # "idle", UNCHANGED <<calls, toggles, overlap>>
  PROVE  GoesTo(c, pc)
<1>1. req' = [req EXCEPT ![c].pc = pc]
  BY DEF Goto
<1>2. req \in [Clients -> RequestRow]
  BY DEF BaseInv, RequestInv
<1>3. OnlyMoves(c)
  BY <1>1, <1>2 DEF OnlyMoves, RequestRow
<1>4. req'[c] = [req[c] EXCEPT !.pc = pc] /\ req[c] \in RequestRow
  BY <1>1, <1>2
<1>5. QED
  BY <1>3, <1>4 DEF GoesTo, Continues, RequestRow

LEMMA EndEffect ==
  ASSUME BaseInv, NEW c \in Clients, End(c), req[c].pc # "idle",
         UNCHANGED <<calls, toggles, overlap>>
  PROVE  Ends(c)
<1>1. req' = [req EXCEPT ![c] = Idle]
  BY DEF End
<1>2. req \in [Clients -> RequestRow]
  BY DEF BaseInv, RequestInv
<1>3. OnlyMoves(c) /\ req'[c] = Idle
  BY <1>1, <1>2, IdleRow DEF OnlyMoves
<1>4. QED
  BY <1>3 DEF Ends

LEMMA RaiseEffect ==
  ASSUME BaseInv, NEW c \in Clients, Raise(c), req[c].pc # "idle",
         UNCHANGED <<calls, toggles, overlap>>
  PROVE  Raises(c)
<1>1. Ends(c)
  BY EndEffect DEF Raise
<1>2. faults' = faults + 1 /\ faults' \in 0..MaxFaults
  BY CardsAssumption DEF Raise, BaseInv, TypeOK
<1>3. QED
  BY <1>1, <1>2 DEF Raises

------------------------------------------------------------------------------
(* Requests that start. *)

BeginStep(c) ==
  \/ /\ \/ \E e \in Events, m \in {"skeleton", "complete"}, r \in BOOLEAN : Build(c, e, m, r)
        \/ \E k \in CardIds : Approve(c, k) \/ Reject(c, k)
     /\ UNCHANGED responseVars
  \/ \E r \in Reports : Submit(c, r) \/ Verify(c, r) \/ RejectReport(c, r)
  \/ \E e \in Events : Close(c, e)

(* What they find, by the place where they start. *)
Started(c, e) ==
  LET r == req'[c]
  IN /\ Begins(c, e) /\ r.system = "m10"
     /\ \/ r.pc = "recommend" /\ r.auth = ev[e].auth /\ ev[e].status # "absent" /\ ~r.exec
        \/ /\ r.pc = "record" /\ r.card \in Made /\ cards[r.card].event = e
           /\ r.exec => r.action = "approved" /\ Gate(gov)
        \/ r.pc = "submit" /\ e \in Reports /\ ev[e].status = "absent" /\ ~r.exec
        \/ /\ r.pc = "reingest" /\ e \in Reports /\ ~r.exec
           /\ report[e].event = NoEvent /\ report[e].status # "none"
        \/ r.pc = "authenticate" /\ e \in Reports /\ report[e].event # NoEvent /\ ~r.exec
        \/ r.pc = "refuse" /\ e \in Reports /\ report[e].status # "none" /\ ~r.exec
        \/ r.pc = "event" /\ ev[e].status # "absent" /\ closures[e] = 0 /\ ~r.exec
     /\ r.pc = "submit" => report[e].status = "none"
     /\ UNCHANGED <<ev, cards, approvals, done, gov, now, report, closures>>

(* What Made and the types say of a card, an event and a report. *)
LEMMA RowFacts ==
  ASSUME BaseInv
  PROVE  /\ \A k \in Made : k \in CardIds /\ cards[k] \in ActionCardRow /\ cards[k].event \in Events
         /\ \A k \in CardIds : Exists(k) => k \in Made
         /\ \A e \in Events : ev[e] \in EventRow
         /\ \A r \in Reports : report[r] \in CitizenReportRow
<1>1. \A k \in CardIds : cards[k] \in ActionCardRow \cup {NoRow}
  BY DEF BaseInv, CardsType
<1>2. \A k \in Made : k \in CardIds /\ cards[k] \in ActionCardRow
  BY <1>1, IdleRow DEF Made, Exists
<1>3. \A k \in Made : cards[k].event \in Events
  BY <1>2 DEF ActionCardRow
<1>4. QED
  BY <1>2, <1>3 DEF Made, BaseInv, TypeOK

(* A request begins with locals that are of their type. *)
LEMMA BeginKind ==
  ASSUME BaseInv, NEW c \in Clients, BeginStep(c)
  PROVE  \E e \in Events : Started(c, e)
<1> USE RowFacts, IdleRow
<1>1. ASSUME NEW e \in Events, NEW m \in {"skeleton", "complete"}, NEW r \in BOOLEAN,
             Build(c, e, m, r), UNCHANGED responseVars
      PROVE  Started(c, e)
  <2> DEFINE l == [Idle EXCEPT !.pc = "recommend", !.mode = m, !.auth = ev[e].auth]
  <2>1. l \in RequestRow /\ l.pc = "recommend" /\ l.auth = ev[e].auth /\ ~l.exec /\ l.system = "m10"
    BY DEF RequestRow, Undecided, BuildPcs, EventRow, Idle
  <2>2. /\ Begin(c, e, l) /\ UNCHANGED <<toggles, faults>> /\ ev[e].status # "absent"
        /\ UNCHANGED <<ev, cards, approvals, done, gov, now, report, closures>>
    BY <1>1 DEF Build, cardVars, responseVars
  <2> HIDE DEF l
  <2>3. Begins(c, e) /\ req'[c].pc = l.pc /\ req'[c].auth = l.auth /\ req'[c].exec = l.exec
        /\ req'[c].system = l.system
    BY <2>1, <2>2, BeginEffect
  <2>4. QED
    BY <2>1, <2>2, <2>3 DEF Started
<1>2. ASSUME NEW k \in CardIds, Approve(c, k), UNCHANGED responseVars
      PROVE  \E e \in Events : Started(c, e)
  <2> DEFINE e == cards[k].event
             l == [Idle EXCEPT !.pc = "record", !.card = k, !.exec = Gate(gov), !.second = now]
  <2>1. k \in Made /\ e \in Events
    BY <1>2 DEF Approve
  <2>2. Gate(gov) \in BOOLEAN /\ now \in 0..MaxSeconds
    BY DEF Gate, BaseInv, TypeOK
  <2>3. /\ l \in RequestRow /\ l.pc = "record" /\ l.card = k /\ l.exec = Gate(gov)
        /\ l.action = "approved" /\ l.system = "m10"
    BY <2>2 DEF RequestRow, Undecided, Idle
  <2>4. /\ Begin(c, e, l) /\ UNCHANGED <<toggles, faults>>
        /\ UNCHANGED <<ev, cards, approvals, done, gov, now, report, closures>>
    BY <1>2 DEF Approve, cardVars, responseVars
  <2> HIDE DEF l, e
  <2>5. Begins(c, e) /\ req'[c].pc = l.pc /\ req'[c].card = l.card /\ req'[c].exec = l.exec
        /\ req'[c].action = l.action /\ req'[c].system = l.system
    BY <2>1, <2>3, <2>4, BeginEffect
  <2>6. QED
    BY <2>1, <2>3, <2>4, <2>5 DEF Started, e
<1>3. ASSUME NEW k \in CardIds, Reject(c, k), UNCHANGED responseVars
      PROVE  \E e \in Events : Started(c, e)
  <2> DEFINE e == cards[k].event
             l == [Idle EXCEPT !.pc = "record", !.card = k, !.action = "rejected", !.second = now]
  <2>1. k \in Made /\ e \in Events
    BY <1>3 DEF Reject
  <2>2. now \in 0..MaxSeconds
    BY DEF BaseInv, TypeOK
  <2>3. /\ l \in RequestRow /\ l.pc = "record" /\ l.card = k /\ ~l.exec
        /\ l.system = "m10"
    BY <2>2 DEF RequestRow, Undecided, Idle
  <2>4. /\ Begin(c, e, l) /\ UNCHANGED <<toggles, faults>>
        /\ UNCHANGED <<ev, cards, approvals, done, gov, now, report, closures>>
    BY <1>3 DEF Reject, cardVars, responseVars
  <2> HIDE DEF l, e
  <2>5. Begins(c, e) /\ req'[c].pc = l.pc /\ req'[c].card = l.card /\ req'[c].exec = l.exec
        /\ req'[c].system = l.system
    BY <2>1, <2>3, <2>4, BeginEffect
  <2>6. QED
    BY <2>1, <2>3, <2>4, <2>5 DEF Started, e
<1>4. ASSUME NEW r \in Reports, Submit(c, r) PROVE Started(c, r)
  <2> DEFINE l == [Idle EXCEPT !.pc = "submit"]
  <2>1. l \in RequestRow /\ l.pc = "submit" /\ ~l.exec /\ l.system = "m10"
    BY DEF RequestRow, Undecided, ReportPcs, Idle
  <2>2. /\ Begin(c, r, l) /\ UNCHANGED <<toggles, faults>> /\ r \in Events
        /\ report[r].status = "none" /\ ev[r].status = "absent"
        /\ UNCHANGED <<ev, cards, approvals, done, gov, now, report, closures>>
    BY <1>4 DEF Submit, cardVars, responseVars
  <2> HIDE DEF l
  <2>3. Begins(c, r) /\ req'[c].pc = l.pc /\ req'[c].exec = l.exec /\ req'[c].system = l.system
    BY <2>1, <2>2, BeginEffect
  <2>4. QED
    BY <2>1, <2>2, <2>3 DEF Started
<1>5. ASSUME NEW r \in Reports, Verify(c, r) PROVE Started(c, r)
  <2> DEFINE pc == IF report[r].event = NoEvent THEN "reingest" ELSE "authenticate"
             l == [Idle EXCEPT !.pc = pc, !.seen = report[r].status]
  <2>1. pc \in ReportPcs /\ report[r].status \in ReportStatus
    BY DEF ReportPcs, CitizenReportRow, ReportStatus
  <2> HIDE DEF pc
  <2>2. l \in RequestRow /\ l.pc = pc /\ ~l.exec /\ l.system = "m10" /\ l.seen \in ReportStatus
    BY <2>1 DEF RequestRow, Undecided, ReportPcs, Idle
  <2>3. /\ Begin(c, r, l) /\ UNCHANGED <<toggles, faults>> /\ r \in Events
        /\ report[r].status # "none"
        /\ UNCHANGED <<ev, cards, approvals, done, gov, now, report, closures>>
    BY <1>5 DEF Verify, cardVars, responseVars, pc
  <2> HIDE DEF l
  <2>4. /\ Begins(c, r) /\ req'[c].pc = l.pc /\ req'[c].exec = l.exec
        /\ req'[c].system = l.system
    BY <2>2, <2>3, BeginEffect
  <2>5. QED
    BY <2>2, <2>3, <2>4 DEF Started, pc
<1>6. ASSUME NEW r \in Reports, RejectReport(c, r) PROVE Started(c, r)
  <2> DEFINE l == [Idle EXCEPT !.pc = "refuse", !.seen = report[r].status]
  <2>1. report[r].status \in ReportStatus
    BY DEF CitizenReportRow, ReportStatus
  <2>2. l \in RequestRow /\ l.pc = "refuse" /\ ~l.exec /\ l.system = "m10" /\ l.seen \in ReportStatus
    BY <2>1 DEF RequestRow, Undecided, ReportPcs, Idle
  <2>3. /\ Begin(c, r, l) /\ UNCHANGED <<toggles, faults>> /\ r \in Events
        /\ report[r].status # "none"
        /\ UNCHANGED <<ev, cards, approvals, done, gov, now, report, closures>>
    BY <1>6 DEF RejectReport, cardVars, responseVars
  <2> HIDE DEF l
  <2>4. /\ Begins(c, r) /\ req'[c].pc = l.pc /\ req'[c].exec = l.exec
        /\ req'[c].system = l.system /\ req'[c].seen = l.seen
    BY <2>2, <2>3, BeginEffect
  <2>5. QED
    BY <2>2, <2>3, <2>4 DEF Started
<1>7. ASSUME NEW e \in Events, Close(c, e) PROVE Started(c, e)
  <2> DEFINE l == [Idle EXCEPT !.pc = "event"]
  <2>1. l \in RequestRow /\ l.pc = "event" /\ ~l.exec /\ l.system = "m10"
    BY DEF RequestRow, Undecided, ClosePcs, Idle
  <2>2. /\ Begin(c, e, l) /\ UNCHANGED <<toggles, faults>>
        /\ ev[e].status # "absent" /\ closures[e] = 0
        /\ UNCHANGED <<ev, cards, approvals, done, gov, now, report, closures>>
    BY <1>7 DEF Close, cardVars, responseVars
  <2> HIDE DEF l
  <2>3. Begins(c, e) /\ req'[c].pc = l.pc /\ req'[c].exec = l.exec /\ req'[c].system = l.system
    BY <2>1, <2>2, BeginEffect
  <2>4. QED
    BY <2>1, <2>2, <2>3 DEF Started
<1>8. QED
  BY <1>1, <1>2, <1>3, <1>4, <1>5, <1>6, <1>7 DEF BeginStep

------------------------------------------------------------------------------
(* What each of the other steps does to its request. *)

(* M07's answer is empty unless the event was read as authenticated. *)
LEMMA RecommendEffect ==
  ASSUME BaseInv, NEW c \in Clients, Recommend(c)
  PROVE  /\ Continues(c, "card") /\ req[c].pc = "recommend"
         /\ req'[c].system = req[c].system /\ (req'[c].dispatch # {} => req[c].auth)
         /\ UNCHANGED <<ev, cards, approvals, done, gov, now, faults>>
<1> DEFINE d == IF req[c].mode = "skeleton" \/ ~req[c].auth THEN {}
                ELSE {req[c].event} \cup {e \in Events : ev[e].status = "active"}
           r == [req[c] EXCEPT !.pc = "card", !.dispatch = d]
<1>1. /\ req[c].pc = "recommend"
      /\ req' = [req EXCEPT ![c].pc = "card", ![c].dispatch = d]
      /\ UNCHANGED <<ev, cards, approvals, done, gov, now, calls, toggles, faults, overlap>>
  BY DEF Recommend, cardVars, countVars
<1>2. req \in [Clients -> RequestRow] /\ req[c].event \in Events
  BY <1>1 DEF BaseInv, RequestInv
<1>3. d \in SUBSET Events /\ (d # {} => req[c].auth)
  BY <1>2
<1> HIDE DEF d
<1>4. /\ r \in RequestRow /\ r.pc = "card" /\ r.dispatch = d
      /\ r.call = req[c].call /\ r.event = req[c].event /\ r.card = req[c].card
      /\ r.action = req[c].action /\ r.exec = req[c].exec /\ r.second = req[c].second
      /\ r.system = req[c].system
  BY <1>2, <1>3 DEF RequestRow, Undecided, BuildPcs
<1>5. req' = [req EXCEPT ![c] = r]
  BY <1>1
<1> HIDE DEF r
<1>6. OnlyMoves(c) /\ req'[c] = r
  BY <1>2, <1>4, <1>5 DEF OnlyMoves
<1>7. QED
  BY <1>1, <1>3, <1>4, <1>6 DEF Continues

(* save_card: a card of a new number. *)
LEMMA SaveCardEffect ==
  ASSUME BaseInv, NEW c \in Clients, SaveCard(c)
  PROVE  /\ Ends(c) /\ req[c].pc = "card"
         /\ UNCHANGED <<ev, approvals, done, gov, now, faults>>
         /\ CardsType' /\ CardNumbers'
         /\ \E k \in CardIds : /\ k \notin Made /\ Made' = Made \cup {k}
                               /\ cards'[k].event = req[c].event
                               /\ cards'[k].dispatch = req[c].dispatch
                               /\ \A l \in CardIds \ {k} : cards'[l] = cards[l]
<1> DEFINE status == IF req[c].dispatch = {} THEN "partial" ELSE "complete"
           row == [event |-> req[c].event, column |-> status, json |-> status,
                   dispatch |-> req[c].dispatch, created |-> now]
<1>1. PICK k \in CardIds : k = Cardinality(Made) + 1 /\ cards' = [cards EXCEPT ![k] = row]
  BY DEF SaveCard
<1>2. req[c].pc = "card" /\ End(c)
      /\ UNCHANGED <<ev, approvals, done, gov, now, calls, toggles, faults, overlap>>
  BY DEF SaveCard, countVars
<1>3. Ends(c)
  BY <1>2, EndEffect
<1>4. PICK n \in Nat : Made = 1..n
  BY DEF BaseInv, CardNumbers
<1>5. k = n + 1 /\ k \notin Made
  <2>1. Cardinality(1..n) = n
    BY FS_Interval
  <2>2. QED
    BY <1>1, <1>4, <2>1
<1>6. req[c].event \in Events /\ req[c].dispatch \in SUBSET Events
  BY <1>2 DEF BaseInv, RequestInv, RequestRow
<1>7. row \in ActionCardRow /\ row.event = req[c].event /\ row.dispatch = req[c].dispatch
  BY <1>6 DEF ActionCardRow, CardStatus, BaseInv, TypeOK
<1> HIDE DEF row
<1>8. CardsType' /\ cards'[k] = row /\ \A l \in CardIds \ {k} : cards'[l] = cards[l]
  BY <1>1, <1>7 DEF CardsType, BaseInv
<1>9. Made' = Made \cup {k}
  BY <1>6, <1>7, <1>8, CardsAssumption DEF Made, Exists
<1>10. CardNumbers'
  <2>1. Made' = 1..(n + 1) /\ n + 1 \in Nat
    BY <1>4, <1>5, <1>9
  <2>2. QED
    BY <2>1 DEF CardNumbers
<1>11. QED
  BY <1>2, <1>3, <1>5, <1>7, <1>8, <1>9, <1>10

(* save_approval: the record of the request. *)
LEMMA RecordEffect ==
  ASSUME BaseInv, NEW c \in Clients, RecordApproval(c)
  PROVE  /\ GoesTo(c, "load") /\ req[c].pc = "record"
         /\ approvals' = approvals \cup {RecordOf(c)}
         /\ UNCHANGED <<ev, cards, done, gov, now, faults>>
<1>1. /\ req[c].pc = "record" /\ Goto(c, "load")
      /\ approvals' = approvals \cup {RecordOf(c)}
      /\ UNCHANGED <<ev, cards, done, gov, now, calls, toggles, faults, overlap>>
  BY DEF RecordApproval, RecordOf, countVars
<1>2. GoesTo(c, "load")
  BY <1>1, GotoEffect DEF Recorded
<1>3. QED
  BY <1>1, <1>2

(* update_status loads the column, ... *)
LEMMA LoadEffect ==
  ASSUME BaseInv, NEW c \in Clients, LoadCard(c)
  PROVE  /\ Continues(c, "update") /\ req[c].pc = "load"
         /\ req'[c].system = req[c].system /\ req'[c].seen = cards[req[c].card].column
         /\ req'[c].seen \in CardStatus
         /\ UNCHANGED <<ev, cards, approvals, done, gov, now, faults>>
<1> DEFINE s == cards[req[c].card].column
           r == [req[c] EXCEPT !.pc = "update", !.seen = s]
<1>1. /\ req[c].pc = "load"
      /\ req' = [req EXCEPT ![c].pc = "update", ![c].seen = s]
      /\ UNCHANGED <<ev, cards, approvals, done, gov, now, calls, toggles, faults, overlap>>
  BY DEF LoadCard, cardVars, countVars
<1>2. req \in [Clients -> RequestRow] /\ req[c].card \in Made
  BY <1>1 DEF BaseInv, RequestInv, Recorded
<1>3. s \in CardStatus
  BY <1>2, RowFacts DEF ActionCardRow
<1> HIDE DEF s
<1>4. /\ r \in RequestRow /\ r.pc = "update" /\ r.seen = s
      /\ r.call = req[c].call /\ r.event = req[c].event /\ r.card = req[c].card
      /\ r.action = req[c].action /\ r.exec = req[c].exec /\ r.second = req[c].second
      /\ r.system = req[c].system
  <2>1. req[c] \in RequestRow /\ "update" \in {"idle"} \cup Undecided \cup Recorded
    BY <1>2 DEF Recorded
  <2>2. s \in CardStatus \cup ReportStatus
    BY <1>3
  <2>3. QED
    BY <2>1, <2>2 DEF RequestRow
<1>5. req' = [req EXCEPT ![c] = r]
  BY <1>1
<1> HIDE DEF r
<1>6. OnlyMoves(c) /\ req'[c] = r
  BY <1>2, <1>4, <1>5 DEF OnlyMoves
<1>7. QED
  BY <1>1, <1>3, <1>4, <1>6 DEF Continues, s

(* ... and commits: the json, and the column unless it looked right. *)
LEMMA UpdateEffect ==
  ASSUME BaseInv, NEW c \in Clients, UpdateCard(c)
  PROVE  LET k == req[c].card
             a == req[c].action
         IN /\ GoesTo(c, "publish") /\ req[c].pc = "update"
            /\ k \in Made /\ CardsType' /\ Made' = Made
            /\ cards'[k].event = cards[k].event /\ cards'[k].dispatch = cards[k].dispatch
            /\ cards'[k].json = a
            /\ cards'[k].column = IF req[c].seen = a THEN cards[k].column ELSE a
            /\ \A l \in CardIds \ {k} : cards'[l] = cards[l]
            /\ UNCHANGED <<ev, approvals, done, gov, now, faults>>
<1> DEFINE k == req[c].card
           a == req[c].action
           row == [cards[k] EXCEPT !.json = a,
                     !.column = IF req[c].seen = a THEN cards[k].column ELSE a]
<1>1. /\ req[c].pc = "update" /\ Goto(c, "publish")
      /\ cards' = [cards EXCEPT ![k] = row]
      /\ UNCHANGED <<ev, approvals, done, gov, now, calls, toggles, faults, overlap>>
  <2>1. cards' = [cards EXCEPT ![k] = row]
    BY DEF UpdateCard
  <2>2. QED
    BY <2>1 DEF UpdateCard, countVars
<1>2. GoesTo(c, "publish")
  BY <1>1, GotoEffect DEF Recorded
<1>3. k \in Made /\ k \in CardIds /\ cards[k] \in ActionCardRow /\ cards[k].event \in Events
  BY <1>1, RowFacts DEF BaseInv, RequestInv, Recorded
<1>4. a \in {"approved", "rejected"}
  BY DEF BaseInv, RequestInv, RequestRow
<1>5. /\ row \in ActionCardRow /\ row.event = cards[k].event /\ row.dispatch = cards[k].dispatch
      /\ row.json = a /\ row.column = IF req[c].seen = a THEN cards[k].column ELSE a
  BY <1>3, <1>4 DEF ActionCardRow, CardStatus
<1> HIDE DEF row
<1>6. CardsType' /\ cards'[k] = row /\ \A l \in CardIds \ {k} : cards'[l] = cards[l]
  BY <1>1, <1>3, <1>5 DEF CardsType, BaseInv
<1>7. Made' = Made
  BY <1>3, <1>5, <1>6, CardsAssumption DEF Made, Exists
<1>8. QED
  BY <1>1, <1>2, <1>3, <1>5, <1>6, <1>7

(* Only a decision that is executed goes on after the publish. *)
LEMMA PublishEffect ==
  ASSUME BaseInv, NEW c \in Clients, PublishDecision(c)
  PROVE  /\ req[c].pc = "publish"
         /\ (GoesTo(c, "look") /\ req[c].exec) \/ (Ends(c) /\ ~req[c].exec)
         /\ UNCHANGED <<ev, cards, approvals, done, gov, now, faults>>
<1>1. /\ req[c].pc = "publish"
      /\ IF req[c].exec THEN Goto(c, "look") ELSE End(c)
      /\ UNCHANGED <<ev, cards, approvals, done, gov, now, calls, toggles, faults, overlap>>
  BY DEF PublishDecision, cardVars, countVars
<1>2. CASE req[c].exec
  BY <1>1, <1>2, GotoEffect DEF Recorded
<1>3. CASE ~req[c].exec
  BY <1>1, <1>3, EndEffect
<1>4. QED
  BY <1>1, <1>2, <1>3

(* From M10 to M11, or to the answer. *)
LEMMA NextSystemEffect ==
  ASSUME BaseInv, NEW c \in Clients, NextSystem(c), req[c].pc # "idle",
         UNCHANGED <<calls, toggles, overlap>>
  PROVE  \/ Continues(c, "look") /\ req[c].system = "m10" /\ req'[c].system = "m11"
         \/ Ends(c)
<1>1. CASE req[c].system = "m10" /\ req' = [req EXCEPT ![c].system = "m11", ![c].pc = "look"]
  <2> DEFINE r == [req[c] EXCEPT !.system = "m11", !.pc = "look"]
  <2>1. req \in [Clients -> RequestRow]
    BY DEF BaseInv, RequestInv
  <2>2. /\ r \in RequestRow /\ r.pc = "look" /\ r.system = "m11"
        /\ r.call = req[c].call /\ r.event = req[c].event /\ r.card = req[c].card
        /\ r.action = req[c].action /\ r.exec = req[c].exec /\ r.second = req[c].second
    <3>1. req[c] \in RequestRow /\ "look" \in {"idle"} \cup Undecided \cup Recorded
      BY <2>1 DEF Recorded
    <3>2. QED
      BY <3>1 DEF RequestRow
  <2>3. req' = [req EXCEPT ![c] = r]
    BY <1>1
  <2> HIDE DEF r
  <2>4. OnlyMoves(c) /\ req'[c] = r
    BY <2>1, <2>2, <2>3 DEF OnlyMoves
  <2>5. QED
    BY <1>1, <2>2, <2>4 DEF Continues
<1>2. CASE End(c)
  BY <1>2, EndEffect
<1>3. QED
  BY <1>1, <1>2 DEF NextSystem

(* The gate and the rows of the token decide whether a row is inserted. *)
LEMMA LookEffect ==
  ASSUME BaseInv, NEW c \in Clients, Look(c)
  PROVE  /\ req[c].pc = "look"
         /\ \/ /\ GoesTo(c, "insert")
               /\ \A d \in done : d.system = req[c].system => d.token # TokenOf(c)
            \/ /\ \/ Continues(c, "look") /\ req[c].system = "m10" /\ req'[c].system = "m11"
                  \/ Ends(c)
               /\ \/ ~Admits(req[c].system)
                  \/ \E d \in done : d.system = req[c].system /\ d.token = TokenOf(c)
         /\ UNCHANGED <<ev, cards, approvals, done, gov, now, faults>>
<1>1. /\ req[c].pc = "look"
      /\ UNCHANGED <<ev, cards, approvals, done, gov, now, calls, toggles, faults, overlap>>
  BY DEF Look, cardVars, countVars
<1>2. CASE /\ Admits(req[c].system)
           /\ \A d \in done : d.system = req[c].system => d.token # TokenOf(c)
  <2>1. Goto(c, "insert")
    BY <1>2 DEF Look
  <2>2. GoesTo(c, "insert")
    BY <1>1, <2>1, GotoEffect DEF Recorded
  <2>3. \A d \in done : d.system = req[c].system => d.token # TokenOf(c)
    BY <1>2
  <2>4. QED
    BY <1>1, <2>2, <2>3
<1>3. CASE ~(/\ Admits(req[c].system)
             /\ \A d \in done : d.system = req[c].system => d.token # TokenOf(c))
  <2>1. NextSystem(c)
    BY <1>3 DEF Look
  <2>2. \/ Continues(c, "look") /\ req[c].system = "m10" /\ req'[c].system = "m11"
        \/ Ends(c)
    BY <1>1, <2>1, NextSystemEffect
  <2>3. QED
    BY <1>1, <1>3, <2>2
<1>4. QED
  BY <1>2, <1>3

LEMMA InsertEffect ==
  ASSUME BaseInv, NEW c \in Clients, Insert(c)
  PROVE  /\ req[c].pc = "insert"
         /\ \/ Continues(c, "look") /\ req[c].system = "m10" /\ req'[c].system = "m11"
            \/ Ends(c)
         /\ done' = done \cup {[system |-> req[c].system, token |-> TokenOf(c),
                                call |-> req[c].call]}
         /\ UNCHANGED <<ev, cards, approvals, gov, now, faults>>
<1>1. /\ req[c].pc = "insert" /\ NextSystem(c)
      /\ done' = done \cup {[system |-> req[c].system, token |-> TokenOf(c),
                             call |-> req[c].call]}
      /\ UNCHANGED <<ev, cards, approvals, gov, now, calls, toggles, faults, overlap>>
  BY DEF Insert, countVars
<1>2. QED
  BY <1>1, NextSystemEffect

(* A fault ends the request, or is caught on the way to M10 and M11. *)
LEMMA CardFaultEffect ==
  ASSUME BaseInv, NEW c \in Clients, CardFault(c)
  PROVE  /\ faults' = faults + 1 /\ faults' \in 0..MaxFaults
         /\ \/ Ends(c)
            \/ /\ Continues(c, "look") /\ req'[c].system = "m11"
               /\ req[c].pc \in {"look", "insert"}
         /\ UNCHANGED <<ev, cards, approvals, done, gov, now>>
<1>1. UNCHANGED <<ev, cards, approvals, done, gov, now, calls, toggles, overlap>>
  BY DEF CardFault, cardVars
<1>2. CASE /\ req[c].pc \in {"recommend", "card", "record", "load", "update", "publish"}
           /\ Raise(c)
  BY <1>1, <1>2, RaiseEffect DEF Raises
<1>3. CASE /\ req[c].pc \in {"look", "insert"}
           /\ faults < MaxFaults /\ faults' = faults + 1
           /\ NextSystem(c)
  <2>1. faults' = faults + 1 /\ faults' \in 0..MaxFaults
    BY <1>3, CardsAssumption DEF BaseInv, TypeOK
  <2>2. \/ Continues(c, "look") /\ req[c].system = "m10" /\ req'[c].system = "m11"
        \/ Ends(c)
    BY <1>1, <1>3, NextSystemEffect
  <2>3. QED
    BY <1>1, <1>3, <2>1, <2>2
<1>4. QED
  BY <1>2, <1>3 DEF CardFault

(* An ingest stores the event and goes on, or refuses it and does what the    *)
(* caller does then, or stores it and raises.                                 *)
StoresEvent(e, status, auth) ==
  /\ ev' \in [Events -> EventRow]
  /\ ev'[e].status = status /\ ev'[e].auth = auth
  /\ \A d \in Events \ {e} : ev'[d] = ev[d]

LEMMA StoredEffect ==
  ASSUME BaseInv, NEW e \in Events, NEW status \in {"active", "closed"}, NEW auth \in BOOLEAN,
         Stored(e, status, auth)
  PROVE  StoresEvent(e, status, auth)
<1>1. [status |-> status, auth |-> auth] \in EventRow
  BY DEF EventRow
<1>2. ev \in [Events -> EventRow]
  BY DEF BaseInv, TypeOK
<1>3. QED
  BY <1>1, <1>2 DEF StoresEvent, Stored

(* submit_report: the event of a citizen is not authenticated. *)
LEMMA SubmitIngestEffect ==
  ASSUME BaseInv, NEW c \in Clients, SubmitIngest(c)
  PROVE  /\ req[c].pc = "submit"
         /\ \/ StoresEvent(req[c].event, "active", FALSE) /\ GoesTo(c, "quoted") /\ UNCHANGED faults
            \/ UNCHANGED <<ev, faults>> /\ GoesTo(c, "unquoted")
            \/ StoresEvent(req[c].event, "active", FALSE) /\ Raises(c)
         /\ UNCHANGED <<cards, approvals, done, gov, now, report, closures>>
<1> DEFINE e == req[c].event
<1>1. /\ req[c].pc = "submit"
      /\ Ingest(c, e, "active", FALSE, "quoted", Goto(c, "unquoted"))
      /\ UNCHANGED <<cards, approvals, done, gov, now, calls, toggles, overlap, report, closures>>
  BY DEF SubmitIngest, cardVars, responseVars
<1>2. e \in Events
  BY <1>1 DEF BaseInv, RequestInv
<1>3. CASE Stored(e, "active", FALSE) /\ Goto(c, "quoted") /\ UNCHANGED faults
  BY <1>1, <1>2, <1>3, StoredEffect, GotoEffect DEF Undecided, ReportPcs
<1>4. CASE UNCHANGED <<ev, faults>> /\ Goto(c, "unquoted")
  BY <1>1, <1>4, GotoEffect DEF Undecided, ReportPcs
<1>5. CASE Stored(e, "active", FALSE) /\ Raise(c)
  BY <1>1, <1>2, <1>5, StoredEffect, RaiseEffect
<1>6. QED
  BY <1>1, <1>3, <1>4, <1>5 DEF Ingest

(* A report that had no event is ingested when it is verified. *)
LEMMA ReingestEffect ==
  ASSUME BaseInv, NEW c \in Clients, Reingest(c)
  PROVE  /\ req[c].pc = "reingest"
         /\ \/ /\ StoresEvent(req[c].event, "active", FALSE) /\ GoesTo(c, "authenticate")
               /\ UNCHANGED faults
            \/ UNCHANGED <<ev, faults>> /\ Ends(c)
            \/ StoresEvent(req[c].event, "active", FALSE) /\ Raises(c)
         /\ UNCHANGED <<cards, approvals, done, gov, now, report, closures>>
<1> DEFINE e == req[c].event
<1>1. /\ req[c].pc = "reingest"
      /\ Ingest(c, e, "active", FALSE, "authenticate", End(c))
      /\ UNCHANGED <<cards, approvals, done, gov, now, calls, toggles, overlap, report, closures>>
  BY DEF Reingest, cardVars, responseVars
<1>2. e \in Events
  BY <1>1 DEF BaseInv, RequestInv
<1>3. CASE Stored(e, "active", FALSE) /\ Goto(c, "authenticate") /\ UNCHANGED faults
  BY <1>1, <1>2, <1>3, StoredEffect, GotoEffect DEF Undecided, ReportPcs
<1>4. CASE UNCHANGED <<ev, faults>> /\ End(c)
  BY <1>1, <1>4, EndEffect
<1>5. CASE Stored(e, "active", FALSE) /\ Raise(c)
  BY <1>1, <1>2, <1>5, StoredEffect, RaiseEffect
<1>6. QED
  BY <1>1, <1>3, <1>4, <1>5 DEF Ingest

(* The closure writes back the authentication it read. *)
LEMMA CloseIngestEffect ==
  ASSUME BaseInv, NEW c \in Clients, CloseIngest(c)
  PROVE  /\ req[c].pc = "close"
         /\ \/ /\ StoresEvent(req[c].event, "closed", req[c].auth) /\ GoesTo(c, "closure")
               /\ UNCHANGED faults
            \/ UNCHANGED <<ev, faults>> /\ Ends(c)
            \/ StoresEvent(req[c].event, "closed", req[c].auth) /\ Raises(c)
         /\ UNCHANGED <<cards, approvals, done, gov, now, report, closures>>
<1> DEFINE e == req[c].event
           auth == req[c].auth
<1>1. /\ req[c].pc = "close"
      /\ Ingest(c, e, "closed", auth, "closure", End(c))
      /\ UNCHANGED <<cards, approvals, done, gov, now, calls, toggles, overlap, report, closures>>
  BY DEF CloseIngest, cardVars, responseVars
<1>2. e \in Events /\ auth \in BOOLEAN
  BY <1>1 DEF BaseInv, RequestInv, RequestRow
<1> HIDE DEF auth
<1>3. CASE Stored(e, "closed", auth) /\ Goto(c, "closure") /\ UNCHANGED faults
  <2>1. StoresEvent(e, "closed", auth)
    BY <1>2, <1>3, StoredEffect
  <2>2. GoesTo(c, "closure")
    BY <1>1, <1>3, GotoEffect DEF Undecided, ClosePcs
  <2>3. QED
    BY <1>1, <1>3, <2>1, <2>2 DEF auth
<1>4. CASE UNCHANGED <<ev, faults>> /\ End(c)
  BY <1>1, <1>4, EndEffect
<1>5. CASE Stored(e, "closed", auth) /\ Raise(c)
  <2>1. StoresEvent(e, "closed", auth)
    BY <1>2, <1>5, StoredEffect
  <2>2. Raises(c)
    BY <1>1, <1>5, RaiseEffect
  <2>3. QED
    BY <1>1, <2>1, <2>2 DEF auth
<1>6. QED
  BY <1>1, <1>3, <1>4, <1>5 DEF Ingest

(* save_report, after its quote or without. *)
LEMMA SaveReportEffect ==
  ASSUME BaseInv, NEW c \in Clients, SaveReport(c)
  PROVE  LET r == req[c].event
         IN /\ Ends(c) /\ req[c].pc \in {"quoted", "unquoted"} /\ r \in Reports
            /\ report' \in [Reports -> CitizenReportRow] /\ report'[r].status = "pending"
            /\ report'[r].event = IF req[c].pc = "quoted" THEN r ELSE NoEvent
            /\ \A s \in Reports \ {r} : report'[s] = report[s]
            /\ UNCHANGED <<ev, cards, approvals, done, gov, now, faults, closures>>
<1> DEFINE r == req[c].event
           row == [status |-> "pending", event |-> IF req[c].pc = "quoted" THEN r ELSE NoEvent]
<1>1. /\ req[c].pc \in {"quoted", "unquoted"} /\ End(c)
      /\ report' = [report EXCEPT ![r] = row]
      /\ UNCHANGED <<ev, cards, approvals, done, gov, now, calls, toggles, faults, overlap, closures>>
  BY DEF SaveReport, cardVars, countVars
<1>2. r \in Reports /\ r \in Events
  BY <1>1 DEF BaseInv, RequestInv, ReportPcs
<1>3. row \in CitizenReportRow
  BY <1>2 DEF CitizenReportRow
<1>4. report \in [Reports -> CitizenReportRow]
  BY DEF BaseInv, TypeOK
<1>5. Ends(c)
  BY <1>1, EndEffect
<1>6. row.status = "pending" /\ row.event = IF req[c].pc = "quoted" THEN r ELSE NoEvent
  OBVIOUS
<1> HIDE DEF row
<1>7. QED
  BY <1>1, <1>2, <1>3, <1>4, <1>5, <1>6

(* set_event_authenticated *)
LEMMA AuthenticateEffect ==
  ASSUME BaseInv, NEW c \in Clients, Authenticate(c)
  PROVE  LET e == req[c].event
         IN /\ Continues(c, "verified") /\ req[c].pc = "authenticate"
            /\ req'[c].system = req[c].system /\ req'[c].seen = req[c].seen
            /\ ev' \in [Events -> EventRow] /\ ev'[e].auth /\ ev'[e].status = ev[e].status
            /\ \A d \in Events \ {e} : ev'[d] = ev[d]
            /\ UNCHANGED <<cards, approvals, done, gov, now, faults, report, closures>>
<1> DEFINE e == req[c].event
<1>1. /\ req[c].pc = "authenticate" /\ Goto(c, "verified")
      /\ ev' = [ev EXCEPT ![e].auth = TRUE]
      /\ UNCHANGED <<cards, approvals, done, gov, now, calls, toggles, faults, overlap, report,
                     closures>>
  BY DEF Authenticate, cardVars, countVars, responseVars
<1>2. e \in Events /\ ev \in [Events -> EventRow]
  BY <1>1 DEF BaseInv, RequestInv, TypeOK
<1>3. GoesTo(c, "verified")
  BY <1>1, GotoEffect DEF Undecided, ReportPcs
<1>4. /\ ev' \in [Events -> EventRow] /\ ev'[e].auth /\ ev'[e].status = ev[e].status
      /\ \A d \in Events \ {e} : ev'[d] = ev[d]
  BY <1>1, <1>2 DEF EventRow
<1>5. QED
  BY <1>1, <1>3, <1>4 DEF GoesTo

(* The report is verified, unless the one that was read was; the card that is *)
(* built next has the event as it is now.                                     *)
LEMMA MarkVerifiedEffect ==
  ASSUME BaseInv, NEW c \in Clients, MarkVerified(c)
  PROVE  LET r == req[c].event
         IN /\ \/ Ends(c)
               \/ /\ Continues(c, "recommend") /\ req'[c].auth = ev[r].auth
                  /\ req'[c].system = req[c].system
            /\ req[c].pc = "verified" /\ r \in Reports
            /\ report' \in [Reports -> CitizenReportRow] /\ report'[r].event = r
            /\ report'[r].status \in {report[r].status, "verified"}
            /\ \A s \in Reports \ {r} : report'[s] = report[s]
            /\ UNCHANGED <<ev, cards, approvals, done, gov, now, faults, closures>>
<1> DEFINE r == req[c].event
           status == IF req[c].seen = "verified" THEN report[r].status ELSE "verified"
           row == [status |-> status, event |-> r]
           l == [req[c] EXCEPT !.pc = "recommend", !.auth = ev[r].auth]
<1>1. /\ req[c].pc = "verified"
      /\ report' = [report EXCEPT ![r] = row]
      /\ UNCHANGED <<ev, cards, approvals, done, gov, now, calls, toggles, faults, overlap, closures>>
  BY DEF MarkVerified, cardVars, countVars
<1>2. End(c) \/ req' = [req EXCEPT ![c] = l]
  BY DEF MarkVerified
<1>3. /\ r \in Reports /\ r \in Events
      /\ req \in [Clients -> RequestRow] /\ req[c] \in RequestRow
      /\ ev[r] \in EventRow /\ report \in [Reports -> CitizenReportRow]
  BY <1>1, IdleRow DEF BaseInv, RequestInv, ReportPcs, TypeOK
<1>4. row \in CitizenReportRow /\ row.event = r /\ row.status \in {report[r].status, "verified"}
  BY <1>3 DEF CitizenReportRow
<1> HIDE DEF row
<1>5. /\ report' \in [Reports -> CitizenReportRow] /\ report'[r].event = r
      /\ report'[r].status \in {report[r].status, "verified"}
      /\ \A s \in Reports \ {r} : report'[s] = report[s]
  BY <1>1, <1>3, <1>4
<1>6. /\ l \in RequestRow /\ l.pc = "recommend" /\ l.auth = ev[r].auth
      /\ l.call = req[c].call /\ l.event = req[c].event /\ l.card = req[c].card
      /\ l.action = req[c].action /\ l.exec = req[c].exec /\ l.second = req[c].second
      /\ l.system = req[c].system
  <2>1. ev[r].auth \in BOOLEAN /\ "recommend" \in {"idle"} \cup Undecided \cup Recorded
    BY <1>3 DEF EventRow, Undecided, BuildPcs
  <2>2. QED
    BY <1>3, <2>1 DEF RequestRow
<1> HIDE DEF l
<1>7. CASE End(c)
  BY <1>1, <1>3, <1>5, <1>7, EndEffect
<1>8. CASE req' = [req EXCEPT ![c] = l]
  <2>1. OnlyMoves(c) /\ req'[c] = l
    BY <1>3, <1>6, <1>8 DEF OnlyMoves
  <2>2. Continues(c, "recommend")
    BY <1>1, <1>6, <2>1 DEF Continues
  <2>3. QED
    BY <1>1, <1>3, <1>5, <1>6, <2>1, <2>2
<1>9. QED
  BY <1>2, <1>7, <1>8

(* reject_report marks the report and leaves its event. *)
LEMMA MarkRejectedEffect ==
  ASSUME BaseInv, NEW c \in Clients, MarkRejected(c)
  PROVE  LET r == req[c].event
         IN /\ Ends(c) /\ req[c].pc = "refuse" /\ r \in Reports
            /\ report' \in [Reports -> CitizenReportRow] /\ report'[r].event = report[r].event
            /\ report'[r].status \in {report[r].status, "rejected"}
            /\ \A s \in Reports \ {r} : report'[s] = report[s]
            /\ UNCHANGED <<ev, cards, approvals, done, gov, now, faults, closures>>
<1> DEFINE r == req[c].event
           status == IF req[c].seen = "rejected" THEN report[r].status ELSE "rejected"
<1>1. /\ req[c].pc = "refuse" /\ End(c)
      /\ report' = [report EXCEPT ![r].status = status]
      /\ UNCHANGED <<ev, cards, approvals, done, gov, now, calls, toggles, faults, overlap, closures>>
  BY DEF MarkRejected, cardVars, countVars
<1>2. r \in Reports /\ report \in [Reports -> CitizenReportRow]
  BY <1>1 DEF BaseInv, RequestInv, ReportPcs, TypeOK
<1>3. Ends(c)
  BY <1>1, EndEffect
<1>4. /\ report' \in [Reports -> CitizenReportRow] /\ report'[r].event = report[r].event
      /\ report'[r].status = status
      /\ \A s \in Reports \ {r} : report'[s] = report[s]
  <2>1. status \in {"none", "pending", "verified", "rejected"}
    BY <1>2 DEF CitizenReportRow
  <2> HIDE DEF status
  <2>2. QED
    BY <1>1, <1>2, <2>1 DEF CitizenReportRow
<1>5. QED
  BY <1>1, <1>2, <1>3, <1>4

(* get_event reads the authentication that the closure will write. *)
LEMMA CloseReadEffect ==
  ASSUME BaseInv, NEW c \in Clients, CloseRead(c)
  PROVE  /\ Continues(c, "close") /\ req[c].pc = "event"
         /\ req'[c].auth = ev[req[c].event].auth /\ req'[c].system = req[c].system
         /\ UNCHANGED <<ev, cards, approvals, done, gov, now, faults, report, closures>>
<1> DEFINE a == ev[req[c].event].auth
           l == [req[c] EXCEPT !.pc = "close", !.auth = a]
<1>1. /\ req[c].pc = "event" /\ req' = [req EXCEPT ![c] = l]
      /\ UNCHANGED <<ev, cards, approvals, done, gov, now, calls, toggles, faults, overlap,
                     report, closures>>
  BY DEF CloseRead, cardVars, countVars, responseVars
<1>2. /\ req \in [Clients -> RequestRow] /\ req[c] \in RequestRow /\ a \in BOOLEAN
      /\ "close" \in {"idle"} \cup Undecided \cup Recorded
  BY <1>1 DEF BaseInv, RequestInv, TypeOK, EventRow, Undecided, ClosePcs
<1> HIDE DEF a
<1>3. /\ l \in RequestRow /\ l.pc = "close" /\ l.auth = a
      /\ l.call = req[c].call /\ l.event = req[c].event /\ l.card = req[c].card
      /\ l.action = req[c].action /\ l.exec = req[c].exec /\ l.second = req[c].second
      /\ l.system = req[c].system
  BY <1>2 DEF RequestRow
<1> HIDE DEF l
<1>4. OnlyMoves(c) /\ req'[c] = l
  BY <1>1, <1>2, <1>3 DEF OnlyMoves
<1>5. QED
  BY <1>1, <1>3, <1>4 DEF Continues, a

(* save_closure, or a fault that is logged. *)
LEMMA SaveClosureEffect ==
  ASSUME BaseInv, NEW c \in Clients, SaveClosure(c)
  PROVE  LET e == req[c].event
         IN /\ Ends(c) /\ req[c].pc = "closure" /\ e \in Events
            /\ \/ /\ closures' \in [Events -> Nat] /\ closures'[e] = closures[e] + 1
                  /\ \A d \in Events \ {e} : closures'[d] = closures[d]
                  /\ UNCHANGED faults
               \/ faults' = faults + 1 /\ faults' \in 0..MaxFaults /\ UNCHANGED closures
            /\ UNCHANGED <<ev, cards, approvals, done, gov, now, report>>
<1> DEFINE e == req[c].event
<1>1. /\ req[c].pc = "closure" /\ End(c)
      /\ UNCHANGED <<ev, cards, approvals, done, gov, now, calls, toggles, overlap, report>>
  BY DEF SaveClosure, cardVars
<1>2. e \in Events /\ closures \in [Events -> Nat] /\ faults \in 0..MaxFaults
  BY <1>1 DEF BaseInv, RequestInv, TypeOK
<1>3. \/ closures' = [closures EXCEPT ![e] = @ + 1] /\ UNCHANGED faults
      \/ faults < MaxFaults /\ faults' = faults + 1 /\ UNCHANGED closures
  BY DEF SaveClosure
<1>4. Ends(c)
  BY <1>1, EndEffect
<1>5. CASE closures' = [closures EXCEPT ![e] = @ + 1] /\ UNCHANGED faults
  BY <1>1, <1>2, <1>4, <1>5
<1>6. CASE faults < MaxFaults /\ faults' = faults + 1 /\ UNCHANGED closures
  BY <1>1, <1>2, <1>4, <1>6, CardsAssumption
<1>7. QED
  BY <1>3, <1>5, <1>6

LEMMA ResponseFaultEffect ==
  ASSUME BaseInv, NEW c \in Clients, ResponseFault(c)
  PROVE  /\ Raises(c)
         /\ UNCHANGED <<ev, cards, approvals, done, gov, now, report, closures>>
<1>1. /\ req[c].pc # "idle" /\ Raise(c)
      /\ UNCHANGED <<ev, cards, approvals, done, gov, now, calls, toggles, overlap, report, closures>>
  BY DEF ResponseFault, cardVars, responseVars
<1>2. QED
  BY <1>1, RaiseEffect

------------------------------------------------------------------------------
(* The base of the invariant. *)

CardsKept == Made \subseteq Made' /\ \A k \in Made : cards'[k].event = cards[k].event

(* A request goes from one place to another of its own handler. *)
Handler(pc, next) ==
  /\ next \in Undecided \cup Recorded
  /\ next \in ReportPcs => pc \in ReportPcs
  /\ next \in {"record"} \cup Recorded => pc \in {"record"} \cup Recorded

(* The requests after a step of one of them: one that starts has a call of    *)
(* its own, and overlaps whoever works on its event.                          *)
LEMMA RequestsAfter ==
  ASSUME BaseInv, NEW c \in Clients, CardsKept,
         \/ \E e \in Events : Started(c, e)
         \/ \E pc : /\ Continues(c, pc) /\ Handler(req[c].pc, pc)
                    /\ pc \in {"look", "insert"} => req[c].exec
         \/ Ends(c)
  PROVE  RequestInv' /\ OverlapInv' /\ calls' \in 0..MaxCalls /\ toggles' = toggles
         /\ overlap' \subseteq Events
<1> USE DEF BaseInv
<1>1. /\ req \in [Clients -> RequestRow] /\ calls \in 0..MaxCalls /\ overlap \subseteq Events
      /\ \A d \in Clients : req[d].pc # "idle" => req[d].call \in 1..calls /\ req[d].event \in Events
      /\ \A d \in Clients : req[d].pc = "idle" => req[d] = Idle
      /\ NoEvent \notin Events /\ MaxCalls \in Nat
  BY CardsAssumption DEF TypeOK, RequestInv
<1>2. CASE \E e \in Events : Started(c, e)
  <2>1. PICK e \in Events : Started(c, e)
    BY <1>2
  <2>2. Begins(c, e) /\ OnlyMoves(c)
    BY <2>1 DEF Started, Begins
  <2>3. /\ calls' = calls + 1 /\ calls' \in 1..MaxCalls /\ req'[c].call = calls'
        /\ req'[c].event = e /\ toggles' = toggles
        /\ overlap' = IF Busy(e) THEN overlap \cup {e} ELSE overlap
    BY <2>2 DEF Begins
  <2>4. /\ req'[c].pc \in ReportPcs => e \in Reports
        /\ req'[c].pc \notin Recorded /\ req'[c].pc # "idle"
        /\ req'[c].pc = "record" => req'[c].card \in Made /\ cards[req'[c].card].event = e
        /\ req'[c].exec => req'[c].action = "approved"
    BY <2>1 DEF Started, ReportPcs, Recorded
  <2>5. req'[c].pc \notin {"look", "insert"}
    BY <2>4 DEF Recorded
  <2>6. RequestInv'
    <3>1. \A d \in Clients \ {c} : req'[d] = req[d] /\ (req[d].pc # "idle" => req[d].call # calls')
      BY <1>1, <2>2, <2>3 DEF OnlyMoves
    <3>2. \A n \in 1..calls : n \in 1..calls'
      BY <1>1, <2>3
    <3>3. \A x, y \in Clients :
            req'[x].pc # "idle" /\ req'[x].call = req'[y].call => x = y
      BY <1>1, <2>3, <3>1, IdleRow DEF RequestInv
    <3>4. \A x \in Clients :
            LET r == req'[x]
            IN /\ r.pc = "idle" => r = Idle
               /\ r.pc # "idle" => r.call \in 1..calls' /\ r.event \in Events
               /\ r.pc \in ReportPcs => r.event \in Reports
               /\ r.pc \in {"record"} \cup Recorded =>
                    r.card \in Made' /\ cards'[r.card].event = r.event
               /\ r.exec => r.action = "approved"
               /\ r.pc \in {"look", "insert"} => r.exec
      <4> TAKE x \in Clients
      <4>1. CASE x = c
        BY <2>3, <2>4, <2>5, <4>1 DEF CardsKept
      <4>2. CASE x # c
        BY <3>1, <3>2, <4>2 DEF RequestInv, CardsKept
      <4>3. QED
        BY <4>1, <4>2
    <3>5. QED
      BY <2>2, <3>3, <3>4 DEF RequestInv, OnlyMoves
  <2>7. OverlapInv'
    <3>1. \A d \in Clients \ {c} : req[d].event = e => e \in overlap'
      BY <2>3 DEF Busy
    <3>2. overlap \subseteq overlap'
      BY <2>3
    <3>3. QED
      BY <2>2, <2>3, <3>1, <3>2 DEF OverlapInv, OnlyMoves
  <2>8. QED
    BY <1>1, <2>3, <2>6, <2>7
<1>3. CASE \E pc : /\ Continues(c, pc) /\ Handler(req[c].pc, pc)
                   /\ pc \in {"look", "insert"} => req[c].exec
  <2>1. PICK pc : /\ Continues(c, pc) /\ Handler(req[c].pc, pc)
                  /\ pc \in {"look", "insert"} => req[c].exec
    BY <1>3
  <2>2. /\ OnlyMoves(c) /\ req[c].pc # "idle" /\ req'[c].pc = pc
        /\ req'[c].call = req[c].call /\ req'[c].event = req[c].event
        /\ req'[c].card = req[c].card /\ req'[c].action = req[c].action
        /\ req'[c].exec = req[c].exec /\ UNCHANGED <<calls, toggles, overlap>>
    BY <2>1 DEF Continues
  <2>3. pc # "idle"
    BY <2>1 DEF Handler, Undecided, Recorded, BuildPcs, ReportPcs, ClosePcs
  <2>4. /\ pc \in ReportPcs => req[c].event \in Reports
        /\ pc \in {"record"} \cup Recorded =>
             req[c].card \in Made /\ cards[req[c].card].event = req[c].event
        /\ req[c].exec => req[c].action = "approved"
    BY <2>1 DEF RequestInv, Handler
  <2>5. RequestInv'
    BY <1>1, <2>1, <2>2, <2>3, <2>4 DEF RequestInv, OnlyMoves, CardsKept
  <2>6. OverlapInv'
    BY <2>2 DEF OverlapInv, OnlyMoves
  <2>7. QED
    BY <1>1, <2>2, <2>5, <2>6
<1>4. CASE Ends(c)
  <2>1. OnlyMoves(c) /\ req'[c] = Idle /\ UNCHANGED <<calls, toggles, overlap>>
    BY <1>4 DEF Ends
  <2>2. Idle.pc \notin ReportPcs /\ Idle.pc \notin {"record"} \cup Recorded
    BY IdleRow DEF ReportPcs, Recorded
  <2>3. RequestInv'
    BY <1>1, <2>1, <2>2, IdleRow DEF RequestInv, OnlyMoves, CardsKept
  <2>4. OverlapInv'
    BY <2>1, IdleRow DEF OverlapInv, OnlyMoves
  <2>5. QED
    BY <1>1, <2>1, <2>3, <2>4
<1>5. QED
  BY <1>2, <1>3, <1>4

(* The types of what is not a request or a card. *)
DataType ==
  /\ ev \in [Events -> EventRow]
  /\ approvals \subseteq ApprovalRecordRow
  /\ done \subseteq [system : {"m10", "m11"}, token : Token, call : 1..MaxCalls]
  /\ gov \in GovernanceState /\ now \in 0..MaxSeconds
  /\ faults \in 0..MaxFaults
  /\ report \in [Reports -> CitizenReportRow]
  /\ closures \in [Events -> Nat]

LEMMA CardsSame ==
  ASSUME UNCHANGED cards
  PROVE  /\ Made' = Made /\ CardsKept
         /\ CardsType => CardsType'
         /\ CardNumbers => CardNumbers'
<1>1. Made' = Made
  BY DEF Made, Exists
<1>2. QED
  BY <1>1 DEF CardsKept, CardsType, CardNumbers

(* A step of a request keeps the base if it keeps the types of the data and   *)
(* the cards.                                                                 *)
LEMMA BaseAfter ==
  ASSUME BaseInv, NEW c \in Clients, CardsKept, DataType', CardsType', CardNumbers',
         \/ \E e \in Events : Started(c, e)
         \/ \E pc : /\ Continues(c, pc) /\ Handler(req[c].pc, pc)
                    /\ pc \in {"look", "insert"} => req[c].exec
         \/ Ends(c)
  PROVE  BaseInv'
<1>1. RequestInv' /\ OverlapInv' /\ calls' \in 0..MaxCalls /\ toggles' = toggles
      /\ overlap' \subseteq Events
  BY RequestsAfter
<1>2. toggles' \in 0..MaxToggles
  BY <1>1 DEF BaseInv, TypeOK
<1>3. QED
  BY <1>1, <1>2 DEF BaseInv, TypeOK, DataType, CardsType

LEMMA BaseBegin ==
  ASSUME BaseInv, NEW c \in Clients, NEW e \in Events, Started(c, e)
  PROVE  BaseInv'
<1>1. UNCHANGED <<ev, cards, approvals, done, gov, now, report, closures, faults>>
  BY DEF Started, Begins
<1>2. DataType'
  BY <1>1 DEF BaseInv, TypeOK, DataType
<1>3. CardsKept /\ CardsType' /\ CardNumbers'
  BY <1>1, CardsSame DEF BaseInv
<1>4. QED
  BY <1>2, <1>3, BaseAfter
(* The approval that a request records is of its type. *)
LEMMA RecordRow ==
  ASSUME BaseInv, NEW c \in Clients, req[c].pc \in {"record"} \cup Recorded
  PROVE  /\ RecordOf(c) \in ApprovalRecordRow /\ TokenOf(c) \in Token
         /\ req[c].call \in 1..MaxCalls /\ req[c].call \in 1..calls
         /\ req[c].card \in Made /\ req[c].card \in CardIds
         /\ cards[req[c].card].event = req[c].event
<1>1. req[c] \in RequestRow /\ req[c].pc # "idle"
  BY DEF BaseInv, RequestInv, Recorded
<1>2. /\ req[c].call \in 1..calls /\ req[c].card \in Made
      /\ cards[req[c].card].event = req[c].event
  BY <1>1 DEF BaseInv, RequestInv
<1>3. req[c].call \in 1..MaxCalls
  BY <1>2, CardsAssumption DEF BaseInv, TypeOK
<1>4. req[c].card \in CardIds
  BY <1>2, RowFacts
<1>5. TokenOf(c) \in Token
  BY <1>1, <1>4 DEF TokenOf, Token, RequestRow
<1>6. RecordOf(c) \in ApprovalRecordRow
  BY <1>1, <1>3, <1>4, <1>5 DEF RecordOf, ApprovalRecordRow, RequestRow
<1>7. QED
  BY <1>2, <1>3, <1>4, <1>5, <1>6

(* What a step of one request leaves alone besides the requests. *)
LEMMA BaseFrame ==
  ASSUME BaseInv, NEW c \in Clients, UNCHANGED cards,
         ev' \in [Events -> EventRow] \/ UNCHANGED ev,
         approvals' \subseteq ApprovalRecordRow \/ UNCHANGED approvals,
         done' \subseteq [system : {"m10", "m11"}, token : Token, call : 1..MaxCalls]
           \/ UNCHANGED done,
         UNCHANGED <<gov, now>>, faults' \in 0..MaxFaults \/ UNCHANGED faults,
         report' \in [Reports -> CitizenReportRow] \/ UNCHANGED report,
         closures' \in [Events -> Nat] \/ UNCHANGED closures,
         \/ \E pc : /\ Continues(c, pc) /\ Handler(req[c].pc, pc)
                    /\ pc \in {"look", "insert"} => req[c].exec
         \/ Ends(c)
  PROVE  BaseInv'
<1>1. DataType'
  BY DEF BaseInv, TypeOK, DataType
<1>2. CardsKept /\ CardsType' /\ CardNumbers'
  BY CardsSame DEF BaseInv
<1>3. QED
  BY <1>1, <1>2, BaseAfter

LEMMA HandlerFacts ==
  /\ Handler("recommend", "card")
  /\ Handler("record", "load") /\ Handler("load", "update") /\ Handler("update", "publish")
  /\ Handler("publish", "look") /\ Handler("look", "insert") /\ Handler("look", "look")
  /\ Handler("insert", "look")
  /\ Handler("submit", "quoted") /\ Handler("submit", "unquoted")
  /\ Handler("reingest", "authenticate") /\ Handler("authenticate", "verified")
  /\ Handler("verified", "recommend")
  /\ Handler("event", "close") /\ Handler("close", "closure")
BY DEF Handler, Undecided, Recorded, BuildPcs, ReportPcs, ClosePcs

(* A decision goes on to M10 only if it is executed. *)
LEMMA LookExec ==
  ASSUME BaseInv, NEW c \in Clients, req[c].pc \in {"look", "insert"}
  PROVE  req[c].exec
BY DEF BaseInv, RequestInv

(* The steps: of a request, of M14 and of the clock. *)
CardKind(c) == (CardStep(c) \/ CardFault(c)) /\ UNCHANGED <<report, closures>>
ResponseKind(c) == ResponseStep(c) \/ ResponseFault(c)
WorldStep ==
  /\ UNCHANGED <<ev, cards, approvals, done, req, calls, faults, overlap, report, closures>>
  /\ \/ gov' \in GovernanceState /\ now' = now /\ toggles' \in 1..MaxToggles
     \/ gov' = gov /\ now' \in 0..MaxSeconds /\ toggles' = toggles

LEMMA NextCases ==
  ASSUME BaseInv, [Next]_vars
  PROVE  \/ \E c \in Clients : BeginStep(c) \/ CardKind(c) \/ ResponseKind(c)
         \/ WorldStep
<1>1. /\ toggles \in 0..MaxToggles /\ now \in 0..MaxSeconds /\ gov \in GovernanceState
      /\ MaxToggles \in Nat /\ MaxSeconds \in Nat
  BY CardsAssumption DEF BaseInv, TypeOK
<1>2. CASE CardsNext /\ UNCHANGED responseVars
  <2>1. ASSUME Toggle PROVE WorldStep
    <3>1. toggles < MaxToggles /\ toggles' = toggles + 1 /\ gov' \in GovernanceState
      BY <2>1 DEF Toggle
    <3>2. toggles' \in 1..MaxToggles
      BY <1>1, <3>1
    <3>3. UNCHANGED <<ev, cards, approvals, done, now, req, calls, faults, overlap, report, closures>>
      BY <1>2, <2>1 DEF Toggle, cardVars, responseVars
    <3>4. QED
      BY <3>1, <3>2, <3>3 DEF WorldStep
  <2>2. ASSUME Tick PROVE WorldStep
    <3>1. now' \in 0..MaxSeconds
      BY <1>1, <2>2 DEF Tick
    <3>2. QED
      BY <1>2, <2>2, <3>1 DEF Tick, WorldStep, cardVars, countVars, responseVars
  <2>3. QED
    BY <1>2, <2>1, <2>2 DEF CardsNext, BeginStep, CardKind, responseVars
<1>3. CASE UNCHANGED vars
  BY <1>1, <1>3 DEF vars, WorldStep, cardVars, countVars, responseVars
<1>4. QED
  BY <1>2, <1>3 DEF Next, BeginStep, ResponseKind

LEMMA BaseCard ==
  ASSUME BaseInv, NEW c \in Clients, CardKind(c)
  PROVE  BaseInv'
<1> USE HandlerFacts
<1>1. UNCHANGED <<report, closures>>
  BY DEF CardKind
<1>2. CASE Recommend(c)
  BY <1>1, <1>2, RecommendEffect, BaseFrame
<1>3. CASE SaveCard(c)
  <2>1. /\ Ends(c) /\ CardsType' /\ CardNumbers'
        /\ UNCHANGED <<ev, approvals, done, gov, now, faults>>
        /\ \E k \in CardIds : /\ k \notin Made /\ Made' = Made \cup {k}
                              /\ \A l \in CardIds \ {k} : cards'[l] = cards[l]
    BY <1>3, SaveCardEffect
  <2>2. DataType'
    BY <1>1, <2>1 DEF BaseInv, TypeOK, DataType
  <2>3. CardsKept
    BY <2>1, RowFacts DEF CardsKept
  <2>4. QED
    BY <2>1, <2>2, <2>3, BaseAfter
<1>4. CASE RecordApproval(c)
  <2>1. /\ GoesTo(c, "load") /\ req[c].pc = "record"
        /\ approvals' = approvals \cup {RecordOf(c)}
        /\ UNCHANGED <<ev, cards, done, gov, now, faults>>
    BY <1>4, RecordEffect
  <2>2. approvals' \subseteq ApprovalRecordRow
    BY <2>1, RecordRow DEF BaseInv, TypeOK
  <2>3. Continues(c, "load")
    BY <2>1 DEF GoesTo
  <2>4. QED
    BY <1>1, <2>1, <2>2, <2>3, BaseFrame
<1>5. CASE LoadCard(c)
  BY <1>1, <1>5, LoadEffect, BaseFrame
<1>6. CASE UpdateCard(c)
  <2> DEFINE k == req[c].card
  <2>1. /\ Continues(c, "publish") /\ req[c].pc = "update"
        /\ k \in Made /\ CardsType' /\ Made' = Made
        /\ cards'[k].event = cards[k].event
        /\ \A l \in CardIds \ {k} : cards'[l] = cards[l]
        /\ UNCHANGED <<ev, approvals, done, gov, now, faults>>
    BY <1>6, UpdateEffect DEF GoesTo
  <2>2. DataType'
    BY <1>1, <2>1 DEF BaseInv, TypeOK, DataType
  <2>3. CardsKept /\ CardNumbers'
    BY <2>1, RowFacts DEF CardsKept, CardNumbers, BaseInv
  <2>4. QED
    BY <2>1, <2>2, <2>3, BaseAfter
<1>7. CASE PublishDecision(c)
  <2>1. /\ req[c].pc = "publish"
        /\ (Continues(c, "look") /\ req[c].exec) \/ Ends(c)
        /\ UNCHANGED <<ev, cards, approvals, done, gov, now, faults>>
    BY <1>7, PublishEffect DEF GoesTo
  <2>2. QED
    BY <1>1, <2>1, BaseFrame
<1>8. CASE Look(c)
  <2>1. /\ req[c].pc = "look"
        /\ Continues(c, "insert") \/ Continues(c, "look") \/ Ends(c)
        /\ UNCHANGED <<ev, cards, approvals, done, gov, now, faults>>
    BY <1>8, LookEffect DEF GoesTo
  <2>2. req[c].exec
    BY <2>1, LookExec
  <2>3. QED
    BY <1>1, <2>1, <2>2, BaseFrame
<1>9. CASE Insert(c)
  <2>1. /\ req[c].pc = "insert"
        /\ Continues(c, "look") \/ Ends(c)
        /\ done' = done \cup {[system |-> req[c].system, token |-> TokenOf(c), call |-> req[c].call]}
        /\ UNCHANGED <<ev, cards, approvals, gov, now, faults>>
    BY <1>9, InsertEffect
  <2>2. req[c].exec
    BY <2>1, LookExec
  <2>3. done' \subseteq [system : {"m10", "m11"}, token : Token, call : 1..MaxCalls]
    <3>1. TokenOf(c) \in Token /\ req[c].call \in 1..MaxCalls
      BY <2>1, RecordRow DEF Recorded
    <3>2. req[c].system \in {"m10", "m11"}
      BY DEF BaseInv, RequestInv, RequestRow
    <3>3. done \subseteq [system : {"m10", "m11"}, token : Token, call : 1..MaxCalls]
      BY DEF BaseInv, TypeOK
    <3>4. QED
      BY <2>1, <3>1, <3>2, <3>3
  <2>4. QED
    BY <1>1, <2>1, <2>2, <2>3, BaseFrame
<1>10. CASE CardFault(c)
  <2>1. /\ faults' \in 0..MaxFaults
        /\ Ends(c) \/ (Continues(c, "look") /\ req[c].pc \in {"look", "insert"})
        /\ UNCHANGED <<ev, cards, approvals, done, gov, now>>
    BY <1>10, CardFaultEffect
  <2>2. CASE Ends(c)
    BY <1>1, <2>1, <2>2, BaseFrame
  <2>3. CASE Continues(c, "look") /\ req[c].pc \in {"look", "insert"}
    <3>1. req[c].exec
      BY <2>3, LookExec
    <3>2. QED
      BY <1>1, <2>1, <2>3, <3>1, BaseFrame
  <2>4. QED
    BY <2>1, <2>2, <2>3
<1>11. QED
  BY <1>2, <1>3, <1>4, <1>5, <1>6, <1>7, <1>8, <1>9, <1>10 DEF CardKind, CardStep

LEMMA BaseResponse ==
  ASSUME BaseInv, NEW c \in Clients, ResponseKind(c)
  PROVE  BaseInv'
<1> USE HandlerFacts
<1>1. CASE SubmitIngest(c)
  <2>1. /\ req[c].pc = "submit"
        /\ Continues(c, "quoted") \/ Continues(c, "unquoted") \/ Ends(c)
        /\ ev' \in [Events -> EventRow] \/ UNCHANGED ev
        /\ faults' \in 0..MaxFaults \/ UNCHANGED faults
        /\ UNCHANGED <<cards, approvals, done, gov, now, report, closures>>
    BY <1>1, SubmitIngestEffect DEF StoresEvent, GoesTo, Raises
  <2>2. \/ \E pc : /\ Continues(c, pc) /\ Handler(req[c].pc, pc)
                   /\ pc \in {"look", "insert"} => req[c].exec
        \/ Ends(c)
    BY <2>1
  <2>3. QED
    BY <2>1, <2>2, BaseFrame
<1>2. CASE SaveReport(c)
  BY <1>2, SaveReportEffect, BaseFrame
<1>3. CASE Reingest(c)
  <2>1. /\ req[c].pc = "reingest"
        /\ Continues(c, "authenticate") \/ Ends(c)
        /\ ev' \in [Events -> EventRow] \/ UNCHANGED ev
        /\ faults' \in 0..MaxFaults \/ UNCHANGED faults
        /\ UNCHANGED <<cards, approvals, done, gov, now, report, closures>>
    BY <1>3, ReingestEffect DEF StoresEvent, GoesTo, Raises
  <2>2. \/ \E pc : /\ Continues(c, pc) /\ Handler(req[c].pc, pc)
                   /\ pc \in {"look", "insert"} => req[c].exec
        \/ Ends(c)
    BY <2>1
  <2>3. QED
    BY <2>1, <2>2, BaseFrame
<1>4. CASE Authenticate(c)
  BY <1>4, AuthenticateEffect, BaseFrame
<1>5. CASE MarkVerified(c)
  BY <1>5, MarkVerifiedEffect, BaseFrame
<1>6. CASE MarkRejected(c)
  BY <1>6, MarkRejectedEffect, BaseFrame
<1>7. CASE CloseRead(c)
  BY <1>7, CloseReadEffect, BaseFrame
<1>8. CASE CloseIngest(c)
  BY <1>8, CloseIngestEffect, BaseFrame DEF StoresEvent, GoesTo, Raises
<1>9. CASE SaveClosure(c)
  BY <1>9, SaveClosureEffect, BaseFrame
<1>10. CASE ResponseFault(c)
  BY <1>10, ResponseFaultEffect, BaseFrame DEF Raises
<1>11. QED
  BY <1>1, <1>2, <1>3, <1>4, <1>5, <1>6, <1>7, <1>8, <1>9, <1>10 DEF ResponseKind, ResponseStep

LEMMA BaseWorld ==
  ASSUME BaseInv, WorldStep
  PROVE  BaseInv'
<1>1. /\ UNCHANGED <<ev, cards, approvals, done, req, calls, faults, overlap, report, closures>>
      /\ gov' \in GovernanceState /\ now' \in 0..MaxSeconds /\ toggles' \in 0..MaxToggles
  BY CardsAssumption DEF WorldStep, BaseInv, TypeOK
<1>2. TypeOK'
  BY <1>1 DEF BaseInv, TypeOK
<1>3. CardsType' /\ CardNumbers' /\ Made' = Made
  BY <1>1, CardsSame DEF BaseInv
<1>4. RequestInv'
  BY <1>1, <1>3 DEF BaseInv, RequestInv
<1>5. OverlapInv'
  BY <1>1 DEF BaseInv, OverlapInv
<1>6. QED
  BY <1>2, <1>3, <1>4, <1>5 DEF BaseInv

LEMMA BaseNext ==
  ASSUME BaseInv, [Next]_vars
  PROVE  BaseInv'
BY NextCases, BeginKind, BaseBegin, BaseCard, BaseResponse, BaseWorld

LEMMA BaseInit ==
  ASSUME Init
  PROVE  BaseInv
<1> USE DEF Init, CardsInit
<1>1. CardsType /\ Made = {}
  BY DEF CardsType, Made, Exists, NoRow
<1>2. CardNumbers
  <2>1. 1..0 = {}
    OBVIOUS
  <2>2. QED
    BY <1>1, <2>1 DEF CardNumbers
<1>3. TypeOK
  <2>1. ev \in [Events -> EventRow]
    BY DEF EventRow
  <2>2. report \in [Reports -> CitizenReportRow]
    BY DEF CitizenReportRow
  <2>3. QED
    BY <2>1, <2>2, CardsAssumption DEF TypeOK
<1>4. req = [c \in Clients |-> Idle] /\ calls = 0
  OBVIOUS
<1>5. RequestInv
  <2>1. Idle.pc \notin ReportPcs /\ Idle.pc \notin {"record"} \cup Recorded
    BY IdleRow DEF ReportPcs, Recorded
  <2>2. QED
    BY <1>4, <2>1, IdleRow DEF RequestInv
<1>6. OverlapInv
  BY <1>4, IdleRow DEF OverlapInv
<1>7. QED
  BY <1>1, <1>2, <1>3, <1>5, <1>6 DEF BaseInv

------------------------------------------------------------------------------
(* Approvals and what is handed over. *)

(* Steps of requests that leave no approval. *)
Aside(c) ==
  /\ req[c].pc \in Undecided /\ req'[c].pc \notin Recorded
  /\ UNCHANGED <<approvals, done, gov>> /\ faults' \in {faults, faults + 1}
  /\ \/ Ends(c)
     \/ \E pc \in Undecided : Continues(c, pc) /\ req'[c].system = req[c].system

LEMMA PcFacts ==
  /\ \A pc \in Undecided : pc \notin Recorded /\ pc # "idle"
  /\ {"recommend", "card", "submit", "quoted", "unquoted", "reingest", "authenticate", "verified",
      "refuse", "event", "close", "closure", "record"} \subseteq Undecided
  /\ "idle" \notin Undecided /\ "idle" \notin Recorded
  /\ \A pc \in {"load", "update", "publish", "look", "insert"} : pc \in Recorded /\ pc \notin Undecided
BY DEF Undecided, Recorded, BuildPcs, ReportPcs, ClosePcs

LEMMA AsideResponse ==
  ASSUME BaseInv, NEW c \in Clients, ResponseKind(c)
  PROVE  Aside(c)
<1> USE PcFacts, IdleRow
<1>0. faults \in Nat
  BY DEF BaseInv, TypeOK
<1>1. CASE SubmitIngest(c)
  BY <1>1, SubmitIngestEffect DEF Aside, GoesTo, Continues, Raises, Ends
<1>2. CASE SaveReport(c)
  BY <1>2, SaveReportEffect DEF Aside, Ends
<1>3. CASE Reingest(c)
  BY <1>3, ReingestEffect DEF Aside, GoesTo, Continues, Raises, Ends
<1>4. CASE Authenticate(c)
  BY <1>4, AuthenticateEffect DEF Aside, Continues
<1>5. CASE MarkVerified(c)
  BY <1>5, MarkVerifiedEffect DEF Aside, Continues, Ends
<1>6. CASE MarkRejected(c)
  BY <1>6, MarkRejectedEffect DEF Aside, Ends
<1>7. CASE CloseRead(c)
  BY <1>7, CloseReadEffect DEF Aside, Continues
<1>8. CASE CloseIngest(c)
  BY <1>8, CloseIngestEffect DEF Aside, GoesTo, Continues, Raises, Ends
<1>9. CASE SaveClosure(c)
  BY <1>9, SaveClosureEffect DEF Aside, Ends
<1>10. CASE ResponseFault(c)
  <2>1. Raises(c) /\ UNCHANGED <<approvals, done, gov>>
    BY <1>10, ResponseFaultEffect
  <2>2. req[c].pc \in Undecided
    BY <1>10 DEF ResponseFault
  <2>3. QED
    BY <2>1, <2>2 DEF Aside, Raises, Ends
<1>11. QED
  BY <1>1, <1>2, <1>3, <1>4, <1>5, <1>6, <1>7, <1>8, <1>9, <1>10 DEF ResponseKind, ResponseStep

LEMMA AsideBuild ==
  ASSUME BaseInv, NEW c \in Clients, Recommend(c) \/ SaveCard(c)
  PROVE  Aside(c)
<1> USE PcFacts, IdleRow
<1>1. CASE Recommend(c)
  BY <1>1, RecommendEffect DEF Aside, Continues
<1>2. CASE SaveCard(c)
  BY <1>2, SaveCardEffect DEF Aside, Ends
<1>3. QED
  BY <1>1, <1>2

(* The requests on the way from one place to another, with their record or    *)
(* without it.                                                                *)
SameSide(c) ==
  \/ \E e \in Events : Started(c, e)
  \/ Ends(c)
  \/ \E pc : Continues(c, pc) /\ pc \in Undecided /\ req[c].pc \in Undecided
  \/ \E pc : Continues(c, pc) /\ pc \in Recorded /\ req[c].pc \in Recorded

LEMMA ApprovalFrame ==
  ASSUME BaseInv, ApprovalInv, NEW c \in Clients, CardsKept, SameSide(c), UNCHANGED approvals,
         \A d \in done' : d \in done \/ \E a \in approvals : a.call = d.call /\ a.token = d.token
                                                            /\ a.enqueued
  PROVE  ApprovalInv'
<1> USE PcFacts, IdleRow
<1>1. calls \in Nat /\ (calls' = calls \/ calls' = calls + 1)
  BY DEF SameSide, Started, Begins, Ends, Continues, BaseInv, TypeOK
<1>2. \A a \in approvals : a.call \in 1..calls' /\ a.card \in Made'
  BY <1>1 DEF ApprovalInv, CardsKept
<1>3. \A d \in Clients \ {c} : req'[d] = req[d]
  BY DEF SameSide, Started, Begins, Ends, Continues, OnlyMoves
<1>4. \A d \in Clients \ {c} :
        /\ req'[d].pc \in Undecided => \A a \in approvals : a.call # req'[d].call
        /\ req'[d].pc \in Recorded => RecordOf(d)' \in approvals
  BY <1>3 DEF ApprovalInv, RecordOf, TokenOf
<1>5. /\ req'[c].pc \in Undecided => \A a \in approvals : a.call # req'[c].call
      /\ req'[c].pc \in Recorded => RecordOf(c)' \in approvals
  <2>1. CASE \E e \in Events : Started(c, e)
    <3>1. req'[c].call = calls + 1 /\ req'[c].pc \notin Recorded
      BY <2>1 DEF Started, Begins, Recorded
    <3>2. QED
      BY <1>1, <3>1 DEF ApprovalInv
  <2>2. CASE Ends(c)
    BY <2>2 DEF Ends
  <2>3. CASE \E pc : Continues(c, pc) /\ pc \in Undecided /\ req[c].pc \in Undecided
    BY <2>3 DEF Continues, ApprovalInv
  <2>4. CASE \E pc : Continues(c, pc) /\ pc \in Recorded /\ req[c].pc \in Recorded
    <3>1. RecordOf(c)' = RecordOf(c) /\ req'[c].pc \in Recorded /\ req[c].pc \in Recorded
      BY <2>4 DEF Continues, RecordOf, TokenOf
    <3>2. QED
      BY <3>1 DEF ApprovalInv
  <2>5. QED
    BY <2>1, <2>2, <2>3, <2>4 DEF SameSide
<1>6. QED
  BY <1>2, <1>4, <1>5 DEF ApprovalInv

(* The record has the call of its request, which no other has. *)
LEMMA ApprovalRecord ==
  ASSUME BaseInv, ApprovalInv, NEW c \in Clients, RecordApproval(c)
  PROVE  ApprovalInv'
<1> USE PcFacts
<1>1. /\ GoesTo(c, "load") /\ req[c].pc = "record"
      /\ approvals' = approvals \cup {RecordOf(c)}
      /\ UNCHANGED <<cards, done>>
  BY RecordEffect
<1>2. /\ req'[c].pc = "load" /\ req'[c].call = req[c].call /\ RecordOf(c)' = RecordOf(c)
      /\ calls' = calls /\ \A d \in Clients \ {c} : req'[d] = req[d]
  BY <1>1 DEF GoesTo, Continues, OnlyMoves, RecordOf, TokenOf
<1>3. Made' = Made
  BY <1>1, CardsSame
<1>4. /\ RecordOf(c).call = req[c].call /\ RecordOf(c).card = req[c].card
      /\ RecordOf(c).action = req[c].action /\ RecordOf(c).enqueued = req[c].exec
  BY DEF RecordOf
<1>5. /\ req[c].call \in 1..calls /\ req[c].card \in Made
      /\ req[c].exec => req[c].action = "approved"
  BY <1>1, RecordRow DEF BaseInv, RequestInv
<1> DEFINE x == RecordOf(c)
<1> HIDE DEF x
<1>6. approvals' = approvals \cup {x} /\ x.call = req[c].call /\ \A a \in approvals : a.call # x.call
  BY <1>1, <1>4 DEF ApprovalInv, x
<1>7. \A a, b \in approvals' : a.call = b.call => a = b
  BY <1>6 DEF ApprovalInv
<1>8. \A a \in approvals' :
        a.call \in 1..calls' /\ a.card \in Made' /\ (a.enqueued => a.action = "approved")
  BY <1>2, <1>3, <1>4, <1>5, <1>6 DEF ApprovalInv, x
<1>9. \A d \in Clients :
         /\ req'[d].pc \in Undecided => \A a \in approvals' : a.call # req'[d].call
         /\ req'[d].pc \in Recorded => RecordOf(d)' \in approvals'
  <2> TAKE d \in Clients
  <2>1. CASE d = c
    BY <1>1, <1>2, <2>1
  <2>2. CASE d # c
    <3>1. req'[d] = req[d] /\ RecordOf(d)' = RecordOf(d) /\ req[d].call # x.call
      BY <1>1, <1>2, <1>6, <2>2 DEF RecordOf, TokenOf, BaseInv, RequestInv
    <3>2. QED
      BY <1>6, <3>1 DEF ApprovalInv
  <2>3. QED
    BY <2>1, <2>2
<1>10. \A d \in done' : \E a \in approvals' : a.call = d.call /\ a.token = d.token /\ a.enqueued
  BY <1>1 DEF ApprovalInv
<1>11. QED
  BY <1>7, <1>8, <1>9, <1>10 DEF ApprovalInv

(* A row of M10 or M11 is inserted by a request whose approval says so. *)
LEMMA ApprovalInsert ==
  ASSUME BaseInv, ApprovalInv, NEW c \in Clients, Insert(c)
  PROVE  ApprovalInv'
<1> USE PcFacts
<1>1. /\ req[c].pc = "insert"
      /\ Continues(c, "look") \/ Ends(c)
      /\ done' = done \cup {[system |-> req[c].system, token |-> TokenOf(c), call |-> req[c].call]}
      /\ UNCHANGED <<cards, approvals>>
  BY InsertEffect
<1>2. RecordOf(c) \in approvals /\ req[c].exec
  BY <1>1, LookExec DEF ApprovalInv
<1>3. /\ RecordOf(c).call = req[c].call /\ RecordOf(c).token = TokenOf(c)
      /\ RecordOf(c).enqueued = req[c].exec
  BY DEF RecordOf
<1> DEFINE x == [system |-> req[c].system, token |-> TokenOf(c), call |-> req[c].call]
<1>4. x.token = TokenOf(c) /\ x.call = req[c].call /\ done' = done \cup {x}
  BY <1>1
<1> HIDE DEF x
<1>5. \E a \in approvals : a.call = x.call /\ a.token = x.token /\ a.enqueued
  <2>1. /\ RecordOf(c).call = x.call /\ RecordOf(c).token = x.token
        /\ RecordOf(c).enqueued
    BY <1>2, <1>3, <1>4
  <2>2. QED
    BY <1>2, <2>1
<1>6. \A d \in done' : d \in done \/ \E a \in approvals : a.call = d.call /\ a.token = d.token
                                                         /\ a.enqueued
  BY <1>4, <1>5
<1>7. SameSide(c) /\ CardsKept
  BY <1>1, CardsSame DEF SameSide
<1>8. QED
  BY <1>1, <1>6, <1>7, ApprovalFrame

LEMMA ApprovalNext ==
  ASSUME BaseInv, ApprovalInv, [Next]_vars
  PROVE  ApprovalInv'
<1> USE PcFacts
<1>1. ASSUME NEW c \in Clients, Aside(c), CardsKept PROVE ApprovalInv'
  <2>1. SameSide(c) /\ UNCHANGED <<approvals, done>>
    BY <1>1 DEF Aside, SameSide
  <2>2. QED
    BY <1>1, <2>1, ApprovalFrame
<1>2. ASSUME NEW c \in Clients, BeginStep(c) PROVE ApprovalInv'
  <2>1. PICK e \in Events : Started(c, e)
    BY <1>2, BeginKind
  <2>2. UNCHANGED <<cards, approvals, done>>
    BY <2>1 DEF Started
  <2>3. QED
    BY <2>1, <2>2, CardsSame, ApprovalFrame DEF SameSide
<1>3. ASSUME NEW c \in Clients, ResponseKind(c) PROVE ApprovalInv'
  <2>1. UNCHANGED cards
    BY <1>3 DEF ResponseKind, ResponseStep, SubmitIngest, SaveReport, Reingest, Authenticate,
                MarkVerified, MarkRejected, CloseRead, CloseIngest, SaveClosure, ResponseFault,
                cardVars
  <2>2. QED
    BY <1>1, <1>3, <2>1, AsideResponse, CardsSame
<1>4. ASSUME NEW c \in Clients, CardKind(c) PROVE ApprovalInv'
  <2>1. CASE Recommend(c)
    BY <1>1, <2>1, AsideBuild, RecommendEffect, CardsSame
  <2>2. CASE SaveCard(c)
    <3>1. \E k \in CardIds : /\ k \notin Made /\ Made' = Made \cup {k}
                             /\ \A l \in CardIds \ {k} : cards'[l] = cards[l]
      BY <2>2, SaveCardEffect
    <3>2. CardsKept
      BY <3>1, RowFacts DEF CardsKept
    <3>3. QED
      BY <1>1, <2>2, <3>2, AsideBuild
  <2>3. CASE RecordApproval(c)
    BY <2>3, ApprovalRecord
  <2>4. CASE LoadCard(c)
    BY <2>4, LoadEffect, CardsSame, ApprovalFrame DEF SameSide
  <2>5. CASE UpdateCard(c)
    <3> DEFINE k == req[c].card
    <3>1. /\ Continues(c, "publish") /\ req[c].pc = "update" /\ Made' = Made
          /\ cards'[k].event = cards[k].event /\ \A l \in CardIds \ {k} : cards'[l] = cards[l]
          /\ UNCHANGED <<approvals, done>>
      BY <2>5, UpdateEffect DEF GoesTo
    <3>2. CardsKept
      BY <3>1, RowFacts DEF CardsKept
    <3>3. QED
      BY <3>1, <3>2, ApprovalFrame DEF SameSide
  <2>6. CASE PublishDecision(c)
    BY <2>6, PublishEffect, CardsSame, ApprovalFrame DEF SameSide, GoesTo
  <2>7. CASE Look(c)
    <3>1. /\ req[c].pc = "look" /\ UNCHANGED <<cards, approvals, done>>
          /\ Continues(c, "insert") \/ Continues(c, "look") \/ Ends(c)
      BY <2>7, LookEffect DEF GoesTo
    <3>2. QED
      BY <3>1, CardsSame, ApprovalFrame DEF SameSide
  <2>8. CASE Insert(c)
    BY <2>8, ApprovalInsert
  <2>9. CASE CardFault(c)
    <3>1. /\ UNCHANGED <<cards, approvals, done>>
          /\ (Continues(c, "look") /\ req[c].pc \in {"look", "insert"}) \/ Ends(c)
      BY <2>9, CardFaultEffect
    <3>2. QED
      BY <3>1, CardsSame, ApprovalFrame DEF SameSide
  <2>10. QED
    BY <1>4, <2>1, <2>2, <2>3, <2>4, <2>5, <2>6, <2>7, <2>8, <2>9 DEF CardKind, CardStep
<1>5. ASSUME WorldStep PROVE ApprovalInv'
  <2>1. UNCHANGED <<cards, approvals, done, req, calls>>
    BY <1>5 DEF WorldStep
  <2>2. Made' = Made
    BY <2>1, CardsSame
  <2>3. \A c \in Clients : RecordOf(c)' = RecordOf(c)
    BY <2>1 DEF RecordOf, TokenOf
  <2>4. QED
    BY <2>1, <2>2, <2>3 DEF ApprovalInv
<1>6. QED
  BY <1>2, <1>3, <1>4, <1>5, NextCases

LEMMA ApprovalInit ==
  ASSUME Init
  PROVE  ApprovalInv
<1>1. req = [c \in Clients |-> Idle] /\ approvals = {} /\ done = {}
  BY DEF Init, CardsInit
<1>2. \A c \in Clients : req[c].pc \notin Recorded
  BY <1>1, IdleRow, PcFacts
<1>3. QED
  BY <1>1, <1>2 DEF ApprovalInv

------------------------------------------------------------------------------
(* Rows of a token. *)

(* Where an event does not overlap, no other request is on it. *)
LEMMA Alone ==
  ASSUME BaseInv, NEW c \in Clients, NEW d \in Clients, c # d,
         req[c].pc # "idle", req[c].event \notin overlap
  PROVE  req[d].event # req[c].event
BY IdleRow DEF BaseInv, RequestInv, OverlapInv

(* A step that inserts no row, of a request that is not about to. *)
LEMMA OnceFrame ==
  ASSUME BaseInv, OnceInv, NEW c \in Clients, CardsKept, UNCHANGED done,
         \/ \E e \in Events : Started(c, e)
         \/ \E pc : Continues(c, pc) /\ pc # "insert"
         \/ Ends(c)
  PROVE  OnceInv'
<1>1. /\ req'[c].pc # "insert" /\ overlap \subseteq overlap'
      /\ \A d \in Clients \ {c} : req'[d] = req[d]
  BY IdleRow DEF Started, Begins, Ends, Continues, OnlyMoves
<1>2. \A d \in done : d.token[1] \in Made' /\ cards'[d.token[1]].event = cards[d.token[1]].event
  BY DEF OnceInv, CardsKept
<1>3. \A d \in Clients : req'[d].pc = "insert" => req'[d] = req[d] /\ TokenOf(d)' = TokenOf(d)
  BY <1>1 DEF TokenOf
<1>4. QED
  BY <1>1, <1>2, <1>3 DEF OnceInv

(* A request goes on to insert a row if there is none of its token. *)
LEMMA OnceLook ==
  ASSUME BaseInv, OnceInv, NEW c \in Clients, Look(c)
  PROVE  OnceInv'
<1>1. UNCHANGED <<cards, done>> /\ CardsKept
  BY LookEffect, CardsSame
<1>2. CASE /\ GoesTo(c, "insert")
           /\ \A d \in done : d.system = req[c].system => d.token # TokenOf(c)
  <2>1. /\ req'[c].system = req[c].system /\ TokenOf(c)' = TokenOf(c) /\ overlap' = overlap
        /\ \A d \in Clients \ {c} : req'[d] = req[d]
    BY <1>2 DEF GoesTo, Continues, OnlyMoves, TokenOf
  <2>2. \A d \in Clients \ {c} : TokenOf(d)' = TokenOf(d)
    BY <2>1 DEF TokenOf
  <2>3. Made' = Made
    BY <1>1, CardsSame
  <2>4. QED
    BY <1>1, <1>2, <2>1, <2>2, <2>3 DEF OnceInv
<1>3. CASE Continues(c, "look") \/ Ends(c)
  BY <1>1, <1>3, OnceFrame
<1>4. QED
  BY <1>2, <1>3, LookEffect

(* The row is the first of its token, and whoever else is about to insert one *)
(* has another token, for it works on another event.                          *)
LEMMA OnceInsert ==
  ASSUME BaseInv, OnceInv, NEW c \in Clients, Insert(c)
  PROVE  OnceInv'
<1> DEFINE x == [system |-> req[c].system, token |-> TokenOf(c), call |-> req[c].call]
<1>1. /\ req[c].pc = "insert" /\ (Continues(c, "look") \/ Ends(c))
      /\ done' = done \cup {x} /\ UNCHANGED cards
  BY InsertEffect
<1>2. /\ req'[c].pc # "insert" /\ overlap' = overlap
      /\ \A d \in Clients \ {c} : req'[d] = req[d]
  BY <1>1, IdleRow DEF Ends, Continues, OnlyMoves
<1>3. Made' = Made
  BY <1>1, CardsSame
<1>4. x.system = req[c].system /\ x.token = TokenOf(c) /\ x.token[1] = req[c].card
  BY DEF TokenOf
<1> HIDE DEF x
<1>5. req[c].card \in Made /\ cards[req[c].card].event = req[c].event
  BY <1>1, RecordRow DEF Recorded
<1>6. \A d \in done' : d.token[1] \in Made'
  BY <1>1, <1>3, <1>4, <1>5 DEF OnceInv
<1>7. req[c].event \notin overlap =>
        \A d \in done : d.system = x.system => d.token # x.token
  BY <1>1, <1>4 DEF OnceInv
<1>8. \A d, y \in done' :
        cards[d.token[1]].event \notin overlap /\ y.system = d.system /\ y.token = d.token => y = d
  BY <1>1, <1>4, <1>5, <1>7 DEF OnceInv
<1>9. \A e \in Clients :
        req'[e].pc = "insert" /\ req'[e].event \notin overlap =>
          \A d \in done' : d.system = req'[e].system => d.token # TokenOf(e)'
  <2> TAKE e \in Clients
  <2> HAVE req'[e].pc = "insert" /\ req'[e].event \notin overlap
  <2>1. e # c /\ req'[e] = req[e] /\ TokenOf(e)' = TokenOf(e)
    BY <1>2 DEF TokenOf
  <2>2. \A d \in done : d.system = req[e].system => d.token # TokenOf(e)
    BY <2>1 DEF OnceInv
  <2>3. cards[req[e].card].event = req[e].event
    BY <2>1, RecordRow DEF Recorded
  <2>4. req[c].event # req[e].event
    BY <2>1, Alone
  <2>5. TokenOf(e) # x.token
    BY <1>4, <1>5, <2>3, <2>4 DEF TokenOf
  <2>6. QED
    BY <1>1, <2>1, <2>2, <2>5
<1>10. QED
  BY <1>1, <1>2, <1>6, <1>8, <1>9 DEF OnceInv

LEMMA OnceNext ==
  ASSUME BaseInv, OnceInv, [Next]_vars
  PROVE  OnceInv'
<1> USE PcFacts
<1>1. ASSUME NEW c \in Clients, Aside(c), CardsKept PROVE OnceInv'
  BY <1>1, OnceFrame DEF Aside
<1>2. ASSUME NEW c \in Clients, BeginStep(c) PROVE OnceInv'
  <2>1. PICK e \in Events : Started(c, e)
    BY <1>2, BeginKind
  <2>2. UNCHANGED <<cards, done>>
    BY <2>1 DEF Started
  <2>3. QED
    BY <2>1, <2>2, CardsSame, OnceFrame
<1>3. ASSUME NEW c \in Clients, ResponseKind(c) PROVE OnceInv'
  <2>1. UNCHANGED cards
    BY <1>3 DEF ResponseKind, ResponseStep, SubmitIngest, SaveReport, Reingest, Authenticate,
                MarkVerified, MarkRejected, CloseRead, CloseIngest, SaveClosure, ResponseFault,
                cardVars
  <2>2. QED
    BY <1>1, <1>3, <2>1, AsideResponse, CardsSame
<1>4. ASSUME NEW c \in Clients, CardKind(c) PROVE OnceInv'
  <2>1. CASE Recommend(c)
    BY <1>1, <2>1, AsideBuild, RecommendEffect, CardsSame
  <2>2. CASE SaveCard(c)
    <3>1. \E k \in CardIds : /\ k \notin Made /\ Made' = Made \cup {k}
                             /\ \A l \in CardIds \ {k} : cards'[l] = cards[l]
      BY <2>2, SaveCardEffect
    <3>2. CardsKept
      BY <3>1, RowFacts DEF CardsKept
    <3>3. QED
      BY <1>1, <2>2, <3>2, AsideBuild
  <2>3. CASE RecordApproval(c)
    BY <2>3, RecordEffect, CardsSame, OnceFrame DEF GoesTo
  <2>4. CASE LoadCard(c)
    BY <2>4, LoadEffect, CardsSame, OnceFrame
  <2>5. CASE UpdateCard(c)
    <3> DEFINE k == req[c].card
    <3>1. /\ Continues(c, "publish") /\ Made' = Made /\ UNCHANGED done
          /\ cards'[k].event = cards[k].event /\ \A l \in CardIds \ {k} : cards'[l] = cards[l]
      BY <2>5, UpdateEffect DEF GoesTo
    <3>2. CardsKept
      BY <3>1, RowFacts DEF CardsKept
    <3>3. QED
      BY <3>1, <3>2, OnceFrame
  <2>6. CASE PublishDecision(c)
    BY <2>6, PublishEffect, CardsSame, OnceFrame DEF GoesTo
  <2>7. CASE Look(c)
    BY <2>7, OnceLook
  <2>8. CASE Insert(c)
    BY <2>8, OnceInsert
  <2>9. CASE CardFault(c)
    BY <2>9, CardFaultEffect, CardsSame, OnceFrame
  <2>10. QED
    BY <1>4, <2>1, <2>2, <2>3, <2>4, <2>5, <2>6, <2>7, <2>8, <2>9 DEF CardKind, CardStep
<1>5. ASSUME WorldStep PROVE OnceInv'
  <2>1. UNCHANGED <<cards, done, req, overlap>>
    BY <1>5 DEF WorldStep
  <2>2. Made' = Made /\ \A c \in Clients : TokenOf(c)' = TokenOf(c)
    BY <2>1, CardsSame DEF TokenOf
  <2>3. QED
    BY <2>1, <2>2 DEF OnceInv
<1>6. QED
  BY <1>2, <1>3, <1>4, <1>5, NextCases

LEMMA OnceInit ==
  ASSUME Init
  PROVE  OnceInv
<1>1. req = [c \in Clients |-> Idle] /\ done = {}
  BY DEF Init, CardsInit
<1>2. \A c \in Clients : req[c].pc # "insert"
  BY <1>1, IdleRow
<1>3. QED
  BY <1>1, <1>2 DEF OnceInv

------------------------------------------------------------------------------
(* What is handed to M10. *)

(* While nothing raised and the gate stayed, a request goes on to M11 only    *)
(* after M10 and ends only with nothing left to hand to M10.                  *)
HandedTo(c) == \E d \in done : d.system = "m10" /\ d.token = TokenOf(c)

LEMMA HandedFrame ==
  ASSUME BaseInv, ExecutionInv, NEW c \in Clients,
         done \subseteq done', UNCHANGED gov, faults' = 0 => faults = 0,
         approvals' = approvals
           \/ (approvals' = approvals \cup {RecordOf(c)} /\ Continues(c, "load")),
         \/ \E e \in Events : Started(c, e)
         \/ /\ \E pc : Continues(c, pc)
            /\ \/ faults' # 0
               \/ req'[c].system = req[c].system
               \/ toggles = 0 => \E d \in done' : d.system = "m10" /\ d.token = TokenOf(c)
         \/ /\ Ends(c)
            /\ \/ faults' # 0 \/ req[c].pc \in Undecided \/ ~req[c].exec
               \/ toggles = 0 => \E d \in done' : d.system = "m10" /\ d.token = TokenOf(c)
  PROVE  HandedInv' /\ EnqueuedIsExecuted'
<1> USE PcFacts, IdleRow
<1> SUFFICES ASSUME faults' = 0, toggles' = 0
             PROVE  HandedInv' /\ EnqueuedIsExecuted'
  BY DEF HandedInv, EnqueuedIsExecuted
<1>1. /\ faults = 0 /\ toggles = 0
      /\ \A d \in Clients \ {c} : req'[d] = req[d] /\ TokenOf(d)' = TokenOf(d)
  BY DEF Started, Begins, Ends, Continues, OnlyMoves, TokenOf
<1>2. /\ \A d \in Clients : /\ req[d].exec => Gate(gov)
                            /\ req[d].system = "m11" => HandedTo(d)
      /\ \A a \in approvals : a.enqueued =>
           \/ \E d \in done : d.system = "m10" /\ d.token = a.token
           \/ \E d \in Clients : req[d].call = a.call
  BY <1>1 DEF ExecutionInv, HandedInv, EnqueuedIsExecuted, HandedTo
<1>3. Gate(gov)' = Gate(gov)
  BY DEF Gate
<1>4. \A d \in Clients \ {c} : /\ req'[d].exec => Gate(gov)'
                               /\ req'[d].system = "m11" => HandedTo(d)'
  BY <1>1, <1>2, <1>3 DEF HandedTo
<1>5. \A a \in approvals : a.call >= 1 /\ a.call # 0
  BY DEF ExecutionInv, ApprovalInv
<1>6. CASE \E e \in Events : Started(c, e)
  <2>1. /\ req[c].call = 0 /\ req'[c].system = "m10" /\ approvals' = approvals
        /\ req'[c].exec => Gate(gov)
    BY <1>6 DEF Started, Begins, BaseInv, RequestInv
  <2>2. HandedInv'
    BY <1>3, <1>4, <2>1 DEF HandedInv, HandedTo
  <2>3. EnqueuedIsExecuted'
    BY <1>1, <1>2, <1>5, <2>1 DEF EnqueuedIsExecuted
  <2>4. QED
    BY <2>2, <2>3
<1>7. CASE /\ \E pc : Continues(c, pc)
           /\ \/ faults' # 0
              \/ req'[c].system = req[c].system
              \/ toggles = 0 => \E d \in done' : d.system = "m10" /\ d.token = TokenOf(c)
  <2>1. /\ req'[c].call = req[c].call /\ req'[c].exec = req[c].exec /\ TokenOf(c)' = TokenOf(c)
    BY <1>7 DEF Continues, TokenOf
  <2>2. req'[c].system = "m11" => HandedTo(c)'
    BY <1>1, <1>2, <1>7, <2>1 DEF HandedTo
  <2>3. HandedInv'
    BY <1>2, <1>3, <1>4, <2>1, <2>2 DEF HandedInv, HandedTo
  <2>4. RecordOf(c).call = req[c].call
    BY DEF RecordOf
  <2>5. EnqueuedIsExecuted'
    BY <1>1, <1>2, <2>1, <2>4 DEF EnqueuedIsExecuted
  <2>6. QED
    BY <2>3, <2>5
<1>8. CASE /\ Ends(c)
           /\ \/ faults' # 0 \/ req[c].pc \in Undecided \/ ~req[c].exec
              \/ toggles = 0 => \E d \in done' : d.system = "m10" /\ d.token = TokenOf(c)
  <2>1. req'[c] = Idle /\ req[c].pc # "idle" /\ approvals' = approvals
    BY <1>8 DEF Ends, Continues
  <2>2. HandedInv'
    BY <1>3, <1>4, <2>1 DEF HandedInv, HandedTo
  <2>3. ASSUME NEW a \in approvals, a.enqueued, req[c].call = a.call
        PROVE  \E d \in done' : d.system = "m10" /\ d.token = a.token
    <3>1. req[c].pc \notin Undecided
      BY <2>3 DEF ExecutionInv, ApprovalInv
    <3>2. req[c].pc \in Recorded
      BY <2>1, <3>1 DEF BaseInv, RequestInv, RequestRow
    <3>3. RecordOf(c) \in approvals /\ RecordOf(c).call = req[c].call
      BY <3>2 DEF ExecutionInv, ApprovalInv, RecordOf
    <3>4. a = RecordOf(c)
      BY <2>3, <3>3 DEF ExecutionInv, ApprovalInv
    <3>5. a.enqueued = req[c].exec /\ a.token = TokenOf(c)
      BY <3>4 DEF RecordOf
    <3>6. QED
      BY <1>1, <1>8, <2>3, <3>1, <3>5
  <2>4. EnqueuedIsExecuted'
    BY <1>1, <1>2, <2>1, <2>3 DEF EnqueuedIsExecuted
  <2>5. QED
    BY <2>2, <2>4
<1>9. QED
  BY <1>6, <1>7, <1>8

LEMMA HandedNext ==
  ASSUME BaseInv, ExecutionInv, [Next]_vars
  PROVE  HandedInv' /\ EnqueuedIsExecuted'
<1> USE PcFacts
<1>0. faults \in Nat
  BY DEF BaseInv, TypeOK
<1>1. ASSUME NEW c \in Clients, Aside(c) PROVE HandedInv' /\ EnqueuedIsExecuted'
  <2>1. /\ UNCHANGED <<approvals, done, gov>> /\ (faults' = 0 => faults = 0)
        /\ \/ Ends(c) /\ req[c].pc \in Undecided
           \/ (\E pc : Continues(c, pc)) /\ req'[c].system = req[c].system
    BY <1>0, <1>1 DEF Aside
  <2>2. QED
    BY <2>1, HandedFrame
<1>2. ASSUME NEW c \in Clients, BeginStep(c) PROVE HandedInv' /\ EnqueuedIsExecuted'
  <2>1. PICK e \in Events : Started(c, e)
    BY <1>2, BeginKind
  <2>2. UNCHANGED <<approvals, done, gov, faults>>
    BY <2>1 DEF Started, Begins
  <2>3. QED
    BY <2>1, <2>2, HandedFrame
<1>3. ASSUME NEW c \in Clients, ResponseKind(c) PROVE HandedInv' /\ EnqueuedIsExecuted'
  BY <1>1, <1>3, AsideResponse
<1>4. ASSUME NEW c \in Clients, CardKind(c) PROVE HandedInv' /\ EnqueuedIsExecuted'
  <2>1. CASE Recommend(c) \/ SaveCard(c)
    BY <1>1, <2>1, AsideBuild
  <2>2. CASE RecordApproval(c)
    <3>1. /\ Continues(c, "load") /\ req'[c].system = req[c].system
          /\ approvals' = approvals \cup {RecordOf(c)} /\ UNCHANGED <<done, gov, faults>>
      BY <2>2, RecordEffect DEF GoesTo
    <3>2. QED
      BY <3>1, HandedFrame
  <2>3. CASE LoadCard(c)
    <3>1. /\ Continues(c, "update") /\ req'[c].system = req[c].system
          /\ UNCHANGED <<approvals, done, gov, faults>>
      BY <2>3, LoadEffect
    <3>2. QED
      BY <3>1, HandedFrame
  <2>4. CASE UpdateCard(c)
    <3>1. /\ Continues(c, "publish") /\ req'[c].system = req[c].system
          /\ UNCHANGED <<approvals, done, gov, faults>>
      BY <2>4, UpdateEffect DEF GoesTo
    <3>2. QED
      BY <3>1, HandedFrame
  <2>5. CASE PublishDecision(c)
    <3>1. /\ \/ Continues(c, "look") /\ req'[c].system = req[c].system
             \/ Ends(c) /\ ~req[c].exec
          /\ UNCHANGED <<approvals, done, gov, faults>>
      BY <2>5, PublishEffect DEF GoesTo
    <3>2. QED
      BY <3>1, HandedFrame
  <2>6. CASE Look(c)
    <3>1. /\ req[c].pc = "look"
          /\ \/ Continues(c, "insert") /\ req'[c].system = req[c].system
             \/ /\ \/ Continues(c, "look") /\ req[c].system = "m10" /\ req'[c].system = "m11"
                   \/ Ends(c)
                /\ \/ ~Admits(req[c].system)
                   \/ \E d \in done : d.system = req[c].system /\ d.token = TokenOf(c)
          /\ UNCHANGED <<approvals, done, gov, faults>>
      BY <2>6, LookEffect DEF GoesTo
    <3>2. req[c].exec /\ req[c].system \in {"m10", "m11"}
      BY <3>1, LookExec DEF BaseInv, RequestInv, RequestRow
    <3>3. ASSUME faults = 0, toggles = 0,
                 \/ ~Admits(req[c].system)
                 \/ \E d \in done : d.system = req[c].system /\ d.token = TokenOf(c)
          PROVE  HandedTo(c)
      <4>1. Gate(gov) /\ (req[c].system = "m11" => HandedTo(c))
        BY <3>2, <3>3 DEF ExecutionInv, HandedInv, HandedTo
      <4>2. req[c].system = "m10" => Admits(req[c].system)
        BY <4>1 DEF Admits
      <4>3. QED
        BY <3>2, <3>3, <4>1, <4>2 DEF HandedTo
    <3>4. /\ UNCHANGED <<approvals, done, gov, faults>>
          /\ \/ Continues(c, "insert") /\ req'[c].system = req[c].system
             \/ /\ Continues(c, "look") \/ Ends(c)
                /\ \/ faults' # 0
                   \/ toggles = 0 => HandedTo(c)
      BY <3>1, <3>3
    <3>5. QED
      BY <3>4, HandedFrame DEF HandedTo
  <2>7. CASE Insert(c)
    <3>1. /\ req[c].pc = "insert"
          /\ Continues(c, "look") \/ Ends(c)
          /\ done' = done \cup {[system |-> req[c].system, token |-> TokenOf(c),
                                 call |-> req[c].call]}
          /\ UNCHANGED <<approvals, gov, faults>>
      BY <2>7, InsertEffect
    <3>2. req[c].system \in {"m10", "m11"}
      BY DEF BaseInv, RequestInv, RequestRow
    <3>3. ASSUME faults = 0, toggles = 0
          PROVE  \E d \in done' : d.system = "m10" /\ d.token = TokenOf(c)
      <4>1. CASE req[c].system = "m10"
        <5> DEFINE x == [system |-> req[c].system, token |-> TokenOf(c), call |-> req[c].call]
        <5>1. x.system = "m10" /\ x.token = TokenOf(c) /\ x \in done'
          BY <3>1, <4>1
        <5> HIDE DEF x
        <5>2. QED
          BY <5>1
      <4>2. CASE req[c].system = "m11"
        BY <3>1, <3>3, <4>2 DEF ExecutionInv, HandedInv
      <4>3. QED
        BY <3>2, <4>1, <4>2
    <3>4. /\ UNCHANGED <<approvals, gov, faults>> /\ done \subseteq done'
          /\ Continues(c, "look") \/ Ends(c)
          /\ \/ faults' # 0
             \/ toggles = 0 => \E d \in done' : d.system = "m10" /\ d.token = TokenOf(c)
      BY <3>1, <3>3
    <3>5. QED
      BY <3>4, HandedFrame
  <2>8. CASE CardFault(c)
    <3>1. faults' # 0
      BY <1>0, <2>8, CardFaultEffect
    <3>2. QED
      BY <3>1 DEF HandedInv, EnqueuedIsExecuted
  <2>9. QED
    BY <1>4, <2>1, <2>2, <2>3, <2>4, <2>5, <2>6, <2>7, <2>8 DEF CardKind, CardStep
<1>5. ASSUME WorldStep PROVE HandedInv' /\ EnqueuedIsExecuted'
  <2>1. CASE toggles' \in 1..MaxToggles
    BY <2>1 DEF HandedInv, EnqueuedIsExecuted
  <2>2. CASE gov' = gov /\ toggles' = toggles
    <3>1. UNCHANGED <<gov, toggles, faults, req, done, approvals>>
      BY <1>5, <2>2 DEF WorldStep
    <3>2. \A c \in Clients : TokenOf(c)' = TokenOf(c)
      BY <3>1 DEF TokenOf
    <3>3. HandedInv'
      BY <3>1, <3>2 DEF ExecutionInv, HandedInv, Gate
    <3>4. EnqueuedIsExecuted'
      BY <3>1 DEF ExecutionInv, EnqueuedIsExecuted
    <3>5. QED
      BY <3>3, <3>4
  <2>3. QED
    BY <1>5, <2>1, <2>2 DEF WorldStep
<1>6. QED
  BY <1>2, <1>3, <1>4, <1>5, NextCases

LEMMA ExecutionNext ==
  ASSUME BaseInv, ExecutionInv, [Next]_vars
  PROVE  ExecutionInv'
<1>1. ApprovalInv'
  BY ApprovalNext DEF ExecutionInv
<1>2. QED
  BY <1>1, OnceNext, HandedNext DEF ExecutionInv

LEMMA ExecutionInit ==
  ASSUME Init
  PROVE  ExecutionInv
<1>1. req = [c \in Clients |-> Idle] /\ approvals = {}
  BY DEF Init, CardsInit
<1>2. \A c \in Clients : ~req[c].exec /\ req[c].system = "m10"
  BY <1>1, IdleRow
<1>3. HandedInv /\ EnqueuedIsExecuted
  BY <1>1, <1>2 DEF HandedInv, EnqueuedIsExecuted
<1>4. QED
  BY <1>3, ApprovalInit, OnceInit DEF ExecutionInv

(* A row has the approval of its call, and is the only one of its token.      *)
LEMMA RowsPerApproval ==
  ASSUME ApprovalInv, OnceInv
  PROVE  ExecutionFollowsApproval
BY DEF ApprovalInv, OnceInv, ExecutionFollowsApproval

------------------------------------------------------------------------------
(* Decisions. *)

(* A request that neither comes from the row of its card nor goes there       *)
(* leaves what was decided as it is.                                          *)
LEMMA DecisionFrame ==
  ASSUME BaseInv, ApprovalInv, DecisionInv, NEW c \in Clients,
         \A k \in Made : cards'[k] = cards[k],
         UNCHANGED approvals, faults' = 0 => faults = 0,
         faults' = 0 => req[c].pc \notin {"load", "update"},
         \/ \E e \in Events : Started(c, e)
         \/ \E pc : Continues(c, pc) /\ pc # "update"
         \/ Ends(c)
  PROVE  DecisionInv'
<1> USE PcFacts, IdleRow
<1>1. /\ \A d \in Clients \ {c} : req'[d] = req[d]
      /\ overlap \subseteq overlap'
  BY DEF Started, Begins, Ends, Continues, OnlyMoves
<1>2. \A a \in approvals : cards'[a.card] = cards[a.card] /\ a.call \in 1..calls
  BY DEF ApprovalInv
<1>3. \A d \in Clients : req[d].pc = "update" => cards'[req[d].card] = cards[req[d].card]
  BY RecordRow DEF Recorded
<1>4. /\ req'[c].pc # "update"
      /\ req'[c].pc # "idle" =>
           \/ req'[c].call = calls + 1
           \/ req[c].pc # "idle" /\ req'[c].call = req[c].call /\ req'[c].event = req[c].event
  BY DEF Started, Begins, Ends, Continues
<1>5. calls \in Nat
  BY DEF BaseInv, TypeOK
<1>6. \A d \in Clients :
        req'[d].pc # "idle" /\ req'[d].event \notin overlap' =>
          /\ \A a \in approvals : cards'[a.card].event = req'[d].event => a.call <= req'[d].call
          /\ req'[d].pc = "update" => req'[d].seen = cards'[req'[d].card].column
  <2> TAKE d \in Clients
  <2> HAVE req'[d].pc # "idle" /\ req'[d].event \notin overlap'
  <2>1. CASE d = c
    <3>1. CASE req'[c].call = calls + 1
      BY <1>2, <1>4, <1>5, <2>1, <3>1
    <3>2. CASE req[c].pc # "idle" /\ req'[c].call = req[c].call /\ req'[c].event = req[c].event
      BY <1>1, <1>2, <1>4, <2>1, <3>2 DEF DecisionInv
    <3>3. QED
      BY <1>4, <2>1, <3>1, <3>2
  <2>2. CASE d # c
    BY <1>1, <1>2, <1>3, <2>2 DEF DecisionInv
  <2>3. QED
    BY <2>1, <2>2
<1>7. ASSUME faults' = 0, NEW a \in approvals, cards'[a.card].event \notin overlap',
             \A b \in approvals : b.card = a.card => b.call <= a.call
      PROVE  \/ cards'[a.card].column = a.action /\ cards'[a.card].json = a.action
             \/ \E d \in Clients : req'[d].call = a.call /\ req'[d].pc \in {"load", "update"}
  <2>1. cards[a.card].event \notin overlap
    BY <1>1, <1>2, <1>7
  <2>2. \/ cards[a.card].column = a.action /\ cards[a.card].json = a.action
        \/ \E d \in Clients : req[d].call = a.call /\ req[d].pc \in {"load", "update"}
    BY <1>7, <2>1 DEF DecisionInv
  <2>3. \A d \in Clients : req[d].pc \in {"load", "update"} => d # c
    BY <1>7
  <2>4. QED
    BY <1>1, <1>2, <2>2, <2>3
<1>8. QED
  BY <1>6, <1>7 DEF DecisionInv

(* A new record is the latest, and its card is about to be updated. *)
LEMMA DecisionRecord ==
  ASSUME BaseInv, ApprovalInv, DecisionInv, NEW c \in Clients, RecordApproval(c)
  PROVE  DecisionInv'
<1> USE PcFacts
<1> DEFINE x == RecordOf(c)
<1>1. /\ GoesTo(c, "load") /\ req[c].pc = "record" /\ approvals' = approvals \cup {x}
      /\ UNCHANGED <<cards, faults>>
  BY RecordEffect
<1>2. /\ req'[c].pc = "load" /\ req'[c].call = req[c].call /\ req'[c].event = req[c].event
      /\ overlap' = overlap /\ \A d \in Clients \ {c} : req'[d] = req[d]
  BY <1>1 DEF GoesTo, Continues, OnlyMoves
<1>3. x.call = req[c].call /\ x.card = req[c].card /\ x.action = req[c].action
  BY DEF RecordOf
<1>4. cards[x.card].event = req[c].event
  BY <1>1, <1>3, RecordRow
<1> HIDE DEF x
<1>5. \A d \in Clients :
        req'[d].pc # "idle" /\ req'[d].event \notin overlap' =>
          /\ \A a \in approvals' : cards'[a.card].event = req'[d].event => a.call <= req'[d].call
          /\ req'[d].pc = "update" => req'[d].seen = cards'[req'[d].card].column
  <2> TAKE d \in Clients
  <2> HAVE req'[d].pc # "idle" /\ req'[d].event \notin overlap'
  <2>1. CASE d = c
    <3>1. req[c].call \in Nat
      BY <1>1, RecordRow DEF Recorded
    <3>2. QED
      BY <1>1, <1>2, <1>3, <2>1, <3>1 DEF DecisionInv
  <2>2. CASE d # c
    <3>1. req[d].event # req[c].event
      BY <1>1, <1>2, <2>2, Alone
    <3>2. QED
      BY <1>1, <1>2, <1>4, <2>2, <3>1 DEF DecisionInv
  <2>3. QED
    BY <2>1, <2>2
<1>6. ASSUME faults' = 0, NEW a \in approvals', cards'[a.card].event \notin overlap',
             \A b \in approvals' : b.card = a.card => b.call <= a.call
      PROVE  \/ cards'[a.card].column = a.action /\ cards'[a.card].json = a.action
             \/ \E d \in Clients : req'[d].call = a.call /\ req'[d].pc \in {"load", "update"}
  <2>1. CASE a = x
    BY <1>2, <1>3, <2>1
  <2>2. CASE a \in approvals
    <3>1. \/ cards[a.card].column = a.action /\ cards[a.card].json = a.action
          \/ \E d \in Clients : req[d].call = a.call /\ req[d].pc \in {"load", "update"}
      BY <1>1, <1>2, <1>6, <2>2 DEF DecisionInv
    <3>2. \A d \in Clients : req[d].pc \in {"load", "update"} => d # c
      BY <1>1
    <3>3. QED
      BY <1>1, <1>2, <3>1, <3>2
  <2>3. QED
    BY <1>1, <1>6, <2>1, <2>2
<1>7. QED
  BY <1>5, <1>6 DEF DecisionInv

(* Who loads the column sees what is there. *)
LEMMA DecisionLoad ==
  ASSUME BaseInv, ApprovalInv, DecisionInv, NEW c \in Clients, LoadCard(c)
  PROVE  DecisionInv'
<1>1. /\ Continues(c, "update") /\ req[c].pc = "load"
      /\ req'[c].seen = cards[req[c].card].column
      /\ UNCHANGED <<cards, approvals, faults>>
  BY LoadEffect
<1>2. /\ req'[c].pc = "update" /\ req'[c].call = req[c].call /\ req'[c].event = req[c].event
      /\ req'[c].card = req[c].card
      /\ overlap' = overlap /\ \A d \in Clients \ {c} : req'[d] = req[d]
  BY <1>1 DEF Continues, OnlyMoves
<1>3. \A d \in Clients :
        req'[d].pc # "idle" /\ req'[d].event \notin overlap' =>
          /\ \A a \in approvals' : cards'[a.card].event = req'[d].event => a.call <= req'[d].call
          /\ req'[d].pc = "update" => req'[d].seen = cards'[req'[d].card].column
  BY <1>1, <1>2 DEF DecisionInv
<1>4. \A a \in approvals :
        (\E d \in Clients : req[d].call = a.call /\ req[d].pc \in {"load", "update"}) =>
          \E d \in Clients : req'[d].call = a.call /\ req'[d].pc \in {"load", "update"}
  BY <1>2
<1>5. QED
  BY <1>1, <1>2, <1>3, <1>4 DEF DecisionInv

(* The update gives the card the status of the last decision, which is that   *)
(* of the request: no approval on the event is later.                         *)
LEMMA DecisionUpdate ==
  ASSUME BaseInv, ApprovalInv, DecisionInv, NEW c \in Clients, UpdateCard(c)
  PROVE  DecisionInv'
<1> USE PcFacts
<1> DEFINE k == req[c].card
           a == req[c].action
           x == RecordOf(c)
<1>1. /\ GoesTo(c, "publish") /\ req[c].pc = "update" /\ k \in Made
      /\ cards'[k].event = cards[k].event /\ cards'[k].json = a
      /\ cards'[k].column = IF req[c].seen = a THEN cards[k].column ELSE a
      /\ \A l \in CardIds \ {k} : cards'[l] = cards[l]
      /\ UNCHANGED <<approvals, faults>>
  BY UpdateEffect
<1>2. /\ req'[c].pc = "publish" /\ req'[c].call = req[c].call /\ req'[c].event = req[c].event
      /\ overlap' = overlap /\ \A d \in Clients \ {c} : req'[d] = req[d]
  BY <1>1 DEF GoesTo, Continues, OnlyMoves
<1>3. /\ x \in approvals /\ x.call = req[c].call /\ x.card = k /\ x.action = a
      /\ cards[k].event = req[c].event
  <2>1. x \in approvals /\ cards[k].event = req[c].event
    BY <1>1, RecordRow DEF ApprovalInv
  <2>2. QED
    BY <2>1 DEF RecordOf
<1> HIDE DEF k, a, x
<1>4. \A b \in approvals : b.card \in CardIds /\ cards'[b.card].event = cards[b.card].event
  BY <1>1, RowFacts DEF ApprovalInv
<1>5. \A d \in Clients :
        req'[d].pc # "idle" /\ req'[d].event \notin overlap' =>
          /\ \A b \in approvals' : cards'[b.card].event = req'[d].event => b.call <= req'[d].call
          /\ req'[d].pc = "update" => req'[d].seen = cards'[req'[d].card].column
  <2> TAKE d \in Clients
  <2> HAVE req'[d].pc # "idle" /\ req'[d].event \notin overlap'
  <2>1. CASE d = c
    BY <1>1, <1>2, <1>4, <2>1 DEF DecisionInv
  <2>2. CASE d # c
    <3>1. req[d].pc = "update" => req[d].card \in CardIds /\ req[d].card # k
      <4>1. req[d].event # req[c].event
        BY <1>1, <1>2, <2>2, Alone
      <4>2. req[d].pc = "update" =>
              req[d].card \in CardIds /\ cards[req[d].card].event = req[d].event
        BY RecordRow DEF Recorded
      <4>3. QED
        BY <1>3, <4>1, <4>2
    <3>2. QED
      BY <1>1, <1>2, <1>4, <2>2, <3>1 DEF DecisionInv
  <2>3. QED
    BY <2>1, <2>2
<1>6. ASSUME faults' = 0, NEW b \in approvals, cards'[b.card].event \notin overlap',
             \A y \in approvals : y.card = b.card => y.call <= b.call
      PROVE  \/ cards'[b.card].column = b.action /\ cards'[b.card].json = b.action
             \/ \E d \in Clients : req'[d].call = b.call /\ req'[d].pc \in {"load", "update"}
  <2>1. CASE b.card = k
    <3>1. req[c].event \notin overlap
      BY <1>2, <1>3, <1>4, <1>6, <2>1
    <3>2. /\ b.call <= req[c].call
          /\ req[c].seen = cards[k].column
      BY <1>1, <1>3, <2>1, <3>1 DEF DecisionInv, k
    <3>3. x.call <= b.call
      BY <1>3, <1>6, <2>1
    <3>4. b = x
      BY <1>3, <3>2, <3>3 DEF ApprovalInv
    <3>5. QED
      BY <1>1, <1>3, <3>2, <3>4
  <2>2. CASE b.card # k
    <3>1. \/ cards[b.card].column = b.action /\ cards[b.card].json = b.action
          \/ \E d \in Clients : req[d].call = b.call /\ req[d].pc \in {"load", "update"}
      BY <1>1, <1>2, <1>4, <1>6 DEF DecisionInv
    <3>2. \A d \in Clients : req[d].call = b.call => d # c
      BY <1>3, <2>2 DEF ApprovalInv
    <3>3. cards'[b.card] = cards[b.card]
      BY <1>1, <1>4, <2>2
    <3>4. QED
      BY <1>2, <3>1, <3>2, <3>3
  <2>3. QED
    BY <2>1, <2>2
<1>7. QED
  BY <1>1, <1>5, <1>6 DEF DecisionInv

LEMMA DecisionNext ==
  ASSUME BaseInv, ApprovalInv, DecisionInv, [Next]_vars
  PROVE  DecisionInv'
<1> USE PcFacts
<1>0. faults \in Nat
  BY DEF BaseInv, TypeOK
<1>1. ASSUME NEW c \in Clients, Aside(c), \A k \in Made : cards'[k] = cards[k]
      PROVE  DecisionInv'
  <2>1. /\ UNCHANGED approvals /\ (faults' = 0 => faults = 0)
        /\ req[c].pc \notin {"load", "update"}
        /\ Ends(c) \/ \E pc : Continues(c, pc) /\ pc # "update"
    BY <1>0, <1>1 DEF Aside
  <2>2. QED
    BY <1>1, <2>1, DecisionFrame
<1>2. ASSUME NEW c \in Clients, BeginStep(c) PROVE DecisionInv'
  <2>1. PICK e \in Events : Started(c, e)
    BY <1>2, BeginKind
  <2>2. UNCHANGED <<cards, approvals, faults>> /\ req[c].pc = "idle"
    BY <2>1 DEF Started, Begins
  <2>3. QED
    BY <2>1, <2>2, DecisionFrame
<1>3. ASSUME NEW c \in Clients, ResponseKind(c) PROVE DecisionInv'
  <2>1. UNCHANGED cards
    BY <1>3 DEF ResponseKind, ResponseStep, SubmitIngest, SaveReport, Reingest, Authenticate,
                MarkVerified, MarkRejected, CloseRead, CloseIngest, SaveClosure, ResponseFault,
                cardVars
  <2>2. QED
    BY <1>1, <1>3, <2>1, AsideResponse
<1>4. ASSUME NEW c \in Clients, CardKind(c) PROVE DecisionInv'
  <2>1. CASE Recommend(c)
    BY <1>1, <2>1, AsideBuild, RecommendEffect
  <2>2. CASE SaveCard(c)
    <3>1. \E k \in CardIds : /\ k \notin Made
                             /\ \A l \in CardIds \ {k} : cards'[l] = cards[l]
      BY <2>2, SaveCardEffect
    <3>2. \A k \in Made : cards'[k] = cards[k]
      BY <3>1, RowFacts
    <3>3. QED
      BY <1>1, <2>2, <3>2, AsideBuild
  <2>3. CASE RecordApproval(c)
    BY <2>3, DecisionRecord
  <2>4. CASE LoadCard(c)
    BY <2>4, DecisionLoad
  <2>5. CASE UpdateCard(c)
    BY <2>5, DecisionUpdate
  <2>6. CASE PublishDecision(c)
    <3>1. /\ req[c].pc = "publish" /\ UNCHANGED <<cards, approvals, faults>>
          /\ Continues(c, "look") \/ Ends(c)
      BY <2>6, PublishEffect DEF GoesTo
    <3>2. QED
      BY <3>1, DecisionFrame
  <2>7. CASE Look(c)
    <3>1. /\ req[c].pc = "look" /\ UNCHANGED <<cards, approvals, faults>>
          /\ Continues(c, "insert") \/ Continues(c, "look") \/ Ends(c)
      BY <2>7, LookEffect DEF GoesTo
    <3>2. QED
      BY <3>1, DecisionFrame
  <2>8. CASE Insert(c)
    <3>1. /\ req[c].pc = "insert" /\ UNCHANGED <<cards, approvals, faults>>
          /\ Continues(c, "look") \/ Ends(c)
      BY <2>8, InsertEffect
    <3>2. QED
      BY <3>1, DecisionFrame
  <2>9. CASE CardFault(c)
    <3>1. /\ UNCHANGED <<cards, approvals>> /\ faults' = faults + 1
          /\ Continues(c, "look") \/ Ends(c)
      BY <2>9, CardFaultEffect
    <3>2. faults' # 0
      BY <1>0, <3>1
    <3>3. QED
      BY <3>1, <3>2, DecisionFrame
  <2>10. QED
    BY <1>4, <2>1, <2>2, <2>3, <2>4, <2>5, <2>6, <2>7, <2>8, <2>9 DEF CardKind, CardStep
<1>5. ASSUME WorldStep PROVE DecisionInv'
  BY <1>5 DEF WorldStep, DecisionInv
<1>6. QED
  BY <1>2, <1>3, <1>4, <1>5, NextCases

LEMMA DecisionInit ==
  ASSUME Init
  PROVE  DecisionInv
<1>1. approvals = {} /\ \A c \in Clients : req[c].pc = "idle"
  BY IdleRow DEF Init, CardsInit
<1>2. QED
  BY <1>1 DEF DecisionInv

(* A request about to update the card of the last decision is on its event.   *)
LEMMA DecisionDone ==
  ASSUME BaseInv, ApprovalInv, DecisionInv
  PROVE  DecisionStands
<1> SUFFICES ASSUME faults = 0, NEW a \in approvals,
                    cards[a.card].event \notin overlap, ~Busy(cards[a.card].event),
                    \A b \in approvals : b.card = a.card => b.call <= a.call
             PROVE  cards[a.card].column = a.action /\ cards[a.card].json = a.action
  BY DEF DecisionStands
<1>1. ASSUME NEW c \in Clients, req[c].call = a.call, req[c].pc \in {"load", "update"}
      PROVE  FALSE
  <2>1. req[c].pc \in Recorded
    BY <1>1, PcFacts
  <2>2. /\ RecordOf(c) \in approvals /\ RecordOf(c).call = req[c].call
        /\ RecordOf(c).card = req[c].card
    BY <2>1 DEF ApprovalInv, RecordOf
  <2>3. a = RecordOf(c)
    BY <1>1, <2>2 DEF ApprovalInv
  <2>4. cards[a.card].event = req[c].event
    BY <2>1, <2>2, <2>3, RecordRow
  <2>5. QED
    BY <2>4 DEF Busy
<1>2. QED
  BY <1>1 DEF DecisionInv

------------------------------------------------------------------------------
(* Events that are there. *)

(* No step removes an event or a report. *)
Kept ==
  /\ \A e \in Events : ev[e].status # "absent" => ev'[e].status # "absent"
  /\ \A r \in Reports : report[r].status # "none" => report'[r].status # "none"

Places == BuildPcs \cup ClosePcs \cup {"quoted", "authenticate", "verified"}

LEMMA PresentAfter ==
  ASSUME BaseInv, PresentInv, NEW c \in Clients, OnlyMoves(c), Kept,
         req'[c].pc \in Places => ev'[req'[c].event].status # "absent",
         req'[c].pc = "refuse" => report'[req'[c].event].status # "none",
         \A k \in Made' : (k \in Made /\ cards'[k].event = cards[k].event)
                            \/ ev'[cards'[k].event].status # "absent",
         \A r \in Reports : /\ report'[r].event # NoEvent => ev'[r].status # "absent"
                            /\ report'[r].status = "verified" => report'[r].event # NoEvent,
         \A e \in Events : closures'[e] > 0 => ev'[e].status # "absent"
  PROVE  PresentInv'
<1>1. \A d \in Clients \ {c} : req'[d] = req[d]
  BY DEF OnlyMoves
<1>2. \A d \in Clients : req[d].pc # "idle" => req[d].event \in Events
  BY DEF BaseInv, RequestInv
<1>3. \A pc \in Places \cup {"refuse"} : pc # "idle"
  BY DEF Places, BuildPcs, ClosePcs
<1>4. \A d \in Clients : req'[d].pc \in Places => ev'[req'[d].event].status # "absent"
  <2>1. \A d \in Clients : req[d].pc \in Places =>
          req[d].event \in Events /\ ev[req[d].event].status # "absent"
    BY <1>2, <1>3 DEF PresentInv, Places
  <2>2. \A d \in Clients \ {c} : req'[d].pc \in Places => ev'[req'[d].event].status # "absent"
    BY <1>1, <2>1 DEF Kept
  <2>3. QED
    BY <2>2
<1>5. \A d \in Clients : req'[d].pc = "refuse" => report'[req'[d].event].status # "none"
  <2>1. \A d \in Clients : req[d].pc = "refuse" => req[d].event \in Reports
    BY DEF BaseInv, RequestInv, ReportPcs
  <2>2. QED
    BY <1>1, <2>1 DEF PresentInv, Kept
<1>6. \A k \in Made' : ev'[cards'[k].event].status # "absent"
  <2>1. \A k \in Made : cards[k].event \in Events /\ ev[cards[k].event].status # "absent"
    BY RowFacts DEF PresentInv
  <2>2. QED
    BY <2>1 DEF Kept
<1>7. QED
  BY <1>4, <1>5, <1>6 DEF PresentInv, Places

LEMMA PlaceFacts ==
  /\ {"recommend", "card", "event", "close", "closure", "quoted", "authenticate", "verified"} = Places
  /\ \A pc \in {"idle", "submit", "unquoted", "reingest", "refuse", "record"} \cup Recorded :
       pc \notin Places
  /\ "refuse" \notin Recorded
BY DEF Places, BuildPcs, ClosePcs, Recorded

(* What the reports, the cards and the closures say of present events. *)
LEMMA PresentRows ==
  ASSUME PresentInv
  PROVE  /\ \A r \in Reports : /\ report[r].event # NoEvent => ev[r].status # "absent"
                               /\ report[r].status = "verified" => report[r].event # NoEvent
         /\ \A e \in Events : closures[e] > 0 => ev[e].status # "absent"
BY DEF PresentInv

(* The events, the reports and the closures stay. *)
LEMMA PresentFrame ==
  ASSUME BaseInv, PresentInv, NEW c \in Clients, OnlyMoves(c),
         UNCHANGED <<ev, report, closures>>,
         \A k \in Made' : k \in Made /\ cards'[k].event = cards[k].event,
         req'[c].pc \in Places => req[c].pc \in Places /\ req'[c].event = req[c].event,
         req'[c].pc # "refuse"
  PROVE  PresentInv'
<1>1. Kept
  BY DEF Kept
<1>2. req'[c].pc \in Places => ev'[req'[c].event].status # "absent"
  BY DEF PresentInv, Places
<1>3. QED
  BY <1>1, <1>2, PresentRows, PresentAfter

LEMMA PresentBegin ==
  ASSUME BaseInv, PresentInv, NEW c \in Clients, NEW e \in Events, Started(c, e)
  PROVE  PresentInv'
<1> USE PlaceFacts
<1>1. OnlyMoves(c) /\ req'[c].event = e /\ UNCHANGED <<ev, cards, report, closures>>
  BY DEF Started, Begins
<1>2. Kept
  BY <1>1 DEF Kept
<1>3. req'[c].pc \in Places => ev'[e].status # "absent"
  BY <1>1, PresentRows DEF Started
<1>4. req'[c].pc = "refuse" => report'[e].status # "none"
  BY DEF Started
<1>5. \A k \in Made' : k \in Made /\ cards'[k].event = cards[k].event
  BY <1>1, CardsSame
<1>6. QED
  BY <1>1, <1>2, <1>3, <1>4, <1>5, PresentRows, PresentAfter

LEMMA PresentCard ==
  ASSUME BaseInv, PresentInv, NEW c \in Clients, CardKind(c)
  PROVE  PresentInv'
<1> USE PlaceFacts, IdleRow
<1>1. UNCHANGED <<report, closures>>
  BY DEF CardKind
<1>2. ASSUME UNCHANGED <<ev, cards>>,
             Ends(c) \/ \E pc \in Recorded : Continues(c, pc)
      PROVE  PresentInv'
  <2>1. OnlyMoves(c) /\ req'[c].pc \notin Places /\ req'[c].pc # "refuse"
    BY <1>2 DEF Ends, Continues
  <2>2. \A k \in Made' : k \in Made /\ cards'[k].event = cards[k].event
    BY <1>2, CardsSame
  <2>3. QED
    BY <1>1, <1>2, <2>1, <2>2, PresentFrame
<1>3. "load" \in Recorded /\ "update" \in Recorded /\ "look" \in Recorded /\ "insert" \in Recorded
  BY DEF Recorded
<1>4. CASE Recommend(c)
  <2>1. /\ OnlyMoves(c) /\ req[c].pc = "recommend" /\ req'[c].pc = "card"
        /\ req'[c].event = req[c].event /\ UNCHANGED <<ev, cards>>
    BY <1>4, RecommendEffect DEF Continues
  <2>2. QED
    BY <1>1, <2>1, CardsSame, PresentFrame
<1>5. CASE SaveCard(c)
  <2>1. PICK k \in CardIds : /\ k \notin Made /\ Made' = Made \cup {k}
                             /\ cards'[k].event = req[c].event
                             /\ \A l \in CardIds \ {k} : cards'[l] = cards[l]
    BY <1>5, SaveCardEffect
  <2>2. OnlyMoves(c) /\ req[c].pc = "card" /\ req'[c].pc = "idle" /\ UNCHANGED ev
    BY <1>5, SaveCardEffect DEF Ends
  <2>3. ev'[req[c].event].status # "absent"
    BY <2>2 DEF PresentInv, BuildPcs
  <2>4. Kept
    BY <1>1, <2>2 DEF Kept
  <2>5. \A l \in Made' : (l \in Made /\ cards'[l].event = cards[l].event)
                            \/ ev'[cards'[l].event].status # "absent"
    BY <2>1, <2>3, RowFacts
  <2>6. QED
    BY <1>1, <2>2, <2>4, <2>5, PresentRows, PresentAfter
<1>6. CASE RecordApproval(c)
  BY <1>2, <1>3, <1>6, RecordEffect DEF GoesTo
<1>7. CASE LoadCard(c)
  BY <1>2, <1>3, <1>7, LoadEffect
<1>8. CASE UpdateCard(c)
  <2> DEFINE k == req[c].card
  <2>1. /\ OnlyMoves(c) /\ req'[c].pc = "publish" /\ Made' = Made
        /\ cards'[k].event = cards[k].event /\ \A l \in CardIds \ {k} : cards'[l] = cards[l]
        /\ UNCHANGED ev
    BY <1>8, UpdateEffect DEF GoesTo, Continues
  <2>2. \A l \in Made' : l \in Made /\ cards'[l].event = cards[l].event
    BY <2>1, RowFacts
  <2>3. "publish" \notin Places
    BY DEF Recorded
  <2>4. QED
    BY <1>1, <2>1, <2>2, <2>3, PresentFrame
<1>9. CASE PublishDecision(c)
  BY <1>2, <1>3, <1>9, PublishEffect DEF GoesTo
<1>10. CASE Look(c)
  BY <1>2, <1>3, <1>10, LookEffect DEF GoesTo
<1>11. CASE Insert(c)
  BY <1>2, <1>3, <1>11, InsertEffect
<1>12. CASE CardFault(c)
  BY <1>2, <1>3, <1>12, CardFaultEffect
<1>13. QED
  BY <1>4, <1>5, <1>6, <1>7, <1>8, <1>9, <1>10, <1>11, <1>12 DEF CardKind, CardStep

(* An ingest stores the event; nothing is said of a report whose event it is  *)
(* but its status.                                                            *)
LEMMA PresentStored ==
  ASSUME BaseInv, PresentInv, NEW c \in Clients, req[c].event \in Events,
         NEW status \in {"active", "closed"}, NEW auth \in BOOLEAN,
         StoresEvent(req[c].event, status, auth), UNCHANGED <<cards, report, closures>>,
         (\E pc \in Places : GoesTo(c, pc)) \/ Raises(c)
  PROVE  PresentInv'
<1> USE PlaceFacts, IdleRow
<1>1. /\ ev'[req[c].event].status # "absent"
      /\ \A d \in Events \ {req[c].event} : ev'[d] = ev[d]
  BY DEF StoresEvent
<1>2. Kept
  BY <1>1 DEF Kept
<1>3. /\ OnlyMoves(c) /\ req'[c].pc # "refuse"
      /\ req'[c].pc \in Places => req'[c].event = req[c].event
  BY DEF GoesTo, Continues, Raises, Ends
<1>4. /\ \A r \in Reports : /\ report[r].event # NoEvent => ev'[r].status # "absent"
                            /\ report[r].status = "verified" => report[r].event # NoEvent
      /\ \A e \in Events : closures[e] > 0 => ev'[e].status # "absent"
  BY <1>1, PresentRows
<1>5. \A k \in Made' : k \in Made /\ cards'[k].event = cards[k].event
  BY CardsSame
<1>6. QED
  BY <1>1, <1>2, <1>3, <1>4, <1>5, PresentAfter

LEMMA PresentResponse ==
  ASSUME BaseInv, PresentInv, NEW c \in Clients, ResponseKind(c)
  PROVE  PresentInv'
<1> USE PlaceFacts, IdleRow
<1>1. UNCHANGED cards
  BY DEF ResponseKind, ResponseStep, SubmitIngest, SaveReport, Reingest, Authenticate,
         MarkVerified, MarkRejected, CloseRead, CloseIngest, SaveClosure, ResponseFault, cardVars
<1>2. \A k \in Made' : k \in Made /\ cards'[k].event = cards[k].event
  BY <1>1, CardsSame
<1>3. \A pc \in Places : req[c].pc = pc =>
        req[c].event \in Events /\ ev[req[c].event].status # "absent"
  BY DEF PresentInv, Places, BaseInv, RequestInv
<1>4. req[c].pc # "idle" => req[c].event \in Events
  BY DEF BaseInv, RequestInv
<1>5. CASE SubmitIngest(c)
  <2>1. req[c].event \in Events /\ UNCHANGED <<report, closures>>
    BY <1>4, <1>5, SubmitIngestEffect
  <2>2. CASE UNCHANGED ev /\ GoesTo(c, "unquoted")
    <3>1. OnlyMoves(c) /\ req'[c].pc = "unquoted"
      BY <2>2 DEF GoesTo, Continues
    <3>2. QED
      BY <1>2, <2>1, <2>2, <3>1, PresentFrame
  <2>3. CASE /\ StoresEvent(req[c].event, "active", FALSE)
             /\ GoesTo(c, "quoted") \/ Raises(c)
    BY <1>1, <2>1, <2>3, PresentStored
  <2>4. QED
    BY <1>5, <2>2, <2>3, SubmitIngestEffect
<1>6. CASE SaveReport(c)
  <2> DEFINE r == req[c].event
  <2>1. /\ OnlyMoves(c) /\ req'[c].pc = "idle" /\ r \in Reports
        /\ report'[r].status = "pending"
        /\ report'[r].event = IF req[c].pc = "quoted" THEN r ELSE NoEvent
        /\ \A s \in Reports \ {r} : report'[s] = report[s]
        /\ UNCHANGED <<ev, closures>>
    BY <1>6, SaveReportEffect DEF Ends
  <2>2. Kept
    BY <2>1 DEF Kept
  <2>3. \A s \in Reports : /\ report'[s].event # NoEvent => ev'[s].status # "absent"
                           /\ report'[s].status = "verified" => report'[s].event # NoEvent
    BY <1>3, <2>1, PresentRows
  <2>4. QED
    BY <1>2, <2>1, <2>2, <2>3, PresentRows, PresentAfter
<1>7. CASE Reingest(c)
  <2>1. CASE Ends(c) /\ UNCHANGED ev
    <3>1. OnlyMoves(c) /\ req'[c].pc = "idle" /\ UNCHANGED <<report, closures>>
      BY <1>7, <2>1, ReingestEffect DEF Ends
    <3>2. QED
      BY <1>2, <2>1, <3>1, PresentFrame
  <2>2. CASE StoresEvent(req[c].event, "active", FALSE) /\ (GoesTo(c, "authenticate") \/ Raises(c))
    <3>1. req[c].event \in Events /\ UNCHANGED <<report, closures>>
      BY <1>4, <1>7, ReingestEffect
    <3>2. QED
      BY <1>1, <2>2, <3>1, PresentStored
  <2>3. QED
    BY <1>7, <2>1, <2>2, ReingestEffect
<1>8. CASE Authenticate(c)
  <2> DEFINE e == req[c].event
  <2>1. /\ OnlyMoves(c) /\ req'[c].pc = "verified" /\ req'[c].event = e
        /\ req[c].pc = "authenticate"
        /\ ev'[e].status = ev[e].status /\ \A d \in Events \ {e} : ev'[d] = ev[d]
        /\ UNCHANGED <<report, closures>>
    BY <1>8, AuthenticateEffect DEF Continues
  <2>2. \A d \in Events : ev'[d].status = ev[d].status
    BY <2>1
  <2>3. Kept
    BY <2>1, <2>2 DEF Kept
  <2>4. ev'[e].status # "absent"
    BY <1>3, <2>1
  <2>5. /\ \A r \in Reports : /\ report'[r].event # NoEvent => ev'[r].status # "absent"
                              /\ report'[r].status = "verified" => report'[r].event # NoEvent
        /\ \A d \in Events : closures'[d] > 0 => ev'[d].status # "absent"
    BY <2>1, <2>2, PresentRows
  <2>6. QED
    BY <1>2, <2>1, <2>3, <2>4, <2>5, PresentAfter
<1>9. CASE MarkVerified(c)
  <2> DEFINE r == req[c].event
  <2>1. /\ OnlyMoves(c) /\ r \in Reports /\ req[c].pc = "verified"
        /\ req'[c].pc = "idle" \/ (req'[c].pc = "recommend" /\ req'[c].event = r)
        /\ report'[r].event = r /\ report'[r].status \in {report[r].status, "verified"}
        /\ \A s \in Reports \ {r} : report'[s] = report[s]
        /\ UNCHANGED <<ev, closures>>
    BY <1>9, MarkVerifiedEffect DEF Ends, Continues
  <2>2. Kept
    BY <2>1 DEF Kept
  <2>3. ev'[r].status # "absent"
    BY <1>3, <2>1
  <2>4. \A s \in Reports : /\ report'[s].event # NoEvent => ev'[s].status # "absent"
                           /\ report'[s].status = "verified" => report'[s].event # NoEvent
    BY <2>1, <2>3, PresentRows
  <2>5. QED
    BY <1>2, <2>1, <2>2, <2>3, <2>4, PresentRows, PresentAfter
<1>10. CASE MarkRejected(c)
  <2> DEFINE r == req[c].event
  <2>1. /\ OnlyMoves(c) /\ r \in Reports /\ req'[c].pc = "idle"
        /\ report'[r].event = report[r].event
        /\ report'[r].status \in {report[r].status, "rejected"}
        /\ \A s \in Reports \ {r} : report'[s] = report[s]
        /\ UNCHANGED <<ev, closures>>
    BY <1>10, MarkRejectedEffect DEF Ends
  <2>2. Kept
    BY <2>1 DEF Kept
  <2>3. \A s \in Reports : /\ report'[s].event # NoEvent => ev'[s].status # "absent"
                           /\ report'[s].status = "verified" => report'[s].event # NoEvent
    BY <2>1, PresentRows
  <2>4. QED
    BY <1>2, <2>1, <2>2, <2>3, PresentRows, PresentAfter
<1>11. CASE CloseRead(c)
  <2>1. /\ OnlyMoves(c) /\ req[c].pc = "event" /\ req'[c].pc = "close"
        /\ req'[c].event = req[c].event /\ UNCHANGED <<ev, report, closures>>
    BY <1>11, CloseReadEffect DEF Continues
  <2>2. QED
    BY <1>2, <2>1, PresentFrame
<1>12. CASE CloseIngest(c)
  <2>1. CASE Ends(c) /\ UNCHANGED ev
    <3>1. OnlyMoves(c) /\ req'[c].pc = "idle" /\ UNCHANGED <<report, closures>>
      BY <1>12, <2>1, CloseIngestEffect DEF Ends
    <3>2. QED
      BY <1>2, <2>1, <3>1, PresentFrame
  <2>2. CASE StoresEvent(req[c].event, "closed", req[c].auth) /\ (GoesTo(c, "closure") \/ Raises(c))
    <3>1. req[c].event \in Events /\ UNCHANGED <<report, closures>> /\ req[c].auth \in BOOLEAN
      BY <1>4, <1>12, CloseIngestEffect DEF BaseInv, RequestInv, RequestRow
    <3>2. QED
      BY <1>1, <2>2, <3>1, PresentStored
  <2>3. QED
    BY <1>12, <2>1, <2>2, CloseIngestEffect
<1>13. CASE SaveClosure(c)
  <2> DEFINE e == req[c].event
  <2>1. /\ OnlyMoves(c) /\ req[c].pc = "closure" /\ req'[c].pc = "idle" /\ e \in Events
        /\ \A d \in Events \ {e} : closures'[d] = closures[d]
        /\ UNCHANGED <<ev, report>>
    BY <1>13, SaveClosureEffect DEF Ends
  <2>2. Kept
    BY <2>1 DEF Kept
  <2>3. \A d \in Events : closures'[d] > 0 => ev'[d].status # "absent"
    BY <1>3, <2>1, PresentRows
  <2>4. QED
    BY <1>2, <2>1, <2>2, <2>3, PresentRows, PresentAfter
<1>14. CASE ResponseFault(c)
  <2>1. OnlyMoves(c) /\ req'[c].pc = "idle" /\ UNCHANGED <<ev, report, closures>>
    BY <1>14, ResponseFaultEffect DEF Raises, Ends
  <2>2. QED
    BY <1>2, <2>1, PresentFrame
<1>15. QED
  BY <1>5, <1>6, <1>7, <1>8, <1>9, <1>10, <1>11, <1>12, <1>13, <1>14
     DEF ResponseKind, ResponseStep

LEMMA PresentNext ==
  ASSUME BaseInv, PresentInv, [Next]_vars
  PROVE  PresentInv'
<1>1. ASSUME WorldStep PROVE PresentInv'
  <2>1. UNCHANGED <<ev, cards, req, report, closures>>
    BY <1>1 DEF WorldStep
  <2>2. Made' = Made
    BY <2>1, CardsSame
  <2>3. QED
    BY <2>1, <2>2 DEF PresentInv
<1>2. QED
  BY <1>1, NextCases, BeginKind, PresentBegin, PresentCard, PresentResponse

LEMMA PresentInit ==
  ASSUME Init
  PROVE  PresentInv
<1>1. /\ \A c \in Clients : req[c].pc = "idle"
      /\ \A r \in Reports : report[r].event = NoEvent /\ report[r].status = "none"
      /\ \A e \in Events : closures[e] = 0
  BY IdleRow DEF Init, CardsInit
<1>2. Made = {}
  BY DEF Init, CardsInit, Made, Exists, NoRow
<1>3. QED
  BY <1>1, <1>2 DEF PresentInv, BuildPcs, ClosePcs

------------------------------------------------------------------------------
(* Events that agree. *)

(* EventAgrees where only request c can be on e. *)
OwnAgrees(c, e) ==
  /\ req[c].event = e => RequestAgrees(c)
  /\ e \in Reports => /\ report[e].status = "verified" => ev[e].auth
                      /\ report[e].status # "none" /\ report[e].event = NoEvent =>
                           \/ ev[e].status = "absent"
                           \/ req[c].event = e /\ req[c].pc \in {"authenticate", "verified"}
  /\ \A k \in Made : cards[k].event = e /\ cards[k].dispatch # {} => ev[e].auth
  /\ closures[e] <= 1 /\ (closures[e] = 1 => ev[e].status = "closed")

LEMMA OwnIsAll ==
  ASSUME NEW c \in Clients, NEW e \in Events, \A d \in Clients \ {c} : req[d].event # e
  PROVE  OwnAgrees(c, e) <=> EventAgrees(e)
<1>1. (\E d \in Clients : req[d].event = e /\ req[d].pc \in {"authenticate", "verified"})
        <=> req[c].event = e /\ req[c].pc \in {"authenticate", "verified"}
  OBVIOUS
<1>2. (\A d \in Clients : req[d].event = e => RequestAgrees(d))
        <=> (req[c].event = e => RequestAgrees(c))
  OBVIOUS
<1>3. QED
  BY <1>1, <1>2 DEF OwnAgrees, EventAgrees, ReportAgrees

(* What an absent event rules out. *)
LEMMA AbsentEvent ==
  ASSUME BaseInv, PresentInv, NEW e \in Events, ev[e].status = "absent"
  PROVE  /\ e \in Reports => report[e].status # "verified" /\ report[e].event = NoEvent
         /\ \A k \in Made : cards[k].event # e
         /\ closures[e] = 0
<1>1. closures[e] \in Nat
  BY DEF BaseInv, TypeOK
<1>2. QED
  BY <1>1 DEF PresentInv

(* A step of a request about e leaves the other events as they are. *)
OnlyEvent(e) ==
  /\ \A d \in Events \ {e} : ev'[d] = ev[d] /\ closures'[d] = closures[d]
  /\ \A r \in Reports \ {e} : report'[r] = report[r]
  /\ \A k \in Made' : cards'[k].event # e =>
       k \in Made /\ cards[k].event = cards'[k].event /\ cards[k].dispatch = cards'[k].dispatch

LEMMA AgreeOthers ==
  ASSUME BaseInv, NEW c \in Clients, NEW e \in Events, NEW d \in Events \ {e},
         OnlyMoves(c), OnlyEvent(e),
         req[c].event # d, req'[c].event # d, EventAgrees(d)
  PROVE  EventAgrees(d)'
<1>1. \A x \in Clients \ {c} : req'[x] = req[x]
  BY DEF OnlyMoves
<1>2. ev'[d] = ev[d] /\ closures'[d] = closures[d] /\ (d \in Reports => report'[d] = report[d])
  BY DEF OnlyEvent
<1>3. \A x \in Clients : req'[x].event = d => RequestAgrees(x)'
  <2> SUFFICES ASSUME NEW x \in Clients, req'[x].event = d
               PROVE  RequestAgrees(x)'
    OBVIOUS
  <2>1. req'[x] = req[x] /\ req[x].event = d
    BY <1>1
  <2>2. RequestAgrees(x)
    BY <2>1 DEF EventAgrees
  <2>3. req[x].pc = "submit" => d \in Reports
    BY <2>1 DEF BaseInv, RequestInv, ReportPcs
  <2>4. QED
    BY <1>2, <2>1, <2>2, <2>3 DEF RequestAgrees
<1>4. d \in Reports => ReportAgrees(d)'
  <2>1. (\E x \in Clients : req[x].event = d /\ req[x].pc \in {"authenticate", "verified"}) =>
          \E x \in Clients : req'[x].event = d /\ req'[x].pc \in {"authenticate", "verified"}
    BY <1>1
  <2>2. QED
    BY <1>2, <2>1 DEF EventAgrees, ReportAgrees
<1>5. \A k \in Made' : cards'[k].event = d /\ cards'[k].dispatch # {} => ev'[d].auth
  BY <1>2 DEF EventAgrees, OnlyEvent
<1>6. QED
  BY <1>2, <1>3, <1>4, <1>5 DEF EventAgrees

LEMMA AgreeAfter ==
  ASSUME BaseInv, AgreeInv, NEW c \in Clients, NEW e \in Events, OnlyMoves(c), OnlyEvent(e),
         req[c].event \in {e, NoEvent}, req'[c].event \in {e, NoEvent},
         overlap \subseteq overlap', faults' = 0 => faults = 0,
         faults' = 0 /\ e \notin overlap' =>
           OwnAgrees(c, e)' /\ \A d \in Clients \ {c} : req'[d].event # e
  PROVE  AgreeInv'
<1> SUFFICES ASSUME faults' = 0, NEW d \in Events \ overlap'
             PROVE  EventAgrees(d)'
  BY DEF AgreeInv
<1>1. CASE d = e
  <2>1. OwnAgrees(c, e)' /\ \A x \in Clients \ {c} : req'[x].event # e
    BY <1>1
  <2>2. \A x \in Clients : req'[x].event = e => RequestAgrees(x)'
    BY <2>1 DEF OwnAgrees
  <2>3. e \in Reports => ReportAgrees(e)'
    BY <2>1 DEF OwnAgrees, ReportAgrees
  <2>4. QED
    BY <1>1, <2>1, <2>2, <2>3 DEF OwnAgrees, EventAgrees
<1>2. CASE d # e
  <2>1. EventAgrees(d)
    BY DEF AgreeInv
  <2>2. QED
    BY <1>2, <2>1, IdleRow, AgreeOthers
<1>3. QED
  BY <1>1, <1>2

(* A step of a request on e keeps the agreement if it does so where no other  *)
(* request is on e and nothing raised.                                        *)
LEMMA AgreeStep ==
  ASSUME BaseInv, PresentInv, AgreeInv, NEW c \in Clients, NEW e \in Events, req[c].event = e,
         (\E pc : Continues(c, pc)) \/ Ends(c), OnlyEvent(e),
         faults' \in {faults, faults + 1},
         faults = 0 /\ faults' = 0 /\ OwnAgrees(c, e) => OwnAgrees(c, e)'
  PROVE  AgreeInv'
<1>1. /\ OnlyMoves(c) /\ req[c].pc # "idle" /\ overlap' = overlap
      /\ req'[c].event \in {e, NoEvent} /\ \A d \in Clients \ {c} : req'[d] = req[d]
  BY IdleRow DEF Continues, Ends, OnlyMoves
<1>2. faults' = 0 => faults = 0
  BY DEF BaseInv, TypeOK
<1>3. ASSUME faults' = 0, e \notin overlap'
      PROVE  OwnAgrees(c, e)' /\ \A d \in Clients \ {c} : req'[d].event # e
  <2>1. \A d \in Clients \ {c} : req[d].event # e
    BY <1>1, <1>3, Alone
  <2>2. EventAgrees(e)
    BY <1>1, <1>2, <1>3 DEF AgreeInv
  <2>3. OwnAgrees(c, e)
    BY <2>1, <2>2, OwnIsAll
  <2>4. QED
    BY <1>1, <1>2, <1>3, <2>1, <2>3
<1>4. QED
  BY <1>1, <1>2, <1>3, AgreeAfter

(* A request that starts finds what it says. *)
LEMMA AgreeBegin ==
  ASSUME BaseInv, PresentInv, AgreeInv, NEW c \in Clients, NEW e \in Events, Started(c, e)
  PROVE  AgreeInv'
<1>1. /\ OnlyMoves(c) /\ req'[c].event = e /\ req[c].event = NoEvent
      /\ UNCHANGED <<ev, cards, report, closures, faults>>
      /\ overlap' = IF Busy(e) THEN overlap \cup {e} ELSE overlap
      /\ \A d \in Clients \ {c} : req'[d] = req[d]
  BY IdleRow DEF Started, Begins, OnlyMoves, BaseInv, RequestInv
<1>2. Made' = Made
  BY <1>1, CardsSame
<1>3. OnlyEvent(e)
  BY <1>1, <1>2 DEF OnlyEvent
<1>4. ASSUME faults' = 0, e \notin overlap'
      PROVE  OwnAgrees(c, e)' /\ \A d \in Clients \ {c} : req'[d].event # e
  <2>1. ~Busy(e) /\ e \notin overlap
    BY <1>1, <1>4
  <2>2. \A d \in Clients : req[d].event # e
    BY <2>1 DEF Busy
  <2>3. EventAgrees(e)
    BY <1>1, <1>4, <2>1 DEF AgreeInv
  <2>4. OwnAgrees(c, e)
    BY <2>2, <2>3, OwnIsAll
  <2>5. e \in Reports /\ report[e].status # "none" /\ report[e].event = NoEvent =>
          ev[e].status = "absent"
    BY <2>2, <2>4 DEF OwnAgrees
  <2>6. RequestAgrees(c)'
    <3>1. req'[c].pc \in {"submit", "unquoted", "reingest"} => ev'[e].status = "absent"
      BY <1>1, <2>5 DEF Started
    <3>2. /\ req'[c].pc = "submit" => report'[e].status = "none"
          /\ req'[c].pc \notin {"verified", "card", "close", "closure"}
          /\ req'[c].pc = "recommend" => req'[c].auth = ev'[e].auth
      BY <1>1 DEF Started
    <3>3. req'[c].pc \in ClosePcs => closures'[e] = 0
      BY <1>1, <3>2 DEF Started, ClosePcs
    <3>4. QED
      BY <1>1, <3>1, <3>2, <3>3 DEF RequestAgrees
  <2>7. OwnAgrees(c, e)'
    BY <1>1, <1>2, <2>4, <2>5, <2>6 DEF OwnAgrees
  <2>8. QED
    BY <1>1, <2>2, <2>7
<1>5. QED
  BY <1>1, <1>3, <1>4, AgreeAfter

(* Places that say nothing of the event. *)
Silent == {"quoted", "authenticate", "refuse", "record"} \cup Recorded

LEMMA SilentFacts ==
  /\ \A pc \in Silent : /\ pc \notin {"submit", "unquoted", "reingest", "verified", "recommend",
                                      "card", "close", "closure"}
                        /\ pc \notin ClosePcs
  /\ "publish" \in Silent /\ \A pc \in Recorded : pc \in Silent
  /\ \A pc \in {"recommend", "card", "submit", "quoted", "unquoted", "reingest", "refuse", "event",
                "close", "closure"} \cup Recorded : pc \notin {"authenticate", "verified"}
BY DEF Silent, Recorded, ClosePcs

LEMMA AgreeCard ==
  ASSUME BaseInv, PresentInv, AgreeInv, NEW c \in Clients, CardKind(c)
  PROVE  AgreeInv'
<1> USE IdleRow, SilentFacts
<1>1. /\ UNCHANGED <<report, closures>> /\ faults \in Nat
  BY DEF CardKind, BaseInv, TypeOK
<1>2. req[c].pc # "idle"
  BY DEF CardKind, CardStep, CardFault, Recommend, SaveCard, RecordApproval, LoadCard, UpdateCard,
         PublishDecision, Look, Insert
<1>3. PICK e \in Events : req[c].event = e
  BY <1>2 DEF BaseInv, RequestInv
<1>4. ASSUME UNCHANGED ev, req[c].pc \in Recorded \cup {"record"},
             faults' \in {faults, faults + 1},
             \A k \in Made' : k \in Made /\ cards'[k].event = cards[k].event
                                         /\ cards'[k].dispatch = cards[k].dispatch,
             Ends(c) \/ \E pc \in Recorded : Continues(c, pc)
      PROVE  AgreeInv'
  <2>1. OnlyEvent(e)
    BY <1>1, <1>4 DEF OnlyEvent
  <2>2. req'[c].event = e => req'[c].pc \in Silent
    BY <1>4 DEF Ends, Continues
  <2>3. ASSUME OwnAgrees(c, e) PROVE OwnAgrees(c, e)'
    <3>1. req'[c].event = e => RequestAgrees(c)'
      BY <2>2 DEF RequestAgrees
    <3>2. req[c].pc \notin {"authenticate", "verified"}
      BY <1>4
    <3>3. QED
      BY <1>1, <1>4, <2>3, <3>1, <3>2 DEF OwnAgrees
  <2>4. QED
    BY <1>3, <1>4, <2>1, <2>3, AgreeStep
<1>5. ASSUME UNCHANGED cards
      PROVE  \A k \in Made' : k \in Made /\ cards'[k].event = cards[k].event
                                         /\ cards'[k].dispatch = cards[k].dispatch
  BY <1>5, CardsSame
<1>6. /\ {"load", "update", "publish", "look", "insert"} = Recorded
  BY DEF Recorded
<1>7. CASE Recommend(c)
  <2>1. /\ Continues(c, "card") /\ req[c].pc = "recommend"
        /\ req'[c].dispatch # {} => req[c].auth
        /\ UNCHANGED <<ev, cards, faults>>
    BY <1>7, RecommendEffect
  <2>2. OnlyEvent(e) /\ Made' = Made
    BY <1>1, <1>5, <2>1, CardsSame DEF OnlyEvent
  <2>3. ASSUME OwnAgrees(c, e) PROVE OwnAgrees(c, e)'
    <3>1. req[c].auth => ev[e].auth
      BY <1>3, <2>1, <2>3 DEF OwnAgrees, RequestAgrees
    <3>2. req'[c].pc = "card" /\ req'[c].event = e
      BY <1>3, <2>1 DEF Continues
    <3>3. RequestAgrees(c)'
      BY <2>1, <3>1, <3>2 DEF RequestAgrees, ClosePcs
    <3>4. QED
      BY <1>1, <2>1, <2>2, <2>3, <3>3 DEF OwnAgrees
  <2>4. QED
    BY <1>3, <2>1, <2>2, <2>3, AgreeStep
<1>8. CASE SaveCard(c)
  <2>1. PICK k \in CardIds : /\ k \notin Made /\ Made' = Made \cup {k}
                             /\ cards'[k].event = e
                             /\ cards'[k].dispatch = req[c].dispatch
                             /\ \A l \in CardIds \ {k} : cards'[l] = cards[l]
    BY <1>3, <1>8, SaveCardEffect
  <2>2. Ends(c) /\ req[c].pc = "card" /\ UNCHANGED <<ev, faults>>
    BY <1>8, SaveCardEffect
  <2>3. \A l \in Made : cards'[l] = cards[l]
    BY <2>1, RowFacts
  <2>4. OnlyEvent(e)
    BY <1>1, <2>1, <2>2, <2>3 DEF OnlyEvent
  <2>5. ASSUME OwnAgrees(c, e) PROVE OwnAgrees(c, e)'
    <3>1. req[c].dispatch # {} => ev[e].auth
      BY <1>3, <2>2, <2>5 DEF OwnAgrees, RequestAgrees
    <3>2. \A l \in Made' : cards'[l].event = e /\ cards'[l].dispatch # {} => ev'[e].auth
      BY <2>1, <2>2, <2>3, <2>5, <3>1 DEF OwnAgrees
    <3>3. req'[c].event # e
      BY <2>2 DEF Ends
    <3>4. QED
      BY <1>1, <2>2, <2>5, <3>2, <3>3 DEF OwnAgrees
  <2>6. QED
    BY <1>3, <2>2, <2>4, <2>5, AgreeStep
<1>9. CASE RecordApproval(c)
  BY <1>4, <1>5, <1>6, <1>9, RecordEffect DEF GoesTo
<1>10. CASE LoadCard(c)
  BY <1>4, <1>5, <1>6, <1>10, LoadEffect
<1>11. CASE UpdateCard(c)
  <2> DEFINE k == req[c].card
  <2>1. /\ Continues(c, "publish") /\ req[c].pc = "update" /\ Made' = Made
        /\ cards'[k].event = cards[k].event /\ cards'[k].dispatch = cards[k].dispatch
        /\ \A l \in CardIds \ {k} : cards'[l] = cards[l]
        /\ UNCHANGED <<ev, faults>>
    BY <1>11, UpdateEffect DEF GoesTo
  <2>2. \A l \in Made' : l \in Made /\ cards'[l].event = cards[l].event
                                    /\ cards'[l].dispatch = cards[l].dispatch
    BY <2>1, RowFacts
  <2>3. QED
    BY <1>4, <1>6, <2>1, <2>2
<1>12. CASE PublishDecision(c)
  BY <1>4, <1>5, <1>6, <1>12, PublishEffect DEF GoesTo
<1>13. CASE Look(c)
  BY <1>4, <1>5, <1>6, <1>13, LookEffect DEF GoesTo
<1>14. CASE Insert(c)
  BY <1>4, <1>5, <1>6, <1>14, InsertEffect
<1>15. CASE CardFault(c)
  <2>1. faults' # 0
    BY <1>1, <1>15, CardFaultEffect
  <2>2. QED
    BY <2>1 DEF AgreeInv
<1>16. QED
  BY <1>7, <1>8, <1>9, <1>10, <1>11, <1>12, <1>13, <1>14, <1>15 DEF CardKind, CardStep

(* What such a step has to show of its event: the request, the report, the    *)
(* cards, which stay, and the closures.                                       *)
AgreesAfter(c, e) ==
  /\ req'[c].event = e => RequestAgrees(c)'
  /\ e \in Reports =>
       /\ report'[e].status = "verified" => ev'[e].auth
       /\ report'[e].status # "none" /\ report'[e].event = NoEvent =>
            \/ ev'[e].status = "absent"
            \/ req'[c].event = e /\ req'[c].pc \in {"authenticate", "verified"}
  /\ ev'[e].auth = ev[e].auth \/ ev'[e].auth \/ \A k \in Made : cards[k].event # e
  /\ closures'[e] <= 1 /\ (closures'[e] = 1 => ev'[e].status = "closed")

LEMMA AgreeData ==
  ASSUME BaseInv, PresentInv, AgreeInv, NEW c \in Clients, NEW e \in Events, req[c].event = e,
         (\E pc : Continues(c, pc)) \/ Ends(c), UNCHANGED cards,
         faults' \in {faults, faults + 1},
         \A d \in Events \ {e} : ev'[d] = ev[d] /\ closures'[d] = closures[d],
         \A r \in Reports \ {e} : report'[r] = report[r],
         faults = 0 /\ faults' = 0 /\ OwnAgrees(c, e) => AgreesAfter(c, e)
  PROVE  AgreeInv'
<1>1. Made' = Made
  BY CardsSame
<1>2. OnlyEvent(e)
  BY <1>1 DEF OnlyEvent
<1>3. ASSUME faults = 0, faults' = 0, OwnAgrees(c, e) PROVE OwnAgrees(c, e)'
  <2>1. \A k \in Made' : cards'[k].event = e /\ cards'[k].dispatch # {} => ev'[e].auth
    BY <1>1, <1>3 DEF OwnAgrees, AgreesAfter
  <2>2. QED
    BY <1>3, <2>1 DEF OwnAgrees, AgreesAfter
<1>4. QED
  BY <1>2, <1>3, AgreeStep

LEMMA AgreeReport ==
  ASSUME BaseInv, PresentInv, AgreeInv, NEW c \in Clients,
         SubmitIngest(c) \/ SaveReport(c) \/ Reingest(c)
  PROVE  AgreeInv'
<1> USE IdleRow, SilentFacts
<1>1. UNCHANGED cards /\ req[c].pc # "idle" /\ faults \in Nat
  <2>1. UNCHANGED cards /\ req[c].pc # "idle"
    BY SubmitIngestEffect, SaveReportEffect, ReingestEffect
  <2>2. QED
    BY <2>1 DEF BaseInv, TypeOK
<1>2. PICK e \in Events : req[c].event = e
  BY <1>1 DEF BaseInv, RequestInv
<1>3. CASE SubmitIngest(c)
  <2>1. req[c].pc = "submit" /\ UNCHANGED <<report, closures>>
    BY <1>3, SubmitIngestEffect
  <2>2. ASSUME OwnAgrees(c, e)
        PROVE  /\ ev[e].status = "absent" /\ closures[e] = 0
               /\ \A k \in Made : cards[k].event # e
               /\ e \in Reports => report[e].status = "none"
    BY <1>2, <2>1, <2>2, AbsentEvent DEF OwnAgrees, RequestAgrees
  <2>3. CASE StoresEvent(e, "active", FALSE) /\ GoesTo(c, "quoted") /\ UNCHANGED faults
    <3>1. Continues(c, "quoted") /\ req'[c].pc = "quoted"
      BY <2>3 DEF GoesTo, Continues
    <3>2. RequestAgrees(c)'
      BY <3>1 DEF RequestAgrees, Silent
    <3>3. OwnAgrees(c, e) => AgreesAfter(c, e)
      BY <2>1, <2>2, <2>3, <3>2 DEF AgreesAfter, StoresEvent
    <3>4. \A d \in Events \ {e} : ev'[d] = ev[d]
      BY <2>3 DEF StoresEvent
    <3>5. QED
      BY <1>1, <1>2, <2>1, <2>3, <3>1, <3>3, <3>4, AgreeData
  <2>4. CASE UNCHANGED <<ev, faults>> /\ GoesTo(c, "unquoted")
    <3>1. Continues(c, "unquoted") /\ req'[c].pc = "unquoted" /\ req'[c].event = e
      BY <1>2, <2>4 DEF GoesTo, Continues
    <3>2. OwnAgrees(c, e) => RequestAgrees(c)'
      BY <2>1, <2>2, <2>4, <3>1 DEF RequestAgrees, ClosePcs
    <3>3. OwnAgrees(c, e) => AgreesAfter(c, e)
      BY <2>1, <2>2, <2>4, <3>2 DEF AgreesAfter
    <3>4. QED
      BY <1>1, <1>2, <2>1, <2>4, <3>1, <3>3, AgreeData
  <2>5. CASE Raises(c)
    BY <1>1, <2>5 DEF Raises, AgreeInv
  <2>6. QED
    BY <1>2, <1>3, <2>3, <2>4, <2>5, SubmitIngestEffect
<1>4. CASE SaveReport(c)
  <2>1. /\ Ends(c) /\ req[c].pc \in {"quoted", "unquoted"} /\ e \in Reports
        /\ report'[e].status = "pending"
        /\ report'[e].event = IF req[c].pc = "quoted" THEN e ELSE NoEvent
        /\ \A s \in Reports \ {e} : report'[s] = report[s]
        /\ UNCHANGED <<ev, faults, closures>>
    BY <1>2, <1>4, SaveReportEffect
  <2>2. req'[c].event # e
    BY <2>1 DEF Ends
  <2>3. OwnAgrees(c, e) /\ req[c].pc = "unquoted" => ev[e].status = "absent"
    BY <1>2 DEF OwnAgrees, RequestAgrees
  <2>4. OwnAgrees(c, e) => AgreesAfter(c, e)
    BY <2>1, <2>2, <2>3 DEF AgreesAfter, OwnAgrees
  <2>5. QED
    BY <1>1, <1>2, <2>1, <2>4, AgreeData
<1>5. CASE Reingest(c)
  <2>1. req[c].pc = "reingest" /\ UNCHANGED <<report, closures>>
    BY <1>5, ReingestEffect
  <2>2. ASSUME OwnAgrees(c, e)
        PROVE  /\ ev[e].status = "absent" /\ closures[e] = 0
               /\ \A k \in Made : cards[k].event # e
               /\ e \in Reports => report[e].status # "verified"
    BY <1>2, <2>1, <2>2, AbsentEvent DEF OwnAgrees, RequestAgrees
  <2>3. CASE StoresEvent(e, "active", FALSE) /\ GoesTo(c, "authenticate") /\ UNCHANGED faults
    <3>1. Continues(c, "authenticate") /\ req'[c].pc = "authenticate" /\ req'[c].event = e
      BY <1>2, <2>3 DEF GoesTo, Continues
    <3>2. RequestAgrees(c)'
      BY <3>1 DEF RequestAgrees, Silent
    <3>3. OwnAgrees(c, e) => AgreesAfter(c, e)
      BY <2>1, <2>2, <2>3, <3>1, <3>2 DEF AgreesAfter, StoresEvent
    <3>4. \A d \in Events \ {e} : ev'[d] = ev[d]
      BY <2>3 DEF StoresEvent
    <3>5. QED
      BY <1>1, <1>2, <2>1, <2>3, <3>1, <3>3, <3>4, AgreeData
  <2>4. CASE UNCHANGED <<ev, faults>> /\ Ends(c)
    <3>1. req'[c].event # e
      BY <2>4 DEF Ends
    <3>2. OwnAgrees(c, e) => AgreesAfter(c, e)
      BY <2>1, <2>2, <2>4, <3>1 DEF AgreesAfter
    <3>3. QED
      BY <1>1, <1>2, <2>1, <2>4, <3>2, AgreeData
  <2>5. CASE Raises(c)
    BY <1>1, <2>5 DEF Raises, AgreeInv
  <2>6. QED
    BY <1>2, <1>5, <2>3, <2>4, <2>5, ReingestEffect
<1>6. QED
  BY <1>3, <1>4, <1>5

LEMMA AgreeVerdict ==
  ASSUME BaseInv, PresentInv, AgreeInv, NEW c \in Clients,
         Authenticate(c) \/ MarkVerified(c) \/ MarkRejected(c)
  PROVE  AgreeInv'
<1> USE IdleRow, SilentFacts
<1>1. UNCHANGED cards /\ req[c].pc # "idle" /\ faults \in Nat
  BY DEF Authenticate, MarkVerified, MarkRejected, cardVars, BaseInv, TypeOK
<1>2. PICK e \in Events : req[c].event = e
  BY <1>1 DEF BaseInv, RequestInv
<1>3. CASE Authenticate(c)
  <2>1. /\ Continues(c, "verified") /\ req[c].pc = "authenticate"
        /\ ev'[e].auth /\ ev'[e].status = ev[e].status
        /\ \A d \in Events \ {e} : ev'[d] = ev[d]
        /\ UNCHANGED <<faults, report, closures>>
    BY <1>2, <1>3, AuthenticateEffect
  <2>2. req'[c].pc = "verified" /\ req'[c].event = e
    BY <1>2, <2>1 DEF Continues
  <2>3. RequestAgrees(c)'
    BY <2>1, <2>2 DEF RequestAgrees, ClosePcs
  <2>4. OwnAgrees(c, e) => AgreesAfter(c, e)
    BY <2>1, <2>2, <2>3 DEF AgreesAfter, OwnAgrees
  <2>5. QED
    BY <1>1, <1>2, <2>1, <2>4, AgreeData
<1>4. CASE MarkVerified(c)
  <2>1. /\ \/ Ends(c)
           \/ Continues(c, "recommend") /\ req'[c].auth = ev[e].auth
        /\ req[c].pc = "verified" /\ e \in Reports
        /\ report'[e].event = e
        /\ \A s \in Reports \ {e} : report'[s] = report[s]
        /\ UNCHANGED <<ev, faults, closures>>
    BY <1>2, <1>4, MarkVerifiedEffect
  <2>2. OwnAgrees(c, e) => ev[e].auth
    BY <1>2, <2>1 DEF OwnAgrees, RequestAgrees
  <2>3. req'[c].event = e =>
          req'[c].pc = "recommend" /\ req'[c].auth = ev[e].auth
    BY <2>1 DEF Ends, Continues
  <2>4. req'[c].event = e => RequestAgrees(c)'
    BY <2>1, <2>3 DEF RequestAgrees, ClosePcs
  <2>5. OwnAgrees(c, e) => AgreesAfter(c, e)
    BY <2>1, <2>2, <2>4 DEF AgreesAfter, OwnAgrees
  <2>6. QED
    BY <1>1, <1>2, <2>1, <2>5, AgreeData
<1>5. CASE MarkRejected(c)
  <2>1. /\ Ends(c) /\ req[c].pc = "refuse" /\ e \in Reports
        /\ report'[e].event = report[e].event
        /\ report'[e].status \in {report[e].status, "rejected"}
        /\ \A s \in Reports \ {e} : report'[s] = report[s]
        /\ UNCHANGED <<ev, faults, closures>>
    BY <1>2, <1>5, MarkRejectedEffect
  <2>2. req'[c].event # e /\ report[e].status # "none"
    BY <1>2, <2>1 DEF Ends, PresentInv
  <2>3. OwnAgrees(c, e) /\ report[e].event = NoEvent => ev[e].status = "absent"
    BY <2>1, <2>2 DEF OwnAgrees
  <2>4. OwnAgrees(c, e) => AgreesAfter(c, e)
    BY <2>1, <2>2, <2>3 DEF AgreesAfter, OwnAgrees
  <2>5. QED
    BY <1>1, <1>2, <2>1, <2>4, AgreeData
<1>6. QED
  BY <1>3, <1>4, <1>5

LEMMA AgreeClosure ==
  ASSUME BaseInv, PresentInv, AgreeInv, NEW c \in Clients,
         CloseRead(c) \/ CloseIngest(c) \/ SaveClosure(c)
  PROVE  AgreeInv'
<1> USE IdleRow, SilentFacts
<1>1. UNCHANGED cards /\ req[c].pc # "idle" /\ faults \in Nat
  BY DEF CloseRead, CloseIngest, SaveClosure, cardVars, BaseInv, TypeOK
<1>2. PICK e \in Events : req[c].event = e
  BY <1>1 DEF BaseInv, RequestInv
<1>3. ASSUME req[c].pc \in {"event", "close", "closure"}, OwnAgrees(c, e)
      PROVE  /\ ev[e].status # "absent" /\ closures[e] = 0
             /\ e \in Reports /\ report[e].status # "none" => report[e].event # NoEvent
  <2>1. ev[e].status # "absent"
    BY <1>2, <1>3 DEF PresentInv, ClosePcs
  <2>2. closures[e] = 0
    BY <1>2, <1>3 DEF OwnAgrees, RequestAgrees, ClosePcs
  <2>3. QED
    BY <1>3, <2>1, <2>2 DEF OwnAgrees
<1>4. CASE CloseRead(c)
  <2>1. /\ Continues(c, "close") /\ req[c].pc = "event" /\ req'[c].auth = ev[e].auth
        /\ UNCHANGED <<ev, faults, report, closures>>
    BY <1>2, <1>4, CloseReadEffect
  <2>2. req'[c].pc = "close" /\ req'[c].event = e
    BY <1>2, <2>1 DEF Continues
  <2>3. OwnAgrees(c, e) => RequestAgrees(c)'
    BY <1>3, <2>1, <2>2 DEF RequestAgrees
  <2>4. OwnAgrees(c, e) => AgreesAfter(c, e)
    BY <1>3, <2>1, <2>3 DEF AgreesAfter, OwnAgrees
  <2>5. QED
    BY <1>1, <1>2, <2>1, <2>4, AgreeData
<1>5. CASE CloseIngest(c)
  <2>1. req[c].pc = "close" /\ UNCHANGED <<report, closures>>
    BY <1>5, CloseIngestEffect
  <2>2. OwnAgrees(c, e) => req[c].auth = ev[e].auth
    BY <1>2, <2>1 DEF OwnAgrees, RequestAgrees
  <2>3. CASE StoresEvent(e, "closed", req[c].auth) /\ GoesTo(c, "closure") /\ UNCHANGED faults
    <3>1. Continues(c, "closure") /\ req'[c].pc = "closure" /\ req'[c].event = e
      BY <1>2, <2>3 DEF GoesTo, Continues
    <3>2. /\ ev'[e].status = "closed" /\ ev'[e].auth = req[c].auth
          /\ \A d \in Events \ {e} : ev'[d] = ev[d]
      BY <2>3 DEF StoresEvent
    <3>3. OwnAgrees(c, e) => RequestAgrees(c)'
      BY <1>3, <2>1, <3>1, <3>2 DEF RequestAgrees
    <3>4. OwnAgrees(c, e) => AgreesAfter(c, e)
      BY <1>3, <2>1, <2>2, <3>2, <3>3 DEF AgreesAfter, OwnAgrees
    <3>5. QED
      BY <1>1, <1>2, <2>1, <2>3, <3>1, <3>2, <3>4, AgreeData
  <2>4. CASE UNCHANGED <<ev, faults>> /\ Ends(c)
    <3>1. req'[c].event # e
      BY <2>4 DEF Ends
    <3>2. OwnAgrees(c, e) => AgreesAfter(c, e)
      BY <1>3, <2>1, <2>4, <3>1 DEF AgreesAfter, OwnAgrees
    <3>3. QED
      BY <1>1, <1>2, <2>1, <2>4, <3>2, AgreeData
  <2>5. CASE Raises(c)
    BY <1>1, <2>5 DEF Raises, AgreeInv
  <2>6. QED
    BY <1>2, <1>5, <2>3, <2>4, <2>5, CloseIngestEffect
<1>6. CASE SaveClosure(c)
  <2>1. /\ Ends(c) /\ req[c].pc = "closure"
        /\ \/ /\ closures'[e] = closures[e] + 1 /\ UNCHANGED faults
              /\ \A d \in Events \ {e} : closures'[d] = closures[d]
           \/ faults' = faults + 1
        /\ UNCHANGED <<ev, report>>
    BY <1>2, <1>6, SaveClosureEffect
  <2>2. req'[c].event # e
    BY <2>1 DEF Ends
  <2>3. OwnAgrees(c, e) => ev[e].status = "closed"
    BY <1>2, <2>1 DEF OwnAgrees, RequestAgrees
  <2>4. CASE faults' = faults + 1
    BY <1>1, <2>4 DEF AgreeInv
  <2>5. CASE /\ closures'[e] = closures[e] + 1 /\ UNCHANGED faults
             /\ \A d \in Events \ {e} : closures'[d] = closures[d]
    <3>1. OwnAgrees(c, e) => AgreesAfter(c, e)
      BY <1>3, <2>1, <2>2, <2>3, <2>5 DEF AgreesAfter, OwnAgrees
    <3>2. QED
      BY <1>1, <1>2, <2>1, <2>5, <3>1, AgreeData
  <2>6. QED
    BY <2>1, <2>4, <2>5
<1>7. QED
  BY <1>4, <1>5, <1>6

LEMMA AgreeNext ==
  ASSUME BaseInv, PresentInv, AgreeInv, [Next]_vars
  PROVE  AgreeInv'
<1>1. ASSUME NEW c \in Clients, ResponseFault(c) PROVE AgreeInv'
  <2>1. faults' # 0
    BY <1>1, ResponseFaultEffect DEF Raises, BaseInv, TypeOK
  <2>2. QED
    BY <2>1 DEF AgreeInv
<1>2. ASSUME NEW c \in Clients, ResponseKind(c) PROVE AgreeInv'
  BY <1>1, <1>2, AgreeReport, AgreeVerdict, AgreeClosure DEF ResponseKind, ResponseStep
<1>3. ASSUME WorldStep PROVE AgreeInv'
  <2>1. UNCHANGED <<ev, cards, req, faults, overlap, report, closures>>
    BY <1>3 DEF WorldStep
  <2>2. Made' = Made
    BY <2>1, CardsSame
  <2>3. \A e \in Events : EventAgrees(e)' = EventAgrees(e)
    BY <2>1, <2>2 DEF EventAgrees, RequestAgrees, ReportAgrees
  <2>4. QED
    BY <2>1, <2>3 DEF AgreeInv
<1>4. QED
  BY <1>2, <1>3, NextCases, BeginKind, AgreeBegin, AgreeCard

LEMMA AgreeInit ==
  ASSUME Init
  PROVE  AgreeInv
<1>1. /\ \A c \in Clients : req[c].event \notin Events
      /\ \A r \in Reports : report[r].status = "none"
      /\ \A e \in Events : closures[e] = 0
  BY IdleRow DEF Init, CardsInit
<1>2. Made = {}
  BY DEF Init, CardsInit, Made, Exists, NoRow
<1>3. QED
  BY <1>1, <1>2 DEF AgreeInv, EventAgrees, ReportAgrees

------------------------------------------------------------------------------
(* The theorems. *)

ResponseInv == BaseInv /\ ExecutionInv /\ DecisionInv /\ PresentInv /\ AgreeInv

LEMMA ResponseInvariant == Spec => []ResponseInv
<1>1. Init => ResponseInv
  BY BaseInit, ExecutionInit, DecisionInit, PresentInit, AgreeInit DEF ResponseInv
<1>2. ResponseInv /\ [Next]_vars => ResponseInv'
  BY BaseNext, ExecutionNext, DecisionNext, PresentNext, AgreeNext DEF ResponseInv, ExecutionInv
<1>3. QED
  BY <1>1, <1>2, PTL DEF Spec

(* The type invariant of the reports, the cards, the approvals and the        *)
(* requests on them.                                                          *)
THEOREM ResponseTypes == Spec => []TypeOK
<1>1. ResponseInv => TypeOK
  BY DEF ResponseInv, BaseInv
<1>2. QED
  BY <1>1, ResponseInvariant, PTL

(* Every row of M10 and M11 comes from an approval that was recorded before   *)
(* it, by the same request and with the gate open, and where requests about   *)
(* the card's event do not overlap a token has one row in either.             *)
THEOREM ApprovedBeforeExecuted == Spec => []ExecutionFollowsApproval
<1>1. ResponseInv => ExecutionFollowsApproval
  BY RowsPerApproval DEF ResponseInv, ExecutionInv
<1>2. QED
  BY <1>1, ResponseInvariant, PTL

(* While nothing raised and the gate did not change, an approval that says it *)
(* was enqueued is in M10's queue, or its request is on the way there.        *)
THEOREM ApprovalsReachTheQueue == Spec => []EnqueuedIsExecuted
<1>1. ResponseInv => EnqueuedIsExecuted
  BY DEF ResponseInv, ExecutionInv
<1>2. QED
  BY <1>1, ResponseInvariant, PTL

(* Where requests on an event do not overlap and nothing raised, a card has   *)
(* the status of its last decision, in its column and in its json.            *)
THEOREM LastDecisionStands == Spec => []DecisionStands
<1>1. ResponseInv => DecisionStands
  BY DecisionDone DEF ResponseInv, ExecutionInv
<1>2. QED
  BY <1>1, ResponseInvariant, PTL

(* Where requests on an event do not overlap and nothing raised, a verified   *)
(* report has an authenticated event, and so has every card that assigns      *)
(* units to its own event: no closure and no second ingest takes it away.     *)
THEOREM VerifiedStaysAuthenticated == Spec => []VerificationHolds
<1>1. ResponseInv => VerificationHolds
  <2> SUFFICES ASSUME ResponseInv, faults = 0
               PROVE  /\ \A r \in Reports \ overlap : report[r].status = "verified" => ev[r].auth
                      /\ \A k \in Made : cards[k].event \notin overlap /\ cards[k].dispatch # {} =>
                           ev[cards[k].event].auth
    BY DEF VerificationHolds
  <2>1. \A e \in Events \ overlap : EventAgrees(e)
    BY DEF ResponseInv, AgreeInv
  <2>2. \A k \in Made : cards[k].event \in Events
    BY RowFacts DEF ResponseInv
  <2>3. QED
    BY <2>1, <2>2, IdleRow DEF EventAgrees, ReportAgrees
<1>2. QED
  BY <1>1, ResponseInvariant, PTL

(* Where requests on an event do not overlap and nothing raised, an event has *)
(* one closure at most, and one that has a closure is closed.                 *)
THEOREM EventsCloseOnce == Spec => []OneClosure
<1>1. ResponseInv => OneClosure
  BY DEF ResponseInv, AgreeInv, OneClosure, EventAgrees
<1>2. QED
  BY <1>1, ResponseInvariant, PTL
==============================================================================
