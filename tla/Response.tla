------------------------------ MODULE Response -------------------------------
(***************************************************************************)
(* The way from a citizen's report to a closed event: M17 (citizen/        *)
(* service.py) and M16 (field/service.py) with the cards of M09.           *)
(*                                                                         *)
(* All three write the same row of normalized_events through M01, which    *)
(* copies every column of a payload.  Here ingest is one step with three   *)
(* outcomes: stored, rejected, or stored with a handler that raised.       *)
(***************************************************************************)
EXTENDS Cards

CONSTANTS
  Reports   \* report ids; a report's event has the same id

ASSUME ResponseAssumption == Reports \subseteq Events

VARIABLES
  report,   \* citizen_reports: the status and event_id
  closures  \* field_closures: how many an event has

responseVars == <<report, closures>>
vars == <<ev, cardVars, gov, now, req, countVars, overlap, responseVars>>

CitizenReportRow ==
  [status : {"none", "pending", "verified", "rejected"}, event : Events \cup {NoEvent}]

(* What M01 makes of a payload: every column is copied. *)
Stored(e, status, auth) == ev' = [ev EXCEPT ![e] = [status |-> status, auth |-> auth]]

(* IngestionService.ingest as its callers see it. *)
Ingest(c, e, status, auth, then, refused) ==
  \/ Stored(e, status, auth) /\ Goto(c, then) /\ UNCHANGED faults
  \/ UNCHANGED <<ev, faults>> /\ refused
  \/ Stored(e, status, auth) /\ Raise(c)

------------------------------------------------------------------------------
(* M17 *)

(* submit_report, up to the call of ingest *)
Submit(c, r) ==
  /\ report[r].status = "none" /\ ev[r].status = "absent"
  /\ \A d \in Clients : req[d].event # r
  /\ Begin(c, r, [Idle EXCEPT !.pc = "submit"])
  /\ UNCHANGED <<ev, cardVars, gov, now, toggles, faults, responseVars>>

(* The event of a citizen is never authenticated.  A rejected one leaves the *)
(* report without an event, one that raised leaves the event without report. *)
SubmitIngest(c) ==
  /\ req[c].pc = "submit"
  /\ Ingest(c, req[c].event, "active", FALSE, "quoted", Goto(c, "unquoted"))
  /\ UNCHANGED <<cardVars, gov, now, calls, toggles, overlap, responseVars>>

(* save_report, after the quote *)
SaveReport(c) ==
  LET r == req[c].event
  IN /\ req[c].pc \in {"quoted", "unquoted"}
     /\ report' = [report EXCEPT ![r] =
          [status |-> "pending", event |-> IF req[c].pc = "quoted" THEN r ELSE NoEvent]]
     /\ End(c)
     /\ UNCHANGED <<ev, cardVars, gov, now, countVars, overlap, closures>>

(* Mutant: the report is marked before its event. *)
VerifyMarkedFirst(c, r) ==
  /\ report[r].status # "none"
  /\ Begin(c, r, [Idle EXCEPT !.pc = "verified", !.seen = report[r].status])
  /\ UNCHANGED <<ev, cardVars, gov, now, toggles, faults, responseVars>>

(* verify_report: the row is read, whatever its status. *)
Verify(c, r) ==
  /\ report[r].status # "none"
  /\ Begin(c, r, [Idle EXCEPT !.pc = IF report[r].event = NoEvent THEN "reingest"
                                     ELSE "authenticate",
                              !.seen = report[r].status])
  /\ UNCHANGED <<ev, cardVars, gov, now, toggles, faults, responseVars>>

(* A report without an event is ingested now, or refused with 409. *)
Reingest(c) ==
  /\ req[c].pc = "reingest"
  /\ Ingest(c, req[c].event, "active", FALSE, "authenticate", End(c))
  /\ UNCHANGED <<cardVars, gov, now, calls, toggles, overlap, responseVars>>

(* set_event_authenticated *)
Authenticate(c) ==
  /\ req[c].pc = "authenticate"
  /\ ev' = [ev EXCEPT ![req[c].event].auth = TRUE]
  /\ Goto(c, "verified")
  /\ UNCHANGED <<cardVars, gov, now, countVars, overlap, responseVars>>

(* update_status writes the status where it differs from the one read; the   *)
(* card is built anew, with what the event is now.                           *)
MarkVerified(c) ==
  LET r == req[c].event
  IN /\ req[c].pc = "verified"
     /\ report' = [report EXCEPT ![r] =
          [status |-> IF req[c].seen = "verified" THEN @.status ELSE "verified", event |-> r]]
     /\ IF gov.tier3 THEN End(c)
        ELSE req' = [req EXCEPT ![c].pc = "recommend", ![c].auth = ev[r].auth]
     /\ UNCHANGED <<ev, cardVars, gov, now, countVars, overlap, closures>>

(* reject_report, likewise; the event is left as it is. *)
RejectReport(c, r) ==
  /\ report[r].status # "none"
  /\ Begin(c, r, [Idle EXCEPT !.pc = "refuse", !.seen = report[r].status])
  /\ UNCHANGED <<ev, cardVars, gov, now, toggles, faults, responseVars>>

MarkRejected(c) ==
  LET r == req[c].event
  IN /\ req[c].pc = "refuse"
     /\ report' = [report EXCEPT ![r].status = IF req[c].seen = "rejected" THEN @
                                               ELSE "rejected"]
     /\ End(c)
     /\ UNCHANGED <<ev, cardVars, gov, now, countVars, overlap, closures>>

------------------------------------------------------------------------------
(* M16: close *)

(* Mutant: the closure is not looked for. *)
CloseAnyway(c, e) ==
  /\ ev[e].status # "absent"
  /\ Begin(c, e, [Idle EXCEPT !.pc = "event"])
  /\ UNCHANGED <<ev, cardVars, gov, now, toggles, faults, responseVars>>

(* get_closure_by_event: 409 if there is one *)
Close(c, e) ==
  /\ ev[e].status # "absent" /\ closures[e] = 0
  /\ Begin(c, e, [Idle EXCEPT !.pc = "event"])
  /\ UNCHANGED <<ev, cardVars, gov, now, toggles, faults, responseVars>>

(* get_event: the payload is the whole event as it is now. *)
CloseRead(c) ==
  /\ req[c].pc = "event"
  /\ req' = [req EXCEPT ![c].pc = "close", ![c].auth = ev[req[c].event].auth]
  /\ UNCHANGED <<ev, cardVars, gov, now, countVars, overlap, responseVars>>

(* Mutant: the authentication is left out of the payload, and FIELD is a     *)
(* source whose default is true.                                             *)
CloseIngestDefault(c) ==
  /\ req[c].pc = "close"
  /\ Ingest(c, req[c].event, "closed", TRUE, "closure", End(c))
  /\ UNCHANGED <<cardVars, gov, now, calls, toggles, overlap, responseVars>>

(* It is ingested with the status closed; a rejection is 422. *)
CloseIngest(c) ==
  /\ req[c].pc = "close"
  /\ Ingest(c, req[c].event, "closed", req[c].auth, "closure", End(c))
  /\ UNCHANGED <<cardVars, gov, now, calls, toggles, overlap, responseVars>>

(* save_closure; what it raises is logged, and the caller gets its id. *)
SaveClosure(c) ==
  /\ req[c].pc = "closure"
  /\ \/ closures' = [closures EXCEPT ![req[c].event] = @ + 1] /\ UNCHANGED faults
     \/ faults < MaxFaults /\ faults' = faults + 1 /\ UNCHANGED closures
  /\ End(c)
  /\ UNCHANGED <<ev, cardVars, gov, now, calls, toggles, overlap, report>>

(* A query or a commit raises. *)
ResponseFault(c) ==
  /\ req[c].pc \in {"quoted", "unquoted", "authenticate", "verified", "refuse", "event"}
  /\ Raise(c)
  /\ UNCHANGED <<ev, cardVars, gov, now, calls, toggles, overlap, responseVars>>

------------------------------------------------------------------------------
Init ==
  /\ CardsInit
  /\ ev = [e \in Events |-> IF e \in Reports THEN [status |-> "absent", auth |-> FALSE]
                            ELSE [status |-> "active", auth |-> TRUE]]
  /\ report = [r \in Reports |-> [status |-> "none", event |-> NoEvent]]
  /\ closures = [e \in Events |-> 0]

ResponseStep(c) ==
  \/ SubmitIngest(c) \/ SaveReport(c)
  \/ Reingest(c) \/ Authenticate(c) \/ MarkVerified(c) \/ MarkRejected(c)
  \/ CloseRead(c) \/ CloseIngest(c) \/ SaveClosure(c)

Next ==
  \/ CardsNext /\ UNCHANGED responseVars
  \/ \E c \in Clients : ResponseStep(c) \/ ResponseFault(c)
  \/ \E c \in Clients, r \in Reports : Submit(c, r) \/ Verify(c, r) \/ RejectReport(c, r)
  \/ \E c \in Clients, e \in Events : Close(c, e)

Spec == Init /\ [][Next]_vars

------------------------------------------------------------------------------
TypeOK ==
  /\ ev \in [Events -> EventRow]
  /\ \A k \in CardIds : cards[k] = NoRow \/ cards[k] \in ActionCardRow
  /\ approvals \subseteq ApprovalRecordRow
  /\ done \subseteq [system : {"m10", "m11"}, token : Token, call : 1..MaxCalls]
  /\ gov \in GovernanceState
  /\ now \in 0..MaxSeconds
  /\ calls \in 0..MaxCalls /\ toggles \in 0..MaxToggles /\ faults \in 0..MaxFaults
  /\ overlap \subseteq Events
  /\ report \in [Reports -> CitizenReportRow]
  /\ closures \in [Events -> Nat]

(* Where requests about an event do not overlap and nothing raised, a        *)
(* verified report has an authenticated event, and so has a card whose own   *)
(* event was assigned a unit.  (An officer's closure that overlaps a         *)
(* verification writes back the event as it was, not authenticated; so does  *)
(* the ingest of a verification that repeats one that raised.)               *)
VerificationHolds ==
  faults = 0 =>
    /\ \A r \in Reports \ overlap :
         report[r].status = "verified" => ev[r].auth
    /\ \A k \in Made :
         cards[k].event \notin overlap /\ cards[k].dispatch # {} => ev[cards[k].event].auth

(* Where requests about an event do not overlap and nothing raised, an event *)
(* has at most one closure, and one with a closure is closed.  (Two officers *)
(* that overlap both close it; a verification that raised after its ingest   *)
(* is repeated by another, which opens the event again.)                     *)
OneClosure ==
  faults = 0 =>
    \A e \in Events \ overlap :
      closures[e] <= 1 /\ (closures[e] = 1 => ev[e].status = "closed")

(* M17_CitizenReportService.md:14-15: "a commander retains verification      *)
(* control before the event can enter M07 dispatch".                         *)
OnlyVerifiedEventsDispatched ==
  \A k \in Made : \A e \in cards[k].dispatch : ev[e].auth
==============================================================================
