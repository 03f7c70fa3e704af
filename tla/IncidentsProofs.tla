--------------------------- MODULE IncidentsProofs ----------------------------
(***************************************************************************)
(* Proofs about Incidents, for every number of events, requests, tasks and *)
(* dashboards: an event that is stored is materialised, a closed event     *)
(* leaves the propagation map, and where operations on an event do not     *)
(* overlap its features are those of its row.                              *)
(***************************************************************************)
EXTENDS Incidents, SequenceFacts

------------------------------------------------------------------------------
(* The requests, the tasks and the rows. *)

Stored(e) == row[e].status # "absent"

(* A request under way: not idle, and not one that has failed. *)
Going(s) == req[s].pc \notin {"idle", "broken"}

Materialising == {"store", "look", "save"}

(* A request is one of Request, but for what the list it sends to holds.      *)
RequestShape(r) ==
  r \in [pc : {"idle", "write", "fanout", "hotspot", "incident", "evict", "forget", "discard",
               "broken"},
         event : Events \cup {NoEvent}, msg : Messages \cup {None},
         status : Status \cup {"absent"}, seen : Status \cup {"absent"}, sent : {r.sent}]

RowsType ==
  /\ row \in [Events -> NormalizedEventRow]
  /\ snapshot \in [Events -> FeatureSnapshotRow]
  /\ features \in [Events -> Layers(Messages \cup {None})]
  /\ received \in 0..MaxMessages /\ hiccups \in Nat /\ faults \in Nat
  /\ \A e \in Events : Stored(e) => row[e].msg # None

(* A request has a message of its own, whose task it has not started before   *)
(* the fan-out.                                                               *)
RequestOk(s) ==
  LET r == req[s]
  IN /\ RequestShape(r)
     /\ ~Going(s) => r.event = NoEvent
     /\ Going(s) => r.event \in Events /\ r.msg \in 1..received
     /\ r.pc = "write" => r.status \in Status /\ (r.seen # "absent" => Stored(r.event))
     /\ Going(s) /\ r.pc # "write" => Stored(r.event)
     /\ r.pc \in {"write", "fanout"} => work[r.msg].pc = "none"

RequestInv ==
  /\ req = [s \in Senders |-> req[s]]
  /\ \A s \in Senders : RequestOk(s)
  /\ \A s, t \in Senders : Going(s) /\ Going(t) /\ req[s].msg = req[t].msg => s = t

(* Tasks and ripplers work on events that are stored, tasks on one. *)
WorkerOk(w) ==
  LET r == work[w]
  IN /\ r.pc = "none" => r = NoWork
     /\ r.pc # "none" => r.event \in Events /\ Stored(r.event)
     /\ \A e \in r.todo : Stored(e)
     /\ r.pc \in Materialising => r.msg # None
     /\ w \in Tasks => r.pc \in {"none"} \cup Materialising /\ r.todo = {}
     /\ w \in Tasks /\ w > received => r.pc = "none"

WorkInv ==
  /\ work \in [Tasks \cup Ripplers -> Worker]
  /\ \A w \in Tasks \cup Ripplers : WorkerOk(w)

BaseInv == RowsType /\ RequestInv /\ WorkInv

(* A request that will forget the ripple of its event. *)
WillForget(s, e) ==
  req[s].event = e /\ req[s].pc # "write" /\ req[s].status = "closed"

ClosedInv ==
  /\ active \subseteq Events
  /\ \A e \in active :
       row[e].status = "closed" => e \in excused \/ \E s \in Senders : WillForget(s, e)

(* Where nothing overlaps, an event has one request with its task, or one     *)
(* task, or one rippler.                                                      *)
On(w, e) == work[w].event = e \/ e \in work[w].todo

Apart(e) ==
  /\ \A s, t \in Senders : req[s].event = e /\ req[t].event = e => s = t
  /\ \A s \in Senders, w \in Tasks \cup Ripplers :
       req[s].event = e /\ On(w, e) => w = req[s].msg /\ req[s].pc \notin {"write", "fanout"}
  /\ \A v, w \in Tasks \cup Ripplers : On(v, e) /\ On(w, e) => v = w
  /\ \A w \in Tasks \cup Ripplers : work[w].event = e => e \notin work[w].todo

OverlapInv == \A e \in Events \ overlap : Apart(e)

(* The features and the snapshot of an event are those of its row, or the     *)
(* request or the task that will make them so is under way.                   *)
FannedOut(e) == \E s \in Senders : req[s].event = e /\ req[s].pc = "fanout"

Fresh(e) ==
  /\ \A s \in Senders : req[s].event = e /\ req[s].pc = "fanout" => req[s].msg = row[e].msg
  /\ \A w \in Tasks \cup Ripplers :
       work[w].event = e /\ work[w].pc \in Materialising =>
         /\ work[w].msg = row[e].msg
         /\ work[w].pc = "save" /\ ~work[w].seen => snapshot[e] = None
  /\ \/ snapshot[e] = row[e].msg \/ FannedOut(e)
     \/ \E w \in Tasks \cup Ripplers : work[w].event = e /\ work[w].pc \in Materialising
  /\ \/ Cached(features[e], RedisUp) \in {None, row[e].msg} \/ FannedOut(e)
     \/ \E w \in Tasks \cup Ripplers : work[w].event = e /\ work[w].pc = "store"

FreshInv ==
  hiccups = 0 /\ faults = 0 => \A e \in Events \ overlap : Stored(e) => Fresh(e)

------------------------------------------------------------------------------
(* Steps of one request. *)

Places == {"hotspot", "incident", "evict", "forget", "discard"}

SenderMoves(s) ==
  /\ req' = [t \in Senders |-> req'[t]] /\ RequestShape(req'[s])
  /\ \A t \in Senders \ {s} : req'[t] = req[t]

(* It ends, or fails. *)
Stops(s) == SenderMoves(s) /\ req'[s].pc \in {"idle", "broken"} /\ req'[s].event = NoEvent

(* It goes on after the fan-out has begun. *)
Passes(s) ==
  /\ SenderMoves(s) /\ req'[s].pc \in Places
  /\ req'[s].event = req[s].event /\ req'[s].msg = req[s].msg /\ req'[s].status = req[s].status

(* The counts never go back to zero. *)
CountsGrow == hiccups' \in Nat /\ (hiccups' = 0 => hiccups = 0)

LEMMA ShapeFacts ==
  /\ RequestShape(Idle) /\ Idle.pc = "idle" /\ Idle.event = NoEvent
  /\ \A r : RequestShape(r) =>
       /\ \A pc \in Places \cup {"idle", "broken", "fanout"} :
            /\ RequestShape([r EXCEPT !.pc = pc]) /\ [r EXCEPT !.pc = pc].pc = pc
            /\ [r EXCEPT !.pc = pc].event = r.event /\ [r EXCEPT !.pc = pc].msg = r.msg
            /\ [r EXCEPT !.pc = pc].status = r.status
       /\ \A pc \in Places : \A l :
            /\ RequestShape([r EXCEPT !.pc = pc, !.sent = l])
            /\ [r EXCEPT !.pc = pc, !.sent = l].pc = pc
            /\ [r EXCEPT !.pc = pc, !.sent = l].event = r.event
            /\ [r EXCEPT !.pc = pc, !.sent = l].msg = r.msg
            /\ [r EXCEPT !.pc = pc, !.sent = l].status = r.status
<1>1. RequestShape(Idle) /\ Idle.pc = "idle" /\ Idle.event = NoEvent
  BY DEF RequestShape, Idle
<1>2. ASSUME NEW r, RequestShape(r), NEW pc \in Places \cup {"idle", "broken", "fanout"}
      PROVE  /\ RequestShape([r EXCEPT !.pc = pc]) /\ [r EXCEPT !.pc = pc].pc = pc
             /\ [r EXCEPT !.pc = pc].event = r.event /\ [r EXCEPT !.pc = pc].msg = r.msg
             /\ [r EXCEPT !.pc = pc].status = r.status
  BY <1>2 DEF RequestShape, Places
<1>3. ASSUME NEW r, RequestShape(r), NEW pc \in Places, NEW l
      PROVE  /\ RequestShape([r EXCEPT !.pc = pc, !.sent = l])
             /\ [r EXCEPT !.pc = pc, !.sent = l].pc = pc
             /\ [r EXCEPT !.pc = pc, !.sent = l].event = r.event
             /\ [r EXCEPT !.pc = pc, !.sent = l].msg = r.msg
             /\ [r EXCEPT !.pc = pc, !.sent = l].status = r.status
  BY <1>3 DEF RequestShape, Places
<1>4. QED
  BY <1>1, <1>2, <1>3

LEMMA SenderFacts ==
  ASSUME BaseInv, NEW s \in Senders
  PROVE  /\ RequestShape(req[s]) /\ req = [t \in Senders |-> req[t]]
         /\ Going(s) => req[s].event \in Events /\ req[s].msg \in 1..received
                        /\ req[s].msg \in Messages
<1>1. RequestShape(req[s]) /\ req = [t \in Senders |-> req[t]]
  BY DEF BaseInv, RequestInv, RequestOk
<1>2. Going(s) => req[s].event \in Events /\ req[s].msg \in 1..received
  BY DEF BaseInv, RequestInv, RequestOk
<1>3. received \in 0..MaxMessages /\ MaxMessages \in Nat
  BY IncidentsAssumption DEF BaseInv, RowsType
<1>4. QED
  BY <1>1, <1>2, <1>3 DEF Messages

(* A request's record is replaced. *)
LEMMA Replaced ==
  ASSUME BaseInv, NEW s \in Senders, NEW r, RequestShape(r), req' = [req EXCEPT ![s] = r]
  PROVE  SenderMoves(s) /\ req'[s] = r
<1>1. req = [t \in Senders |-> req[t]]
  BY SenderFacts
<1>2. req' = [t \in Senders |-> IF t = s THEN r ELSE req[t]]
  BY <1>1
<1>3. QED
  BY <1>2 DEF SenderMoves

LEMMA EndEffect ==
  ASSUME BaseInv, NEW s \in Senders, End(s)
  PROVE  Stops(s)
<1>1. RequestShape(Idle) /\ Idle.pc = "idle" /\ Idle.event = NoEvent
  BY ShapeFacts
<1>2. SenderMoves(s) /\ req'[s] = Idle
  BY <1>1, Replaced DEF End
<1>3. QED
  BY <1>1, <1>2 DEF Stops

LEMMA FinishEffect ==
  ASSUME BaseInv, NEW s \in Senders, Finish(s, req[s])
  PROVE  Passes(s) \/ (Stops(s) /\ req[s].status # "closed")
<1>1. RequestShape(req[s])
  BY SenderFacts
<1>2. CASE req[s].status = "closed"
  <2> DEFINE r == [req[s] EXCEPT !.pc = "evict", !.sent = <<>>]
  <2>1. /\ RequestShape(r) /\ r.pc = "evict" /\ r.event = req[s].event /\ r.msg = req[s].msg
        /\ r.status = req[s].status
    BY <1>1 DEF RequestShape
  <2>2. req' = [req EXCEPT ![s] = r]
    BY <1>2 DEF Finish
  <2> HIDE DEF r
  <2>3. QED
    <3>1. SenderMoves(s) /\ req'[s] = r
      BY <2>1, <2>2, Replaced
    <3>2. QED
      BY <2>1, <3>1 DEF Passes, Places
<1>3. CASE req[s].status # "closed"
  BY <1>3, EndEffect DEF Finish, End
<1>4. QED
  BY <1>2, <1>3

LEMMA RedisEffect ==
  ASSUME BaseInv, NEW ok \in BOOLEAN, Redis(ok)
  PROVE  CountsGrow /\ (hiccups' = 0 => ok = RedisUp)
BY DEF Redis, CountsGrow, BaseInv, RowsType

(* A payload is rejected, or its request starts. *)
Starts(s, e) ==
  /\ ~Going(s) /\ received' = received + 1 /\ received' \in 1..MaxMessages
  /\ \/ Stops(s) /\ UNCHANGED overlap
     \/ /\ SenderMoves(s) /\ req'[s].pc = "write" /\ req'[s].event = e
        /\ req'[s].msg = received' /\ req'[s].status \in Status
        /\ req'[s].seen = row[e].status
        /\ overlap' = overlap \cup {x \in {e} : Busy(x)}
  /\ UNCHANGED <<row, snapshot, features, active, work, hiccups, faults, excused>>

LEMMA IngestEffect ==
  ASSUME BaseInv, NEW s \in Senders, NEW e \in Events, NEW st \in Statuses, Ingest(s, e, st)
  PROVE  Starts(s, e)
<1>1. /\ ~Going(s) /\ received < MaxMessages /\ received' = received + 1
      /\ UNCHANGED <<row, snapshot, features, active, work, hiccups, faults, excused>>
  BY DEF Ingest, Going, rowVars, cacheVars
<1>2. received' \in 1..MaxMessages
  BY <1>1, IncidentsAssumption DEF BaseInv, RowsType
<1>3. CASE End(s) /\ UNCHANGED overlap
  BY <1>1, <1>2, <1>3, EndEffect DEF Starts
<1>4. CASE /\ req' = [req EXCEPT ![s] = [Idle EXCEPT !.pc = "write", !.event = e,
                       !.msg = received', !.status = st, !.seen = row[e].status]]
           /\ Begin({e})
  <2> DEFINE r == [Idle EXCEPT !.pc = "write", !.event = e,
                       !.msg = received', !.status = st, !.seen = row[e].status]
  <2>1. st \in Status /\ row[e].status \in Status \cup {"absent"} /\ received' \in Messages
    BY <1>2, IncidentsAssumption DEF Status, BaseInv, RowsType, NormalizedEventRow, Messages
  <2>2. /\ RequestShape(r) /\ r.pc = "write" /\ r.event = e /\ r.msg = received'
        /\ r.status \in Status /\ r.seen = row[e].status
    BY <2>1 DEF RequestShape, Idle
  <2>3. req' = [req EXCEPT ![s] = r]
    BY <1>4
  <2> HIDE DEF r
  <2>4. SenderMoves(s) /\ req'[s] = r
    BY <2>2, <2>3, Replaced
  <2>5. QED
    BY <1>1, <1>2, <1>4, <2>2, <2>4 DEF Begin, Starts
<1>5. QED
  BY <1>3, <1>4 DEF Ingest

(* The insert fails, or the row is written and the fan-out comes next. *)
Writes(s) ==
  /\ req[s].pc = "write"
  /\ \/ Stops(s) /\ UNCHANGED row
     \/ /\ SenderMoves(s) /\ req'[s].pc = "fanout"
        /\ req'[s].event = req[s].event /\ req'[s].msg = req[s].msg
        /\ \E x \in NormalizedEventRow :
             /\ row' = [row EXCEPT ![req[s].event] = x]
             /\ x.status # "absent" /\ x.status = req'[s].status /\ x.msg = req[s].msg
  /\ UNCHANGED <<snapshot, features, active, work, received, hiccups, faults, overlap, excused>>

LEMMA WriteRowEffect ==
  ASSUME BaseInv, NEW s \in Senders, WriteRow(s)
  PROVE  Writes(s)
<1> DEFINE e == req[s].event
           now == row[e].status
           x == [status |-> IF req[s].status = req[s].seen THEN now ELSE req[s].status,
                 msg |-> req[s].msg]
<1>1. /\ req[s].pc = "write"
      /\ UNCHANGED <<snapshot, features, active, work, received, hiccups, faults, overlap,
                     excused>>
  BY DEF WriteRow, cacheVars, countVars
<1>2. /\ RequestShape(req[s]) /\ e \in Events /\ req[s].msg \in Messages
      /\ req[s].status \in Status /\ (req[s].seen # "absent" => now # "absent")
      /\ row \in [Events -> NormalizedEventRow]
  BY <1>1, SenderFacts DEF BaseInv, RequestInv, RequestOk, RowsType, Going, Stored
<1>3. CASE req[s].seen = "absent" /\ now # "absent"
  BY <1>1, <1>3, EndEffect DEF WriteRow, Writes
<1>4. CASE ~(req[s].seen = "absent" /\ now # "absent")
  <2>1. now \in Status \cup {"absent"}
    BY <1>2 DEF NormalizedEventRow
  <2>2. x \in NormalizedEventRow /\ x.status # "absent" /\ x.msg = req[s].msg
        /\ x.status \in Status
    BY <1>2, <2>1 DEF NormalizedEventRow, Status
  <2>3. row' = [row EXCEPT ![e] = x]
    BY <1>4 DEF WriteRow
  <2> HIDE DEF x
  <2>4. row'[e] = x
    BY <1>2, <2>3
  <2> DEFINE r == [req[s] EXCEPT !.pc = "fanout", !.status = x.status]
  <2>5. /\ RequestShape(r) /\ r.pc = "fanout" /\ r.event = e /\ r.msg = req[s].msg
        /\ r.status = x.status
    BY <1>2, <2>2 DEF RequestShape
  <2>6. req' = [req EXCEPT ![s].pc = "fanout", ![s].status = x.status]
    BY <1>4, <2>4 DEF WriteRow
  <2>7. req = [t \in Senders |-> req[t]]
    BY SenderFacts
  <2>8. req' = [req EXCEPT ![s] = r]
    BY <2>6, <2>7
  <2> HIDE DEF r
  <2>9. SenderMoves(s) /\ req'[s] = r
    BY <2>5, <2>8, Replaced
  <2>10. QED
    BY <1>1, <2>2, <2>3, <2>5, <2>9 DEF Writes
<1>5. QED
  BY <1>3, <1>4

(* The features' task is started, and the request goes on, or ends if the    *)
(* event is not closed.                                                       *)
FansOut(s) ==
  /\ req[s].pc = "fanout" /\ StartTask(req[s])
  /\ Passes(s) \/ (Stops(s) /\ req[s].status # "closed")
  /\ UNCHANGED <<row, snapshot, features, active, received, hiccups, faults, overlap, excused>>

(* A request's place and the list it sends to are replaced. *)
LEMMA SendsEffect ==
  ASSUME BaseInv, NEW s \in Senders, NEW pc \in Places, NEW l,
         req' = [req EXCEPT ![s].pc = pc, ![s].sent = l]
  PROVE  Passes(s)
<1> DEFINE r == [req[s] EXCEPT !.pc = pc, !.sent = l]
<1>1. RequestShape(req[s]) /\ req = [t \in Senders |-> req[t]]
  BY SenderFacts
<1>2. /\ RequestShape(r) /\ r.pc = pc /\ r.event = req[s].event /\ r.msg = req[s].msg
      /\ r.status = req[s].status
  BY <1>1 DEF RequestShape, Places
<1>3. req' = [req EXCEPT ![s] = r]
  BY <1>1
<1> HIDE DEF r
<1>4. SenderMoves(s) /\ req'[s] = r
  BY <1>2, <1>3, Replaced
<1>5. QED
  BY <1>2, <1>4 DEF Passes

(* A request's place is replaced. *)
LEMMA PlaceEffect ==
  ASSUME BaseInv, NEW s \in Senders, NEW pc \in Places, req' = [req EXCEPT ![s].pc = pc]
  PROVE  Passes(s)
<1> DEFINE r == [req[s] EXCEPT !.pc = pc]
<1>1. RequestShape(req[s]) /\ req = [t \in Senders |-> req[t]]
  BY SenderFacts
<1>2. /\ RequestShape(r) /\ r.pc = pc /\ r.event = req[s].event /\ r.msg = req[s].msg
      /\ r.status = req[s].status
  BY <1>1 DEF RequestShape, Places
<1>3. req' = [req EXCEPT ![s] = r]
  BY <1>1
<1> HIDE DEF r
<1>4. SenderMoves(s) /\ req'[s] = r
  BY <1>2, <1>3, Replaced
<1>5. QED
  BY <1>2, <1>4 DEF Passes

LEMMA FanoutEffect ==
  ASSUME BaseInv, NEW s \in Senders, Fanout(s)
  PROVE  FansOut(s)
<1>1. /\ req[s].pc = "fanout" /\ StartTask(req[s])
      /\ UNCHANGED <<row, snapshot, features, active, received, hiccups, faults, overlap,
                     excused>>
  BY DEF Fanout, rowVars, cacheVars, countVars
<1>2. CASE conns = <<>>
  BY <1>1, <1>2, FinishEffect DEF Fanout, FansOut
<1>3. CASE req' = [req EXCEPT ![s].pc = "hotspot", ![s].sent = conns]
  <2>1. Passes(s)
    BY <1>3, SendsEffect DEF Places
  <2>2. QED
    BY <1>1, <2>1 DEF FansOut
<1>4. QED
  BY <1>2, <1>3 DEF Fanout

(* A request goes on to tell the dashboards, and to forget a closed event: it *)
(* stops only when the event is excused or has left the active ones.          *)
GoesPast(s) ==
  /\ req[s].pc \in Places
  /\ \/ Passes(s)
     \/ /\ Stops(s)
        /\ req[s].status = "closed" =>
             req[s].event \in excused' \/ req[s].event \notin active'
  /\ active' \subseteq active /\ \A x \in active' \cap excused : x \in excused'
  /\ CountsGrow
  /\ \/ UNCHANGED features
     \/ \E l \in Layers(Messages \cup {None}) :
          /\ features' = [features EXCEPT ![req[s].event] = l]
          /\ hiccups' = 0 => Cached(l, RedisUp) = None
  /\ UNCHANGED <<row, snapshot, work, received, faults, overlap>>

LEMMA HotspotSentEffect ==
  ASSUME BaseInv, NEW s \in Senders, HotspotSent(s)
  PROVE  GoesPast(s)
<1>1. /\ req[s].pc = "hotspot"
      /\ UNCHANGED <<row, snapshot, features, active, work, received, hiccups, faults, overlap>>
  BY DEF HotspotSent, rowVars, cacheVars, countVars
<1>2. CountsGrow
  BY <1>1 DEF CountsGrow, BaseInv, RowsType
<1>3. PICK failed \in Failures(req[s].sent) :
        IF Mismatch(req[s].sent)
        THEN /\ req' = [req EXCEPT ![s] = [Idle EXCEPT !.pc = "broken"]]
             /\ excused' = IF req[s].status = "closed" THEN excused \cup {req[s].event}
                           ELSE excused
        ELSE /\ IF conns' = <<>> THEN Finish(s, req[s])
                ELSE req' = [req EXCEPT ![s].pc = "incident", ![s].sent = conns']
             /\ UNCHANGED excused
  BY DEF HotspotSent
<1>4. CASE /\ req' = [req EXCEPT ![s] = [Idle EXCEPT !.pc = "broken"]]
           /\ excused' = IF req[s].status = "closed" THEN excused \cup {req[s].event}
                         ELSE excused
  <2> DEFINE r == [Idle EXCEPT !.pc = "broken"]
  <2>1. RequestShape(r) /\ r.pc = "broken" /\ r.event = NoEvent
    BY DEF RequestShape, Idle
  <2>2. req' = [req EXCEPT ![s] = r]
    BY <1>4
  <2> HIDE DEF r
  <2>3. Stops(s)
    BY <2>1, <2>2, Replaced DEF Stops
  <2>4. QED
    BY <1>1, <1>2, <1>4, <2>3 DEF GoesPast, Places
<1>5. CASE Finish(s, req[s]) /\ UNCHANGED excused
  BY <1>1, <1>2, <1>5, FinishEffect DEF GoesPast, Places
<1>6. CASE /\ req' = [req EXCEPT ![s].pc = "incident", ![s].sent = conns']
           /\ UNCHANGED excused
  <2>1. Passes(s)
    BY <1>6, SendsEffect DEF Places
  <2>2. QED
    BY <1>1, <1>2, <1>6, <2>1 DEF GoesPast, Places
<1>7. QED
  BY <1>3, <1>4, <1>5, <1>6

LEMMA IncidentSentEffect ==
  ASSUME BaseInv, NEW s \in Senders, IncidentSent(s)
  PROVE  GoesPast(s)
<1>1. /\ req[s].pc = "incident" /\ Finish(s, req[s])
      /\ UNCHANGED <<row, snapshot, features, active, work, received, hiccups, faults, overlap,
                     excused>>
  BY DEF IncidentSent, rowVars, cacheVars, countVars
<1>2. CountsGrow
  BY <1>1 DEF CountsGrow, BaseInv, RowsType
<1>3. QED
  BY <1>1, <1>2, FinishEffect DEF GoesPast, Places

LEMMA EvictEffect ==
  ASSUME BaseInv, NEW s \in Senders, Evict(s)
  PROVE  GoesPast(s)
<1> DEFINE e == req[s].event
<1>1. /\ req[s].pc = "evict" /\ req' = [req EXCEPT ![s].pc = "forget"]
      /\ UNCHANGED <<row, snapshot, active, work, received, faults, overlap, excused>>
  BY DEF Evict, rowVars
<1>2. Passes(s)
  BY <1>1, PlaceEffect DEF Places
<1>3. PICK ok \in BOOLEAN : /\ Redis(ok)
                            /\ features' = [features EXCEPT ![e] = Deleted(features[e], ok)]
  BY DEF Evict
<1>4. CountsGrow /\ (hiccups' = 0 => ok = RedisUp)
  BY <1>3, RedisEffect
<1>5. e \in Events /\ features[e] \in Layers(Messages \cup {None})
  BY <1>1, SenderFacts DEF Going, BaseInv, RowsType
<1> DEFINE l == Deleted(features[e], ok)
<1>6. l \in Layers(Messages \cup {None})
  BY <1>5 DEF Layers, Deleted
<1>7. ok = RedisUp => Cached(l, RedisUp) = None
  BY <1>5, IncidentsAssumption DEF Cached, Layers, Deleted
<1> HIDE DEF l
<1>8. features' = [features EXCEPT ![e] = l]
  BY <1>3 DEF l
<1>9. QED
  BY <1>1, <1>2, <1>4, <1>6, <1>7, <1>8 DEF GoesPast, Places

LEMMA ForgetEffect ==
  ASSUME BaseInv, NEW s \in Senders, Forget(s)
  PROVE  GoesPast(s)
<1>1. /\ req[s].pc = "forget" /\ req' = [req EXCEPT ![s].pc = "discard"]
      /\ UNCHANGED <<row, snapshot, features, active, work, received, faults, overlap, excused>>
  BY DEF Forget, rowVars
<1>2. Passes(s)
  BY <1>1, PlaceEffect DEF Places
<1>3. CountsGrow
  BY RedisEffect DEF Forget
<1>4. QED
  BY <1>1, <1>2, <1>3 DEF GoesPast, Places

LEMMA DiscardEffect ==
  ASSUME BaseInv, NEW s \in Senders, Discard(s)
  PROVE  GoesPast(s)
<1>1. /\ req[s].pc = "discard" /\ active' = active \ {req[s].event}
      /\ excused' = excused \ {req[s].event}
      /\ UNCHANGED <<row, snapshot, features, work, received, hiccups, faults, overlap>>
  BY DEF Discard, rowVars, countVars
<1>2. Stops(s)
  BY EndEffect DEF Discard
<1>3. CountsGrow
  BY <1>1 DEF CountsGrow, BaseInv, RowsType
<1>4. QED
  BY <1>1, <1>2, <1>3 DEF GoesPast, Places

------------------------------------------------------------------------------
(* Steps of one task or rippler. *)

WorkerMoves(w) ==
  /\ work' \in [Tasks \cup Ripplers -> Worker]
  /\ \A v \in (Tasks \cup Ripplers) \ {w} : work'[v] = work[v]

(* It goes on with its event. *)
Goes(w, pc) ==
  /\ WorkerMoves(w) /\ work'[w].pc = pc
  /\ work'[w].event = work[w].event /\ work'[w].todo = work[w].todo

(* It ends, or takes its next event. *)
Leaves(w) ==
  /\ WorkerMoves(w)
  /\ \/ work'[w] = NoWork /\ work[w].todo = {}
     \/ /\ work'[w].pc = "lookup" /\ work'[w].event \in work[w].todo
        /\ work'[w].todo = work[w].todo \ {work'[w].event}

LEMMA WorkerFacts ==
  ASSUME BaseInv, NEW w \in Tasks \cup Ripplers
  PROVE  /\ work \in [Tasks \cup Ripplers -> Worker] /\ work[w] \in Worker
         /\ work[w].pc # "none" => work[w].event \in Events /\ Stored(work[w].event)
         /\ work[w].pc \in Materialising => work[w].msg \in Messages
         /\ w \in Tasks => work[w].todo = {}
BY DEF BaseInv, WorkInv, WorkerOk, Worker, Materialising, None

LEMMA NextRippleEffect ==
  ASSUME BaseInv, NEW w \in Tasks \cup Ripplers, NextRipple(w)
  PROVE  Leaves(w)
<1>1. work \in [Tasks \cup Ripplers -> Worker] /\ work[w].todo \subseteq Events
  BY WorkerFacts DEF Worker
<1>2. CASE work[w].todo = {}
  <2>1. work' = [work EXCEPT ![w] = NoWork] /\ NoWork \in Worker
    BY <1>2 DEF NextRipple, NoWork, Worker
  <2>2. QED
    BY <1>1, <1>2, <2>1 DEF Leaves, WorkerMoves
<1>3. CASE work[w].todo # {}
  <2>1. PICK e \in work[w].todo :
          work' = [work EXCEPT ![w] = [NoWork EXCEPT !.pc = "lookup", !.event = e,
                                                     !.todo = work[w].todo \ {e}]]
    BY <1>3 DEF NextRipple
  <2> DEFINE r == [NoWork EXCEPT !.pc = "lookup", !.event = e, !.todo = work[w].todo \ {e}]
  <2>2. r \in Worker /\ r.pc = "lookup" /\ r.event = e /\ r.todo = work[w].todo \ {e}
    BY <1>1 DEF NoWork, Worker
  <2> HIDE DEF r
  <2>3. work' = [work EXCEPT ![w] = r]
    BY <2>1 DEF r
  <2>4. QED
    BY <1>1, <2>2, <2>3 DEF Leaves, WorkerMoves
<1>4. QED
  BY <1>2, <1>3

LEMMA AbandonEffect ==
  ASSUME BaseInv, NEW w \in Tasks \cup Ripplers, Abandon(w)
  PROVE  Leaves(w)
<1>1. CASE w \in Ripplers
  BY <1>1, NextRippleEffect DEF Abandon
<1>2. CASE w \notin Ripplers
  <2>1. work' = [work EXCEPT ![w] = NoWork] /\ NoWork \in Worker /\ work[w].todo = {}
    BY <1>2, WorkerFacts DEF Abandon, NoWork, Worker
  <2>2. QED
    BY <2>1, WorkerFacts DEF Leaves, WorkerMoves
<1>3. QED
  BY <1>1, <1>2

(* A vector is cached. *)
Stores(w) ==
  /\ work[w].pc = "store" /\ Goes(w, "look") /\ work'[w].msg = work[w].msg
  /\ CountsGrow
  /\ \E l \in Layers(Messages \cup {None}) :
       /\ features' = [features EXCEPT ![work[w].event] = l]
       /\ hiccups' = 0 => Cached(l, RedisUp) = work[w].msg
  /\ UNCHANGED <<row, snapshot, active, req, received, faults, overlap, excused>>

LEMMA PcEffect ==
  ASSUME BaseInv, NEW w \in Tasks \cup Ripplers, NEW pc \in {"look", "map", "add"},
         work' = [work EXCEPT ![w].pc = pc]
  PROVE  Goes(w, pc) /\ work'[w].msg = work[w].msg
<1> DEFINE r == [work[w] EXCEPT !.pc = pc]
<1>1. work \in [Tasks \cup Ripplers -> Worker] /\ work[w] \in Worker
  BY WorkerFacts
<1>2. /\ r \in Worker /\ r.pc = pc /\ r.event = work[w].event /\ r.todo = work[w].todo
      /\ r.msg = work[w].msg
  BY <1>1 DEF Worker
<1>3. work' = [work EXCEPT ![w] = r]
  BY <1>1
<1> HIDE DEF r
<1>4. QED
  BY <1>1, <1>2, <1>3 DEF Goes, WorkerMoves

LEMMA StoreEffect ==
  ASSUME BaseInv, NEW w \in Tasks \cup Ripplers, Store(w)
  PROVE  Stores(w)
<1> DEFINE e == work[w].event
           m == work[w].msg
<1>1. /\ work[w].pc = "store" /\ work' = [work EXCEPT ![w].pc = "look"]
      /\ UNCHANGED <<row, snapshot, active, req, received, faults, overlap, excused>>
  BY DEF Store, rowVars
<1>2. Goes(w, "look") /\ work'[w].msg = m
  BY <1>1, PcEffect
<1>3. PICK ok \in BOOLEAN : /\ Redis(ok)
                            /\ features' = [features EXCEPT ![e] = Written(features[e], m, ok)]
  BY DEF Store
<1>4. CountsGrow /\ (hiccups' = 0 => ok = RedisUp)
  BY <1>3, RedisEffect
<1>5. e \in Events /\ features[e] \in Layers(Messages \cup {None}) /\ m \in Messages
  BY <1>1, WorkerFacts DEF Materialising, BaseInv, RowsType
<1> DEFINE l == Written(features[e], m, ok)
<1>6. l \in Layers(Messages \cup {None})
  BY <1>5 DEF Layers, Written
<1>7. ok = RedisUp => Cached(l, RedisUp) = m
  BY <1>5, IncidentsAssumption DEF Cached, Layers, Written, None, Messages
<1> HIDE DEF l
<1>8. features' = [features EXCEPT ![e] = l]
  BY <1>3 DEF l
<1>9. QED
  BY <1>1, <1>2, <1>4, <1>6, <1>7, <1>8 DEF Stores

(* The snapshot is looked for, ... *)
Looks(w) ==
  /\ work[w].pc = "look" /\ Goes(w, "save") /\ work'[w].msg = work[w].msg
  /\ work'[w].seen = (snapshot[work[w].event] # None)
  /\ UNCHANGED <<row, snapshot, features, active, req, received, hiccups, faults, overlap,
                 excused>>

LEMMA LookEffect ==
  ASSUME BaseInv, NEW w \in Tasks \cup Ripplers, LookForSnapshot(w)
  PROVE  Looks(w)
<1> DEFINE seen == snapshot[work[w].event] # None
           r == [work[w] EXCEPT !.pc = "save", !.seen = seen]
<1>1. /\ work[w].pc = "look"
      /\ work' = [work EXCEPT ![w].pc = "save", ![w].seen = seen]
      /\ UNCHANGED <<row, snapshot, features, active, req, received, hiccups, faults, overlap,
                     excused>>
  BY DEF LookForSnapshot, rowVars, cacheVars, countVars
<1>2. work \in [Tasks \cup Ripplers -> Worker] /\ work[w] \in Worker /\ seen \in BOOLEAN
  BY WorkerFacts
<1> HIDE DEF seen
<1>3. /\ r \in Worker /\ r.pc = "save" /\ r.event = work[w].event /\ r.todo = work[w].todo
      /\ r.msg = work[w].msg /\ r.seen = seen
  BY <1>2 DEF Worker
<1>4. work' = [work EXCEPT ![w] = r]
  BY <1>1, <1>2
<1> HIDE DEF r
<1>5. WorkerMoves(w) /\ work'[w] = r
  BY <1>2, <1>3, <1>4 DEF WorkerMoves
<1>6. QED
  BY <1>1, <1>3, <1>5 DEF Looks, Goes, seen

(* ... and inserted or updated; of two that insert, the second is abandoned. *)
Saves(w) ==
  /\ work[w].pc = "save"
  /\ \/ /\ Leaves(w) /\ ~work[w].seen /\ snapshot[work[w].event] # None
        /\ UNCHANGED snapshot
     \/ /\ snapshot' = [snapshot EXCEPT ![work[w].event] = work[w].msg]
        /\ (Goes(w, "map") /\ w \in Ripplers) \/ Leaves(w)
  /\ UNCHANGED <<row, features, active, req, received, hiccups, faults, overlap, excused>>

LEMMA SaveEffect ==
  ASSUME BaseInv, NEW w \in Tasks \cup Ripplers, SaveSnapshot(w)
  PROVE  Saves(w)
<1> DEFINE e == work[w].event
<1>1. /\ work[w].pc = "save"
      /\ UNCHANGED <<row, features, active, req, received, hiccups, faults, overlap, excused>>
  BY DEF SaveSnapshot, cacheVars, countVars
<1>2. CASE ~work[w].seen /\ snapshot[e] # None
  BY <1>1, <1>2, AbandonEffect DEF SaveSnapshot, Saves
<1>3. CASE ~(~work[w].seen /\ snapshot[e] # None)
  <2>1. /\ snapshot' = [snapshot EXCEPT ![e] = work[w].msg]
        /\ work' = [work EXCEPT ![w] = IF w \in Ripplers THEN [work[w] EXCEPT !.pc = "map"]
                                       ELSE NoWork]
    BY <1>3 DEF SaveSnapshot
  <2>2. CASE w \in Ripplers
    <3>1. work \in [Tasks \cup Ripplers -> Worker]
      BY WorkerFacts
    <3>2. work' = [work EXCEPT ![w].pc = "map"]
      BY <2>1, <2>2, <3>1
    <3>3. Goes(w, "map")
      BY <3>2, PcEffect
    <3>4. QED
      BY <1>1, <2>1, <2>2, <3>3 DEF Saves
  <2>3. CASE w \notin Ripplers
    <3>1. Abandon(w)
      BY <2>1, <2>3 DEF Abandon
    <3>2. QED
      BY <1>1, <2>1, <3>1, AbandonEffect DEF Saves
  <2>4. QED
    BY <2>2, <2>3
<1>4. QED
  BY <1>2, <1>3

(* A materialisation raises. *)
Fails(w) ==
  /\ work[w].pc \in Materialising /\ Leaves(w) /\ faults' \in Nat \ {0}
  /\ UNCHANGED <<row, snapshot, features, active, req, received, hiccups, overlap, excused>>

LEMMA FaultEffect ==
  ASSUME BaseInv, NEW w \in Tasks \cup Ripplers, MaterialiseFault(w)
  PROVE  Fails(w)
<1>1. Leaves(w)
  BY AbandonEffect DEF MaterialiseFault
<1>2. faults' \in Nat \ {0}
  BY DEF MaterialiseFault, BaseInv, RowsType
<1>3. QED
  BY <1>1, <1>2 DEF MaterialiseFault, Fails, Materialising, rowVars, cacheVars

(* A rippler finds the features, or has to compute them. *)
Finds(w) ==
  /\ work[w].pc = "lookup"
  /\ \/ Goes(w, "map")
     \/ Goes(w, "store") /\ work'[w].msg = row[work[w].event].msg
  /\ CountsGrow
  /\ UNCHANGED <<row, snapshot, features, active, req, received, faults, overlap, excused>>

LEMMA LookupEffect ==
  ASSUME BaseInv, NEW w \in Tasks \cup Ripplers, Lookup(w)
  PROVE  Finds(w)
<1> DEFINE e == work[w].event
<1>1. /\ work[w].pc = "lookup"
      /\ UNCHANGED <<row, snapshot, features, active, req, received, faults, overlap, excused>>
  BY DEF Lookup, rowVars, cacheVars
<1>2. PICK ok \in BOOLEAN :
        /\ Redis(ok)
        /\ work' = [work EXCEPT ![w] =
             IF Cached(features[e], ok) # None THEN [work[w] EXCEPT !.pc = "map"]
             ELSE [work[w] EXCEPT !.pc = "store", !.msg = row[e].msg]]
  BY DEF Lookup
<1>3. CountsGrow
  BY <1>2, RedisEffect
<1>4. work \in [Tasks \cup Ripplers -> Worker] /\ work[w] \in Worker
  BY WorkerFacts
<1>5. CASE Cached(features[e], ok) # None
  <2>1. work' = [work EXCEPT ![w].pc = "map"]
    BY <1>2, <1>4, <1>5
  <2>2. QED
    BY <1>1, <1>3, <2>1, PcEffect DEF Finds
<1>6. CASE ~(Cached(features[e], ok) # None)
  <2> DEFINE r == [work[w] EXCEPT !.pc = "store", !.msg = row[e].msg]
  <2>1. row[e].msg \in Messages \cup {None}
    BY <1>1, WorkerFacts DEF BaseInv, RowsType, NormalizedEventRow
  <2>2. /\ r \in Worker /\ r.pc = "store" /\ r.event = e /\ r.todo = work[w].todo
        /\ r.msg = row[e].msg
    BY <1>4, <2>1 DEF Worker
  <2>3. work' = [work EXCEPT ![w] = r]
    BY <1>2, <1>6
  <2> HIDE DEF r
  <2>4. WorkerMoves(w) /\ work'[w] = r
    BY <1>4, <2>2, <2>3 DEF WorkerMoves
  <2>5. QED
    BY <1>1, <1>3, <2>2, <2>4 DEF Finds, Goes
<1>7. QED
  BY <1>5, <1>6

(* A rippler stores its map, or adds its event to the active ones. *)
Maps(w) ==
  /\ work[w].pc \in {"map", "add"}
  /\ Goes(w, "add") \/ Leaves(w)
  /\ CountsGrow
  /\ active' \subseteq active \cup {work[w].event} /\ excused \subseteq excused'
  /\ row[work[w].event].status = "closed" => work[w].event \in excused'
  /\ UNCHANGED <<row, snapshot, features, req, received, faults, overlap>>

LEMMA WriteMapEffect ==
  ASSUME BaseInv, NEW w \in Tasks \cup Ripplers, WriteMap(w)
  PROVE  Maps(w)
<1>1. CountsGrow
  BY RedisEffect DEF WriteMap
<1>2. Goes(w, "add")
  BY PcEffect DEF WriteMap
<1>3. /\ excused \subseteq excused'
      /\ row[work[w].event].status = "closed" => work[w].event \in excused'
  BY DEF WriteMap, Late
<1>4. QED
  BY <1>1, <1>2, <1>3 DEF WriteMap, Maps, rowVars

LEMMA AddActiveEffect ==
  ASSUME BaseInv, NEW w \in Tasks \cup Ripplers, AddActive(w)
  PROVE  Maps(w)
<1>1. CountsGrow
  BY DEF AddActive, countVars, CountsGrow, BaseInv, RowsType
<1>2. Leaves(w)
  BY NextRippleEffect DEF AddActive
<1>3. /\ excused \subseteq excused'
      /\ row[work[w].event].status = "closed" => work[w].event \in excused'
  BY DEF AddActive, Late
<1>4. QED
  BY <1>1, <1>2, <1>3 DEF AddActive, Maps, rowVars, countVars

(* A rippler starts on some stored events. *)
Asks(w) ==
  /\ work[w].pc = "none" /\ WorkerMoves(w)
  /\ \E S \in SUBSET Events :
       /\ \A e \in S : Stored(e)
       /\ overlap' = overlap \cup {e \in S : Busy(e)}
       /\ work'[w].pc = "lookup" /\ work'[w].event \in S
       /\ work'[w].todo = S \ {work'[w].event}
  /\ UNCHANGED <<row, snapshot, features, active, req, received, hiccups, faults, excused>>

LEMMA AskEffect ==
  ASSUME BaseInv, NEW w \in Ripplers, AskActive(w) \/ \E e \in Events : AskRipple(w, e)
  PROVE  Asks(w)
<1>1. /\ work[w].pc = "none"
      /\ UNCHANGED <<row, snapshot, features, active, req, received, hiccups, faults, excused>>
  BY DEF AskActive, AskRipple, rowVars, cacheVars
<1>2. work \in [Tasks \cup Ripplers -> Worker]
  BY WorkerFacts
<1>3. ASSUME NEW S \in SUBSET Events, \A x \in S : Stored(x), Begin(S),
             NEW r \in Worker, r.pc = "lookup", r.event \in S, r.todo = S \ {r.event},
             work' = [work EXCEPT ![w] = r]
      PROVE  Asks(w)
  <2>1. WorkerMoves(w) /\ work'[w] = r
    BY <1>2, <1>3 DEF WorkerMoves
  <2>2. QED
    BY <1>1, <1>3, <2>1 DEF Asks, Begin
<1>4. CASE \E e \in Events : AskRipple(w, e)
  <2>1. PICK e \in Events : AskRipple(w, e)
    BY <1>4
  <2> DEFINE S == {e}
             r == [NoWork EXCEPT !.pc = "lookup", !.event = e]
  <2>2. /\ S \in SUBSET Events /\ (\A x \in S : Stored(x)) /\ Begin(S)
        /\ work' = [work EXCEPT ![w] = r]
    BY <2>1 DEF AskRipple, Stored
  <2>3. r \in Worker /\ r.pc = "lookup" /\ r.event = e /\ r.todo = {}
    BY DEF NoWork, Worker
  <2>4. e \in S /\ S \ {e} = {}
    OBVIOUS
  <2> HIDE DEF S, r
  <2>5. QED
    BY <1>3, <2>2, <2>3, <2>4
<1>5. CASE AskActive(w)
  <2> DEFINE S == {e \in Events : row[e].status = "active"}
  <2>1. /\ S \in SUBSET Events /\ Begin(S) /\ \A x \in S : Stored(x)
    BY <1>5 DEF AskActive, Stored
  <2>2. PICK e \in S :
          work' = [work EXCEPT ![w] = [NoWork EXCEPT !.pc = "lookup", !.event = e,
                                                     !.todo = S \ {e}]]
    BY <1>5 DEF AskActive
  <2> HIDE DEF S
  <2> DEFINE r == [NoWork EXCEPT !.pc = "lookup", !.event = e, !.todo = S \ {e}]
  <2>3. r \in Worker /\ r.pc = "lookup" /\ r.event = e /\ r.todo = S \ {e}
    BY <2>1, <2>2 DEF NoWork, Worker
  <2>4. work' = [work EXCEPT ![w] = r]
    BY <2>2
  <2> HIDE DEF r
  <2>5. QED
    BY <1>3, <2>1, <2>2, <2>3, <2>4
<1>6. QED
  BY <1>4, <1>5

(* Dashboards come and go, and nothing happens. *)
Rests ==
  UNCHANGED <<row, snapshot, features, active, req, work, received, hiccups, faults, overlap,
              excused>>

LEMMA StepEffect ==
  ASSUME BaseInv, [Next]_vars
  PROVE  \/ \E s \in Senders : (\E e \in Events : Starts(s, e)) \/ Writes(s) \/ FansOut(s) \/ GoesPast(s)
         \/ \E w \in Tasks \cup Ripplers :
              Stores(w) \/ Looks(w) \/ Saves(w) \/ Fails(w) \/ Finds(w) \/ Maps(w)
         \/ \E w \in Ripplers : Asks(w)
         \/ Rests
<1>1. ASSUME NEW s \in Senders, NEW e \in Events, NEW st \in Statuses, Ingest(s, e, st)
      PROVE  Starts(s, e)
  BY <1>1, IngestEffect
<1>2. ASSUME NEW s \in Senders, SenderStep(s)
      PROVE  Writes(s) \/ FansOut(s) \/ GoesPast(s)
  BY <1>2, WriteRowEffect, FanoutEffect, HotspotSentEffect, IncidentSentEffect, EvictEffect,
     ForgetEffect, DiscardEffect DEF SenderStep
<1>3. ASSUME NEW w \in Tasks \cup Ripplers, WorkerStep(w) \/ MaterialiseFault(w)
      PROVE  Stores(w) \/ Looks(w) \/ Saves(w) \/ Fails(w) \/ Finds(w) \/ Maps(w)
  BY <1>3, StoreEffect, LookEffect, SaveEffect, FaultEffect, LookupEffect, WriteMapEffect,
     AddActiveEffect DEF WorkerStep
<1>4. ASSUME NEW c \in Sockets, Join(c) \/ Leave(c) \/ Disconnect(c)
      PROVE  Rests
  BY <1>4 DEF Join, Leave, Disconnect, Rests, rowVars, cacheVars, countVars
<1>5. UNCHANGED vars => Rests
  BY DEF vars, rowVars, cacheVars, busVars, countVars, Rests
<1>6. QED
  BY <1>1, <1>2, <1>3, <1>4, <1>5, AskEffect DEF Next

------------------------------------------------------------------------------
(* Types, requests and tasks. *)

LEMMA RowsInit == Init => RowsType
BY IncidentsAssumption
   DEF Init, RowsType, NormalizedEventRow, FeatureSnapshotRow, Layers, Empty, Stored, None

(* The part of RowsType that is not about the rows, after a step. *)
Frame ==
  /\ snapshot' \in [Events -> FeatureSnapshotRow]
  /\ features' \in [Events -> Layers(Messages \cup {None})]
  /\ received' \in 0..MaxMessages /\ received' \in received..received + 1
  /\ hiccups' \in Nat /\ faults' \in Nat
  /\ hiccups' = 0 => hiccups = 0
  /\ faults' = 0 => faults = 0

LEMMA FrameNext ==
  ASSUME BaseInv, [Next]_vars
  PROVE  Frame
<1>0. MaxMessages \in Nat
  BY IncidentsAssumption
<1>1. /\ snapshot \in [Events -> FeatureSnapshotRow]
      /\ features \in [Events -> Layers(Messages \cup {None})]
      /\ received \in 0..MaxMessages /\ hiccups \in Nat /\ faults \in Nat
  BY DEF BaseInv, RowsType
<1> received \in received..received + 1
  BY <1>0, <1>1
<1>2. ASSUME NEW s \in Senders, NEW e \in Events, Starts(s, e)
      PROVE  Frame
  <2>1. received' \in 0..MaxMessages /\ received' \in received..received + 1
    BY <1>0, <1>1, <1>2 DEF Starts
  <2>2. QED
    BY <1>1, <1>2, <2>1 DEF Starts, Frame
<1>3. ASSUME NEW s \in Senders, Writes(s)
      PROVE  Frame
  BY <1>1, <1>3 DEF Writes, Frame
<1>4. ASSUME NEW s \in Senders, FansOut(s)
      PROVE  Frame
  BY <1>1, <1>4 DEF FansOut, Frame
<1>5. ASSUME NEW s \in Senders, GoesPast(s)
      PROVE  Frame
  <2>1. features' \in [Events -> Layers(Messages \cup {None})]
    BY <1>1, <1>5 DEF GoesPast
  <2>2. QED
    BY <1>1, <1>5, <2>1 DEF GoesPast, CountsGrow, Frame
<1>6. ASSUME NEW w \in Tasks \cup Ripplers, Stores(w)
      PROVE  Frame
  <2>1. features' \in [Events -> Layers(Messages \cup {None})]
    BY <1>1, <1>6 DEF Stores
  <2>2. QED
    BY <1>1, <1>6, <2>1 DEF Stores, CountsGrow, Frame
<1>7. ASSUME NEW w \in Tasks \cup Ripplers, Saves(w)
      PROVE  Frame
  <2>1. work[w].msg \in Messages
    BY <1>7, WorkerFacts DEF Saves, Materialising
  <2>2. snapshot' \in [Events -> FeatureSnapshotRow]
    BY <1>1, <1>7, <2>1 DEF Saves, FeatureSnapshotRow
  <2>3. QED
    BY <1>1, <1>7, <2>2 DEF Saves, Frame
<1>8. ASSUME NEW w \in Tasks \cup Ripplers, Looks(w)
      PROVE  Frame
  BY <1>1, <1>8 DEF Looks, Frame
<1>9. ASSUME NEW w \in Tasks \cup Ripplers, Fails(w)
      PROVE  Frame
  BY <1>1, <1>9 DEF Fails, Frame
<1>10. ASSUME NEW w \in Tasks \cup Ripplers, Finds(w)
       PROVE  Frame
  BY <1>1, <1>10 DEF Finds, CountsGrow, Frame
<1>11. ASSUME NEW w \in Tasks \cup Ripplers, Maps(w)
       PROVE  Frame
  BY <1>1, <1>11 DEF Maps, CountsGrow, Frame
<1>12. ASSUME NEW w \in Ripplers, Asks(w)
       PROVE  Frame
  BY <1>1, <1>12 DEF Asks, Frame
<1>13. Rests => Frame
  BY <1>1 DEF Rests, Frame
<1>14. QED
  BY <1>2, <1>3, <1>4, <1>5, <1>6, <1>7, <1>8, <1>9, <1>10, <1>11, <1>12, <1>13, StepEffect

LEMMA Received ==
  ASSUME BaseInv, [Next]_vars
  PROVE  received \in Nat /\ received' \in received..received + 1 /\ MaxMessages \in Nat
<1>1. MaxMessages \in Nat
  BY IncidentsAssumption
<1>2. received \in 0..MaxMessages
  BY DEF BaseInv, RowsType
<1>3. received' \in received..received + 1
  BY FrameNext DEF Frame
<1>4. QED
  BY <1>1, <1>2, <1>3

(* Only a request that writes changes a row. *)
LEMMA RowNext ==
  ASSUME BaseInv, [Next]_vars
  PROVE  \/ UNCHANGED row
         \/ \E s \in Senders :
              /\ Writes(s) /\ req[s].event \in Events /\ req[s].msg \in Messages
              /\ row' = [row EXCEPT ![req[s].event] = row'[req[s].event]]
              /\ row'[req[s].event] \in NormalizedEventRow
              /\ row'[req[s].event].status # "absent"
              /\ row'[req[s].event].msg = req[s].msg
<1>1. ASSUME NEW s \in Senders, Writes(s), ~UNCHANGED row
      PROVE  /\ req[s].event \in Events /\ req[s].msg \in Messages
             /\ row' = [row EXCEPT ![req[s].event] = row'[req[s].event]]
             /\ row'[req[s].event] \in NormalizedEventRow
             /\ row'[req[s].event].status # "absent"
             /\ row'[req[s].event].msg = req[s].msg
  <2>1. req[s].event \in Events /\ req[s].msg \in Messages
    BY <1>1, SenderFacts DEF Writes, Going
  <2>2. PICK x \in NormalizedEventRow :
          /\ row' = [row EXCEPT ![req[s].event] = x]
          /\ x.status # "absent" /\ x.status = req'[s].status /\ x.msg = req[s].msg
    BY <1>1 DEF Writes
  <2>3. row \in [Events -> NormalizedEventRow]
    BY DEF BaseInv, RowsType
  <2>4. row'[req[s].event] = x
    BY <2>1, <2>2, <2>3
  <2>5. QED
    BY <2>1, <2>2, <2>4
<1>2. (\E s \in Senders : (\E e \in Events : Starts(s, e)) \/ FansOut(s) \/ GoesPast(s))
        => UNCHANGED row
  BY DEF Starts, FansOut, GoesPast
<1>3. (\E w \in Tasks \cup Ripplers :
         Stores(w) \/ Looks(w) \/ Saves(w) \/ Fails(w) \/ Finds(w) \/ Maps(w))
        => UNCHANGED row
  BY DEF Stores, Looks, Saves, Fails, Finds, Maps
<1>4. (\E w \in Ripplers : Asks(w)) \/ Rests => UNCHANGED row
  BY DEF Asks, Rests
<1>5. QED
  BY <1>1, <1>2, <1>3, <1>4, StepEffect

(* What is stored stays stored. *)
LEMMA RowsNext ==
  ASSUME BaseInv, [Next]_vars
  PROVE  RowsType' /\ \A e \in Events : Stored(e) => row'[e].status # "absent"
<1>1. /\ row \in [Events -> NormalizedEventRow]
      /\ \A e \in Events : Stored(e) => row[e].msg # None
  BY DEF BaseInv, RowsType
<1>2. /\ row' \in [Events -> NormalizedEventRow]
      /\ \A e \in Events : row'[e].status # "absent" => row'[e].msg # None
      /\ \A e \in Events : Stored(e) => row'[e].status # "absent"
  <2>1. CASE UNCHANGED row
    BY <1>1, <2>1 DEF Stored
  <2>2. ASSUME NEW e \in Events, NEW x \in NormalizedEventRow, x.status # "absent",
               x.msg \in Messages, row' = [row EXCEPT ![e] = x]
        PROVE  /\ row' \in [Events -> NormalizedEventRow]
               /\ \A y \in Events : row'[y].status # "absent" => row'[y].msg # None
               /\ \A y \in Events : Stored(y) => row'[y].status # "absent"
    BY <1>1, <2>2 DEF Stored, Messages, None
  <2>3. QED
    BY <2>1, <2>2, RowNext
<1>3. QED
  BY <1>2, FrameNext DEF Frame, RowsType, Stored

LEMMA RequestInit == Init => RequestInv
<1> SUFFICES ASSUME Init
             PROVE  RequestInv
  OBVIOUS
<1>1. RequestShape(Idle) /\ Idle.pc = "idle" /\ Idle.event = NoEvent
  BY ShapeFacts
<1>2. req = [s \in Senders |-> Idle]
  BY DEF Init
<1> HIDE DEF Idle
<1>3. QED
  BY <1>1, <1>2 DEF RequestInv, RequestOk, Going

LEMMA WorkInit == Init => WorkInv
BY DEF Init, WorkInv, WorkerOk, Worker, NoWork, Materialising

(* One request moves: what is to be shown of it, and of the tasks. *)
LEMMA RequestKept ==
  ASSUME BaseInv, [Next]_vars, NEW s \in Senders, SenderMoves(s), RequestOk(s)',
         Going(s)' => (Going(s) /\ req'[s].msg = req[s].msg) \/ req'[s].msg > received,
         \A t \in Senders \ {s} : req[t].pc \in {"write", "fanout"} =>
           work'[req[t].msg].pc = "none"
  PROVE  RequestInv'
<1>1. \A t \in Senders : RequestOk(t) /\ (Going(t) => req[t].msg \in 1..received)
  BY SenderFacts DEF BaseInv, RequestInv
<1>2. \A e \in Events : Stored(e) => row'[e].status # "absent"
  BY RowsNext
<1>3. received \in Nat /\ received' \in received..received + 1
  BY Received
<1>4. ASSUME NEW t \in Senders \ {s}
      PROVE  RequestOk(t)'
  <2>1. req'[t] = req[t]
    BY DEF SenderMoves
  <2>2. RequestOk(t) /\ (req[t].pc \in {"write", "fanout"} => work'[req[t].msg].pc = "none")
    BY <1>1
  <2>3. 1..received \subseteq 1..received'
    BY <1>3
  <2>4. QED
    BY <1>2, <2>1, <2>2, <2>3 DEF RequestOk, Going, Stored
<1>5. ASSUME NEW t \in Senders, NEW u \in Senders, Going(t)', Going(u)', req'[t].msg = req'[u].msg
      PROVE  t = u
  <2>1. \A v, w \in Senders : Going(v) /\ Going(w) /\ req[v].msg = req[w].msg => v = w
    BY DEF BaseInv, RequestInv
  <2>2. \A v \in Senders \ {s} : Going(v)' => Going(v) /\ req'[v].msg = req[v].msg
    BY DEF SenderMoves, Going
  <2>3. QED
    BY <1>1, <1>3, <1>5, <2>1, <2>2
<1>6. QED
  BY <1>4, <1>5 DEF RequestInv, SenderMoves

(* No request moves. *)
LEMMA RequestsRest ==
  ASSUME BaseInv, [Next]_vars, UNCHANGED req,
         \A t \in Senders : req[t].pc \in {"write", "fanout"} => work'[req[t].msg].pc = "none"
  PROVE  RequestInv'
<1>1. \A t \in Senders : RequestOk(t)
  BY DEF BaseInv, RequestInv
<1>2. \A e \in Events : Stored(e) => row'[e].status # "absent"
  BY RowsNext
<1>3. received \in Nat /\ received' \in received..received + 1
  BY Received
<1>4. 1..received \subseteq 1..received'
  BY <1>3
<1>5. \A t \in Senders : RequestOk(t)'
  BY <1>1, <1>2, <1>4 DEF RequestOk, Going, Stored
<1>6. QED
  BY <1>5 DEF BaseInv, RequestInv, Going

(* One task or rippler moves: the requests' tasks are still to be started. *)
LEMMA TasksWait ==
  ASSUME BaseInv, NEW w \in Tasks \cup Ripplers, WorkerMoves(w),
         work[w].pc # "none" \/ w \in Ripplers
  PROVE  \A t \in Senders : req[t].pc \in {"write", "fanout"} => work'[req[t].msg].pc = "none"
<1> SUFFICES ASSUME NEW t \in Senders, req[t].pc \in {"write", "fanout"}
             PROVE  work'[req[t].msg].pc = "none"
  OBVIOUS
<1>1. req[t].msg \in Messages /\ work[req[t].msg].pc = "none"
  BY SenderFacts DEF BaseInv, RequestInv, RequestOk, Going
<1>2. req[t].msg # w
  BY <1>1, IncidentsAssumption DEF Messages
<1>3. QED
  BY <1>1, <1>2 DEF WorkerMoves, Tasks

LEMMA WorkKept ==
  ASSUME BaseInv, [Next]_vars, NEW w \in Tasks \cup Ripplers, WorkerMoves(w), WorkerOk(w)'
  PROVE  WorkInv'
<1>1. \A v \in Tasks \cup Ripplers : WorkerOk(v) /\ work[v] \in Worker
  BY DEF BaseInv, WorkInv
<1>2. \A e \in Events : Stored(e) => row'[e].status # "absent"
  BY RowsNext
<1>3. received \in Nat /\ received' \in received..received + 1 /\ MaxMessages \in Nat
  BY Received
<1>4. ASSUME NEW v \in (Tasks \cup Ripplers) \ {w}
      PROVE  WorkerOk(v)'
  <2>1. work'[v] = work[v] /\ WorkerOk(v) /\ work[v].todo \subseteq Events
    BY <1>1 DEF WorkerMoves, Worker
  <2>2. v \in Tasks /\ v > received' => v > received
    BY <1>3 DEF Tasks, Messages
  <2>3. QED
    BY <1>2, <2>1, <2>2 DEF WorkerOk, Stored
<1>5. QED
  BY <1>4 DEF WorkInv, WorkerMoves

LEMMA WorkRests ==
  ASSUME BaseInv, [Next]_vars, UNCHANGED work
  PROVE  WorkInv'
<1>1. \A v \in Tasks \cup Ripplers : WorkerOk(v) /\ work[v] \in Worker
  BY DEF BaseInv, WorkInv
<1>2. \A e \in Events : Stored(e) => row'[e].status # "absent"
  BY RowsNext
<1>3. received \in Nat /\ received' \in received..received + 1 /\ MaxMessages \in Nat
  BY Received
<1>4. ASSUME NEW v \in Tasks \cup Ripplers
      PROVE  WorkerOk(v)'
  <2>1. work'[v] = work[v] /\ WorkerOk(v) /\ work[v].todo \subseteq Events
    BY <1>1 DEF Worker
  <2>2. v \in Tasks /\ v > received' => v > received
    BY <1>3 DEF Tasks, Messages
  <2>3. QED
    BY <1>2, <2>1, <2>2 DEF WorkerOk, Stored
<1>5. QED
  BY <1>4 DEF WorkInv, BaseInv

LEMMA StartsBase ==
  ASSUME BaseInv, [Next]_vars, NEW s \in Senders, NEW e \in Events, Starts(s, e)
  PROVE  RequestInv' /\ WorkInv'
<1>1. WorkInv'
  BY WorkRests DEF Starts
<1>2. \A t \in Senders : req[t].pc \in {"write", "fanout"} => work'[req[t].msg].pc = "none"
  BY DEF Starts, BaseInv, RequestInv, RequestOk
<1>3. CASE Stops(s)
  <2>1. RequestOk(s)'
    BY <1>3 DEF Stops, SenderMoves, RequestOk, Going
  <2>2. QED
    BY <1>1, <1>2, <1>3, <2>1, RequestKept DEF Stops, Going
<1>4. CASE /\ SenderMoves(s) /\ req'[s].pc = "write" /\ req'[s].event = e
           /\ req'[s].msg = received' /\ req'[s].status \in Status
           /\ req'[s].seen = row[e].status
  <2>1. received' > received /\ received' \in 1..received'
    BY Received DEF Starts
  <2>2. work'[received'].pc = "none"
    <3>1. received' \in Tasks
      BY DEF Starts, Tasks, Messages
    <3>2. WorkerOk(received') /\ work' = work
      BY <3>1 DEF Starts, BaseInv, WorkInv
    <3>3. QED
      BY <2>1, <3>1, <3>2 DEF WorkerOk
  <2>3. RequestOk(s)'
    BY <1>4, <2>1, <2>2 DEF Starts, SenderMoves, RequestOk, Going, Stored
  <2>4. QED
    BY <1>1, <1>2, <1>4, <2>1, <2>3, RequestKept
<1>5. QED
  BY <1>3, <1>4 DEF Starts

LEMMA WritesBase ==
  ASSUME BaseInv, [Next]_vars, NEW s \in Senders, Writes(s)
  PROVE  RequestInv' /\ WorkInv'
<1>1. WorkInv'
  BY WorkRests DEF Writes
<1>2. \A t \in Senders : req[t].pc \in {"write", "fanout"} => work'[req[t].msg].pc = "none"
  BY DEF Writes, BaseInv, RequestInv, RequestOk
<1>3. CASE Stops(s)
  <2>1. RequestOk(s)'
    BY <1>3 DEF Stops, SenderMoves, RequestOk, Going
  <2>2. QED
    BY <1>1, <1>2, <1>3, <2>1, RequestKept DEF Stops, Going
<1>4. CASE ~Stops(s)
  <2>1. /\ SenderMoves(s) /\ req'[s].pc = "fanout"
        /\ req'[s].event = req[s].event /\ req'[s].msg = req[s].msg
    BY <1>4 DEF Writes
  <2>2. Going(s) /\ req[s].event \in Events /\ req[s].msg \in 1..received
    BY SenderFacts DEF Writes, Going
  <2>3. req[s].msg \in 1..received'
    BY <2>2, Received
  <2>4. row'[req[s].event].status # "absent"
    <3>1. PICK x \in NormalizedEventRow :
            row' = [row EXCEPT ![req[s].event] = x] /\ x.status # "absent"
      BY <1>4 DEF Writes
    <3>2. row \in [Events -> NormalizedEventRow]
      BY DEF BaseInv, RowsType
    <3>3. QED
      BY <2>2, <3>1, <3>2
  <2>5. work'[req[s].msg].pc = "none"
    BY <1>2 DEF Writes
  <2>6. RequestOk(s)'
    BY <2>1, <2>2, <2>3, <2>4, <2>5 DEF SenderMoves, RequestOk, Going, Stored
  <2>7. QED
    BY <1>1, <1>2, <2>1, <2>2, <2>6, RequestKept
<1>5. QED
  BY <1>3, <1>4

(* A request that stops, or has the fan-out behind it. *)
LEMMA PastOk ==
  ASSUME BaseInv, [Next]_vars, NEW s \in Senders, req[s].pc \in Places \cup {"fanout"},
         Passes(s) \/ Stops(s),
         \A t \in Senders \ {s} : req[t].pc \in {"write", "fanout"} =>
           work'[req[t].msg].pc = "none"
  PROVE  RequestInv'
<1>1. CASE Stops(s)
  <2>1. RequestOk(s)'
    BY <1>1 DEF Stops, SenderMoves, RequestOk, Going
  <2>2. QED
    BY <1>1, <2>1, RequestKept DEF Stops, Going
<1>2. CASE Passes(s)
  <2>1. Going(s) /\ RequestOk(s) /\ req[s].event \in Events /\ req[s].msg \in 1..received
    BY SenderFacts DEF Going, Places, BaseInv, RequestInv
  <2>2. req[s].msg \in 1..received'
    BY <2>1, Received
  <2>3. row'[req[s].event].status # "absent"
    BY <2>1, RowsNext DEF RequestOk, Places
  <2>4. RequestOk(s)'
    BY <1>2, <2>1, <2>2, <2>3 DEF Passes, SenderMoves, RequestOk, Going, Stored, Places
  <2>5. QED
    BY <1>2, <2>1, <2>4, RequestKept DEF Passes
<1>3. QED
  BY <1>1, <1>2

LEMMA FansOutWork ==
  ASSUME BaseInv, NEW s \in Senders, FansOut(s)
  PROVE  /\ req[s].msg \in Tasks /\ req[s].event \in Events /\ Stored(req[s].event)
         /\ req[s].msg \in 1..received
         /\ work[req[s].msg] = NoWork /\ WorkerMoves(req[s].msg)
         /\ work'[req[s].msg].pc = "store" /\ work'[req[s].msg].event = req[s].event
         /\ work'[req[s].msg].msg = req[s].msg /\ work'[req[s].msg].todo = {}
<1> DEFINE m == req[s].msg
           r == [NoWork EXCEPT !.pc = "store", !.event = req[s].event, !.msg = m]
<1>1. /\ m \in Messages /\ req[s].event \in Events /\ Stored(req[s].event)
      /\ m \in 1..received /\ work[m].pc = "none"
  BY SenderFacts DEF FansOut, BaseInv, RequestInv, RequestOk, Going
<1>2. work \in [Tasks \cup Ripplers -> Worker] /\ work[m] = NoWork
  BY <1>1 DEF BaseInv, WorkInv, WorkerOk, Tasks
<1>3. work' = [work EXCEPT ![m] = r]
  BY DEF FansOut, StartTask
<1>4. r \in Worker /\ r.pc = "store" /\ r.event = req[s].event /\ r.msg = m /\ r.todo = {}
  BY <1>1 DEF NoWork, Worker
<1> HIDE DEF r, m
<1>5. m \in Tasks
  BY <1>1 DEF Tasks
<1>6. WorkerMoves(m) /\ work'[m] = r
  BY <1>2, <1>3, <1>4, <1>5 DEF WorkerMoves
<1>7. QED
  BY <1>1, <1>2, <1>4, <1>5, <1>6 DEF m

LEMMA FansOutBase ==
  ASSUME BaseInv, [Next]_vars, NEW s \in Senders, FansOut(s)
  PROVE  RequestInv' /\ WorkInv'
<1> PICK m \in Tasks : m = req[s].msg
  BY FansOutWork
<1>1. /\ m \in Tasks /\ req[s].event \in Events /\ Stored(req[s].event) /\ m \in 1..received
      /\ WorkerMoves(m) /\ work'[m].pc = "store" /\ work'[m].event = req[s].event
      /\ work'[m].msg = m /\ work'[m].todo = {}
  BY FansOutWork
<1>2. \A t \in Senders \ {s} : req[t].pc \in {"write", "fanout"} =>
        work'[req[t].msg].pc = "none"
  <2> SUFFICES ASSUME NEW t \in Senders \ {s}, req[t].pc \in {"write", "fanout"}
               PROVE  work'[req[t].msg].pc = "none"
    OBVIOUS
  <2>1. Going(s) /\ Going(t) /\ req[t].msg \in Messages /\ work[req[t].msg].pc = "none"
    BY SenderFacts DEF FansOut, Going, BaseInv, RequestInv, RequestOk
  <2>2. req[t].msg # m
    BY <2>1 DEF BaseInv, RequestInv
  <2>3. QED
    BY <1>1, <2>1, <2>2 DEF WorkerMoves, Tasks
<1>3. RequestInv'
  BY <1>2, PastOk DEF FansOut
<1>4. row'[req[s].event].status # "absent"
  BY <1>1, RowsNext
<1>5. m # None /\ ~(m > received')
  BY <1>1, Received DEF None
<1>6. WorkerOk(m)'
  BY <1>1, <1>4, <1>5 DEF WorkerOk, Stored, Materialising
<1>7. QED
  BY <1>1, <1>3, <1>6, WorkKept

LEMMA GoesPastBase ==
  ASSUME BaseInv, [Next]_vars, NEW s \in Senders, GoesPast(s)
  PROVE  RequestInv' /\ WorkInv'
<1>1. WorkInv'
  BY WorkRests DEF GoesPast
<1>2. \A t \in Senders : req[t].pc \in {"write", "fanout"} => work'[req[t].msg].pc = "none"
  BY DEF GoesPast, BaseInv, RequestInv, RequestOk
<1>3. QED
  BY <1>1, <1>2, PastOk DEF GoesPast

LEMMA GoesOk ==
  ASSUME BaseInv, [Next]_vars, NEW w \in Tasks \cup Ripplers, NEW pc, Goes(w, pc),
         work[w].pc # "none", pc # "none", pc \in Materialising => work'[w].msg # None,
         w \in Tasks => pc \in Materialising
  PROVE  WorkInv'
<1>1. /\ WorkerOk(w) /\ work[w].event \in Events /\ Stored(work[w].event)
      /\ work[w].todo \subseteq Events
  BY WorkerFacts DEF BaseInv, WorkInv, Worker
<1>2. \A e \in Events : Stored(e) => row'[e].status # "absent"
  BY RowsNext
<1>3. w \in Tasks => ~(w > received')
  BY <1>1, Received DEF WorkerOk, Tasks, Messages
<1>4. WorkerOk(w)'
  BY <1>1, <1>2, <1>3 DEF Goes, WorkerOk, Stored
<1>5. QED
  BY <1>4, WorkKept DEF Goes

LEMMA LeavesOk ==
  ASSUME BaseInv, [Next]_vars, NEW w \in Tasks \cup Ripplers, Leaves(w), work[w].pc # "none"
  PROVE  WorkInv'
<1>1. WorkerOk(w) /\ work[w].todo \subseteq Events
  BY WorkerFacts DEF BaseInv, WorkInv, Worker
<1>2. \A e \in Events : Stored(e) => row'[e].status # "absent"
  BY RowsNext
<1>3. CASE work'[w] = NoWork
  <2>1. WorkerOk(w)'
    BY <1>3 DEF WorkerOk, NoWork, Materialising
  <2>2. QED
    BY <2>1, WorkKept DEF Leaves
<1>4. CASE /\ work'[w].pc = "lookup" /\ work'[w].event \in work[w].todo
           /\ work'[w].todo = work[w].todo \ {work'[w].event}
  <2>1. WorkerOk(w)'
    BY <1>1, <1>2, <1>4 DEF WorkerOk, Stored, Materialising
  <2>2. QED
    BY <2>1, WorkKept DEF Leaves
<1>5. QED
  BY <1>3, <1>4 DEF Leaves

LEMMA WorkersBase ==
  ASSUME BaseInv, [Next]_vars, NEW w \in Tasks \cup Ripplers,
         Stores(w) \/ Looks(w) \/ Saves(w) \/ Fails(w) \/ Finds(w) \/ Maps(w)
  PROVE  RequestInv' /\ WorkInv'
<1>1. /\ work[w].pc # "none" /\ WorkerMoves(w) /\ UNCHANGED req
      /\ w \in Tasks => work[w].pc \in Materialising
      /\ work[w].pc \in Materialising => work[w].msg # None
  <2>1. work[w].pc # "none" /\ WorkerMoves(w) /\ UNCHANGED req
    BY DEF Stores, Looks, Saves, Fails, Finds, Maps, Goes, Leaves, Materialising
  <2>2. WorkerOk(w)
    BY DEF BaseInv, WorkInv
  <2>3. QED
    BY <2>1, <2>2 DEF WorkerOk
<1>2. RequestInv'
  BY <1>1, TasksWait, RequestsRest
<1>3. CASE Stores(w)
  BY <1>1, <1>2, <1>3, GoesOk DEF Stores, Materialising
<1>4. CASE Looks(w)
  BY <1>1, <1>2, <1>4, GoesOk DEF Looks, Materialising
<1>5. CASE Finds(w)
  <2>1. work[w].event \in Events /\ Stored(work[w].event) /\ w \notin Tasks
    BY <1>1, <1>5, WorkerFacts DEF Finds, Materialising
  <2>2. row[work[w].event].msg # None
    BY <2>1 DEF BaseInv, RowsType
  <2>3. CASE Goes(w, "map")
    BY <1>1, <1>2, <2>1, <2>3, GoesOk DEF Materialising
  <2>4. CASE Goes(w, "store") /\ work'[w].msg = row[work[w].event].msg
    BY <1>1, <1>2, <2>1, <2>2, <2>4, GoesOk DEF Materialising
  <2>5. QED
    BY <1>5, <2>3, <2>4 DEF Finds
<1>6. CASE Goes(w, "map") /\ w \in Ripplers
  <2>1. w \notin Tasks
    BY <1>6, IncidentsAssumption DEF Tasks, Messages
  <2>2. QED
    BY <1>1, <1>2, <1>6, <2>1, GoesOk DEF Materialising
<1>7. CASE Goes(w, "add") /\ Maps(w)
  <2>1. w \notin Tasks
    BY <1>1, <1>7 DEF Maps, Materialising
  <2>2. QED
    BY <1>1, <1>2, <1>7, <2>1, GoesOk DEF Materialising
<1>8. CASE Leaves(w)
  BY <1>1, <1>2, <1>8, LeavesOk
<1>9. QED
  BY <1>2, <1>3, <1>4, <1>5, <1>6, <1>7, <1>8 DEF Saves, Fails, Maps

LEMMA AsksBase ==
  ASSUME BaseInv, [Next]_vars, NEW w \in Ripplers, Asks(w)
  PROVE  RequestInv' /\ WorkInv'
<1>1. WorkerMoves(w) /\ UNCHANGED req /\ UNCHANGED row
  BY DEF Asks
<1>2. RequestInv'
  BY <1>1, TasksWait, RequestsRest
<1>3. PICK S \in SUBSET Events :
        /\ \A e \in S : Stored(e)
        /\ work'[w].pc = "lookup" /\ work'[w].event \in S
        /\ work'[w].todo = S \ {work'[w].event}
  BY DEF Asks
<1>4. w \notin Tasks
  BY IncidentsAssumption DEF Tasks, Messages
<1>5. WorkerOk(w)'
  BY <1>1, <1>3, <1>4 DEF WorkerOk, Stored, Materialising
<1>6. QED
  BY <1>1, <1>2, <1>5, WorkKept

LEMMA BaseInit == Init => BaseInv
BY RowsInit, RequestInit, WorkInit DEF BaseInv

LEMMA BaseNext ==
  ASSUME BaseInv, [Next]_vars
  PROVE  BaseInv'
<1>1. RowsType'
  BY RowsNext
<1>2. Rests => RequestInv' /\ WorkInv'
  <2> SUFFICES ASSUME Rests
               PROVE  RequestInv' /\ WorkInv'
    OBVIOUS
  <2>1. UNCHANGED req /\ UNCHANGED work
    BY DEF Rests
  <2>2. \A t \in Senders : req[t].pc \in {"write", "fanout"} => work'[req[t].msg].pc = "none"
    BY <2>1 DEF BaseInv, RequestInv, RequestOk
  <2>3. QED
    BY <2>1, <2>2, WorkRests, RequestsRest
<1>3. RequestInv' /\ WorkInv'
  BY <1>2, StepEffect, StartsBase, WritesBase, FansOutBase, GoesPastBase, WorkersBase, AsksBase
<1>4. QED
  BY <1>1, <1>3 DEF BaseInv

------------------------------------------------------------------------------
(* An event that is stored is materialised. *)

LEMMA MaterialisedInit == Init => NoEventUnmaterialised
BY DEF Init, NoEventUnmaterialised

LEMMA MaterialisedNext ==
  ASSUME BaseInv, NoEventUnmaterialised, [Next]_vars
  PROVE  NoEventUnmaterialised'
<1> SUFFICES ASSUME faults' = 0, NEW e \in Events, row'[e].status # "absent"
             PROVE  \/ snapshot'[e] # None
                    \/ \E s \in Senders : req'[s].event = e /\ req'[s].pc = "fanout"
                    \/ \E w \in Tasks : work'[w].event = e
  BY DEF NoEventUnmaterialised
<1> DEFINE P == \/ snapshot[e] # None
                \/ \E s \in Senders : req[s].event = e /\ req[s].pc = "fanout"
                \/ \E w \in Tasks : work[w].event = e
           Q == \/ snapshot'[e] # None
                \/ \E s \in Senders : req'[s].event = e /\ req'[s].pc = "fanout"
                \/ \E w \in Tasks : work'[w].event = e
<1>1. Stored(e) => P
  <2>1. faults = 0
    BY FrameNext DEF Frame
  <2>2. QED
    BY <2>1 DEF NoEventUnmaterialised, Stored
<1>2. ASSUME NEW s \in Senders, NEW x \in Events, Starts(s, x)
      PROVE  Q
  BY <1>1, <1>2 DEF Starts, Stops, SenderMoves, Going, Stored
<1>3. ASSUME NEW s \in Senders, Writes(s)
      PROVE  Q
  <2>1. CASE UNCHANGED row
    BY <1>1, <1>3, <2>1 DEF Writes, Stops, SenderMoves, Stored
  <2>2. CASE ~UNCHANGED row
    <3>1. /\ SenderMoves(s) /\ req'[s].pc = "fanout" /\ req'[s].event = req[s].event
          /\ \E x : row' = [row EXCEPT ![req[s].event] = x]
      BY <1>3, <2>2 DEF Writes
    <3>2. row \in [Events -> NormalizedEventRow]
      BY DEF BaseInv, RowsType
    <3>3. CASE e = req[s].event
      BY <3>1, <3>3
    <3>4. CASE e # req[s].event
      <4>1. row'[e] = row[e]
        BY <3>1, <3>2, <3>4
      <4>2. QED
        BY <1>1, <1>3, <3>1, <4>1 DEF Writes, SenderMoves, Stored
    <3>5. QED
      BY <3>3, <3>4
  <2>3. QED
    BY <2>1, <2>2
<1>4. ASSUME NEW s \in Senders, FansOut(s)
      PROVE  Q
  <2>1. /\ req[s].msg \in Tasks /\ work[req[s].msg] = NoWork /\ WorkerMoves(req[s].msg)
        /\ work'[req[s].msg].event = req[s].event
    BY <1>4, FansOutWork
  <2>2. NoWork.event # e
    BY IncidentsAssumption DEF NoWork
  <2>3. SenderMoves(s) /\ UNCHANGED row /\ UNCHANGED snapshot
    BY <1>4 DEF FansOut, Passes, Stops
  <2>4. P
    BY <1>1, <2>3 DEF Stored
  <2>5. CASE e = req[s].event
    BY <2>1, <2>5
  <2>6. CASE e # req[s].event
    BY <2>1, <2>2, <2>3, <2>4, <2>6 DEF SenderMoves, WorkerMoves
  <2>7. QED
    BY <2>5, <2>6
<1>5. ASSUME NEW s \in Senders, GoesPast(s)
      PROVE  Q
  BY <1>1, <1>5 DEF GoesPast, Passes, Stops, SenderMoves, Stored, Places
<1>6. ASSUME NEW w \in Tasks \cup Ripplers, Stores(w) \/ Looks(w) \/ Finds(w)
      PROVE  Q
  BY <1>1, <1>6 DEF Stores, Looks, Finds, Goes, WorkerMoves, Stored
<1>7. ASSUME NEW w \in Tasks \cup Ripplers, Maps(w)
      PROVE  Q
  <2>1. w \notin Tasks
    BY <1>7 DEF Maps, BaseInv, WorkInv, WorkerOk, Materialising
  <2>2. WorkerMoves(w)
    BY <1>7 DEF Maps, Goes, Leaves
  <2>3. QED
    BY <1>1, <1>7, <2>1, <2>2 DEF Maps, WorkerMoves, Stored
<1>8. ASSUME NEW w \in Tasks \cup Ripplers, Saves(w)
      PROVE  Q
  <2>1. /\ work[w].event \in Events /\ work[w].msg # None
        /\ snapshot \in [Events -> FeatureSnapshotRow]
    <3>1. work[w].event \in Events /\ work[w].msg \in Messages
      BY <1>8, WorkerFacts DEF Saves, Materialising
    <3>2. QED
      BY <3>1 DEF BaseInv, RowsType, Messages, None
  <2>2. WorkerMoves(w) /\ UNCHANGED row /\ UNCHANGED req
    BY <1>8 DEF Saves, Goes, Leaves
  <2>3. snapshot'[work[w].event] # None
    BY <1>8, <2>1 DEF Saves
  <2>4. snapshot[e] # None => snapshot'[e] # None
    BY <1>8, <2>1 DEF Saves
  <2>5. P
    BY <1>1, <2>2 DEF Stored
  <2>6. CASE work[w].event = e
    BY <2>3, <2>6
  <2>7. CASE work[w].event # e
    BY <2>2, <2>4, <2>5, <2>7 DEF WorkerMoves
  <2>8. QED
    BY <2>6, <2>7
<1>9. ASSUME NEW w \in Tasks \cup Ripplers, Fails(w)
      PROVE  Q
  BY <1>9 DEF Fails
<1>10. ASSUME NEW w \in Ripplers, Asks(w)
       PROVE  Q
  <2>1. w \notin Tasks
    BY IncidentsAssumption DEF Tasks, Messages
  <2>2. QED
    BY <1>1, <1>10, <2>1 DEF Asks, WorkerMoves, Stored
<1>11. Rests => Q
  BY <1>1 DEF Rests, Stored
<1>12. QED
  BY <1>2, <1>3, <1>4, <1>5, <1>6, <1>7, <1>8, <1>9, <1>10, <1>11, StepEffect

------------------------------------------------------------------------------
(* A closed event leaves the propagation map. *)

LEMMA ClosedInit == Init => ClosedInv
BY DEF Init, ClosedInv

LEMMA ActiveNext ==
  ASSUME BaseInv, ClosedInv, [Next]_vars
  PROVE  active' \subseteq Events
<1>1. active \subseteq Events
  BY DEF ClosedInv
<1>2. ASSUME NEW w \in Tasks \cup Ripplers, Maps(w)
      PROVE  active' \subseteq Events
  BY <1>1, <1>2, WorkerFacts DEF Maps
<1>3. (\E s \in Senders : (\E e \in Events : Starts(s, e)) \/ Writes(s) \/ FansOut(s) \/ GoesPast(s))
        => active' \subseteq Events
  BY <1>1 DEF Starts, Writes, FansOut, GoesPast
<1>4. (\E w \in Tasks \cup Ripplers : Stores(w) \/ Looks(w) \/ Saves(w) \/ Fails(w) \/ Finds(w))
        => active' \subseteq Events
  BY <1>1 DEF Stores, Looks, Saves, Fails, Finds
<1>5. (\E w \in Ripplers : Asks(w)) \/ Rests => active' \subseteq Events
  BY <1>1 DEF Asks, Rests
<1>6. QED
  BY <1>2, <1>3, <1>4, <1>5, StepEffect

LEMMA ClosedNext ==
  ASSUME BaseInv, ClosedInv, [Next]_vars
  PROVE  ClosedInv'
<1>0. active' \subseteq Events
  BY ActiveNext
<1> SUFFICES ASSUME NEW e \in active', row'[e].status = "closed"
             PROVE  e \in excused' \/ \E s \in Senders : WillForget(s, e)'
  BY <1>0 DEF ClosedInv
<1>1. e \in Events /\ e # NoEvent
  BY <1>0, IncidentsAssumption
<1>2. e \in active /\ row[e].status = "closed" => e \in excused \/ \E s \in Senders : WillForget(s, e)
  BY DEF ClosedInv
<1> DEFINE Q == e \in excused' \/ \E s \in Senders : WillForget(s, e)'
<1>3. ASSUME NEW s \in Senders, NEW x \in Events, Starts(s, x)
      PROVE  Q
  <2>1. ~WillForget(s, e)
    BY <1>1, <1>3 DEF Starts, BaseInv, RequestInv, RequestOk, WillForget
  <2>2. \A t \in Senders \ {s} : req'[t] = req[t]
    BY <1>3 DEF Starts, Stops, SenderMoves
  <2>3. QED
    BY <1>2, <1>3, <2>1, <2>2 DEF Starts, WillForget
<1>4. ASSUME NEW s \in Senders, Writes(s)
      PROVE  Q
  <2>1. ~WillForget(s, e) /\ \A t \in Senders \ {s} : req'[t] = req[t]
    BY <1>4 DEF Writes, Stops, SenderMoves, WillForget
  <2>2. CASE row'[e] = row[e]
    BY <1>2, <1>4, <2>1, <2>2 DEF Writes, WillForget
  <2>3. CASE row'[e] # row[e]
    <3>1. PICK x \in NormalizedEventRow :
            /\ row' = [row EXCEPT ![req[s].event] = x]
            /\ x.status = req'[s].status
      BY <1>4, <2>3 DEF Writes
    <3>2. row \in [Events -> NormalizedEventRow]
      BY DEF BaseInv, RowsType
    <3>3. e = req[s].event /\ row'[e] = x
      BY <1>1, <2>3, <3>1, <3>2
    <3>4. req'[s].pc = "fanout" /\ req'[s].event = e /\ req'[s].status = "closed"
      BY <1>4, <2>3, <3>1, <3>3 DEF Writes
    <3>5. WillForget(s, e)'
      BY <3>4 DEF WillForget
    <3>6. QED
      BY <3>5
  <2>4. QED
    BY <2>2, <2>3
<1>5. ASSUME NEW s \in Senders, FansOut(s)
      PROVE  Q
  <2>1. \A t \in Senders \ {s} : req'[t] = req[t]
    BY <1>5 DEF FansOut, Passes, Stops, SenderMoves
  <2>2. WillForget(s, e) => WillForget(s, e)'
    BY <1>5 DEF FansOut, Passes, WillForget, Places
  <2>3. QED
    BY <1>2, <1>5, <2>1, <2>2 DEF FansOut, WillForget
<1>6. ASSUME NEW s \in Senders, GoesPast(s)
      PROVE  Q
  <2>1. \A t \in Senders \ {s} : req'[t] = req[t]
    BY <1>6 DEF GoesPast, Passes, Stops, SenderMoves
  <2>2. WillForget(s, e) => WillForget(s, e)' \/ e \in excused'
    BY <1>6 DEF GoesPast, Passes, WillForget, Places
  <2>3. e \in active /\ row'[e] = row[e] /\ (e \in excused => e \in excused')
    BY <1>6 DEF GoesPast
  <2>4. QED
    BY <1>2, <2>1, <2>2, <2>3 DEF WillForget
<1>7. ASSUME NEW w \in Tasks \cup Ripplers,
             Stores(w) \/ Looks(w) \/ Saves(w) \/ Fails(w) \/ Finds(w)
      PROVE  Q
  <2>1. UNCHANGED <<row, req, active, excused>>
    BY <1>7 DEF Stores, Looks, Saves, Fails, Finds
  <2>2. QED
    BY <1>2, <2>1 DEF WillForget
<1>8. ASSUME NEW w \in Tasks \cup Ripplers, Maps(w)
      PROVE  Q
  <2>1. UNCHANGED <<row, req>> /\ excused \subseteq excused'
    BY <1>8 DEF Maps
  <2>2. e \in active \/ e \in excused'
    BY <1>8, <2>1 DEF Maps
  <2>3. QED
    BY <1>2, <2>1, <2>2 DEF WillForget
<1>9. (\E w \in Ripplers : Asks(w)) \/ Rests => Q
  <2>1. (\E w \in Ripplers : Asks(w)) \/ Rests => UNCHANGED <<row, req, active, excused>>
    BY DEF Asks, Rests
  <2>2. QED
    BY <1>2, <2>1 DEF WillForget
<1>10. QED
  BY <1>3, <1>4, <1>5, <1>6, <1>7, <1>8, <1>9, StepEffect

------------------------------------------------------------------------------
(* Where nothing overlaps, one operation is under way. *)

LEMMA OverlapInit == Init => OverlapInv
<1> SUFFICES ASSUME Init
             PROVE  OverlapInv
  OBVIOUS
<1>1. \A s \in Senders, e \in Events : req[s].event # e
  BY IncidentsAssumption DEF Init, Idle
<1>2. \A w \in Tasks \cup Ripplers, e \in Events : ~On(w, e)
  BY IncidentsAssumption DEF Init, NoWork, On
<1>3. QED
  BY <1>1, <1>2 DEF OverlapInv, Apart, On

(* A worker that goes on takes up no other event. *)
LEMMA WorkersKeep ==
  ASSUME BaseInv, NEW w \in Tasks \cup Ripplers,
         (\E pc : Goes(w, pc)) \/ Leaves(w), NEW e \in Events
  PROVE  /\ \A v \in Tasks \cup Ripplers : On(v, e)' => On(v, e)
         /\ (work[w].event = e => e \notin work[w].todo) =>
              (work'[w].event = e => e \notin work'[w].todo)
<1>1. WorkerMoves(w)
  BY DEF Goes, Leaves
<1>2. NoWork.event # e /\ NoWork.todo = {}
  BY IncidentsAssumption DEF NoWork
<1>3. On(w, e)' => On(w, e)
  BY <1>2 DEF Goes, Leaves, On
<1>4. \A v \in (Tasks \cup Ripplers) \ {w} : On(v, e)' => On(v, e)
  BY <1>1 DEF WorkerMoves, On
<1>5. (work[w].event = e => e \notin work[w].todo) =>
        (work'[w].event = e => e \notin work'[w].todo)
  BY <1>2 DEF Goes, Leaves
<1>6. QED
  BY <1>3, <1>4, <1>5

LEMMA OverlapNext ==
  ASSUME BaseInv, OverlapInv, [Next]_vars
  PROVE  OverlapInv'
<1> SUFFICES ASSUME NEW e \in Events, e \notin overlap'
             PROVE  Apart(e)'
  BY DEF OverlapInv
<1>1. e \notin overlap => Apart(e)
  BY DEF OverlapInv
<1>2. e # NoEvent
  BY IncidentsAssumption
<1>3. ASSUME NEW s \in Senders, NEW x \in Events, Starts(s, x)
      PROVE  Apart(e)'
  <2>1. work' = work /\ e \notin overlap /\ \A t \in Senders \ {s} : req'[t] = req[t]
    BY <1>3 DEF Starts, Stops, SenderMoves
  <2>2. Apart(e)
    BY <1>1, <2>1
  <2>3. CASE req'[s].event # e
    BY <2>1, <2>2, <2>3 DEF Apart, On
  <2>4. CASE req'[s].event = e
    <3>1. ~Busy(e)
      BY <1>2, <1>3, <2>4 DEF Starts, Stops
    <3>2. DOMAIN work = Tasks \cup Ripplers
      BY DEF BaseInv, WorkInv
    <3>3. /\ \A t \in Senders : req[t].event # e
          /\ \A w \in Tasks \cup Ripplers : work[w].event # e /\ e \notin work[w].todo
      BY <3>1, <3>2 DEF Busy
    <3>4. QED
      BY <2>1, <2>4, <3>3 DEF Apart, On
  <2>5. QED
    BY <2>3, <2>4
<1>4. ASSUME NEW s \in Senders, Writes(s)
      PROVE  Apart(e)'
  <2>1. work' = work /\ e \notin overlap /\ \A t \in Senders \ {s} : req'[t] = req[t]
    BY <1>4 DEF Writes, Stops, SenderMoves
  <2>2. Apart(e)
    BY <1>1, <2>1
  <2>3. /\ req[s].pc = "write"
        /\ req'[s].event = e => req[s].event = e /\ req'[s].msg = req[s].msg
    BY <1>2, <1>4 DEF Writes, Stops
  <2>4. QED
    BY <2>1, <2>2, <2>3 DEF Apart, On
<1>5. ASSUME NEW s \in Senders, FansOut(s)
      PROVE  Apart(e)'
  <2> DEFINE m == req[s].msg
  <2>1. /\ m \in Tasks /\ work[m] = NoWork /\ WorkerMoves(m)
        /\ work'[m].event = req[s].event /\ work'[m].todo = {}
    BY <1>5, FansOutWork
  <2>2. e \notin overlap /\ \A t \in Senders \ {s} : req'[t] = req[t]
    BY <1>5 DEF FansOut, Passes, Stops, SenderMoves
  <2>3. /\ req[s].pc = "fanout"
        /\ req'[s].event = e => /\ req[s].event = e /\ req'[s].msg = m
                                /\ req'[s].pc \notin {"write", "fanout"}
    BY <1>2, <1>5 DEF FansOut, Passes, Stops, Places
  <2>4. Apart(e)
    BY <1>1, <2>2
  <2>5. \A w \in (Tasks \cup Ripplers) \ {m} : work'[w] = work[w]
    BY <2>1 DEF WorkerMoves
  <2> HIDE DEF m
  <2>6. CASE req[s].event # e
    <3>2. \A w \in Tasks \cup Ripplers : work'[w].event = e => work[w] = work'[w]
      BY <2>1, <2>5, <2>6 DEF m
    <3>3. \A w \in Tasks \cup Ripplers : e \in work'[w].todo => work[w] = work'[w]
      BY <2>1, <2>5
    <3>4. QED
      BY <2>2, <2>3, <2>4, <2>6, <3>2, <3>3 DEF Apart, On
  <2>7. CASE req[s].event = e
    <3>1. \A t \in Senders \ {s} : req[t].event # e
      BY <2>4, <2>7 DEF Apart
    <3>2. \A w \in (Tasks \cup Ripplers) \ {m} : work'[w].event # e /\ e \notin work'[w].todo
      BY <2>3, <2>4, <2>5, <2>7 DEF Apart, On
    <3>3. e \notin work'[m].todo
      BY <2>1
    <3>4. QED
      BY <2>2, <2>3, <3>1, <3>2, <3>3 DEF Apart, On
  <2>8. QED
    BY <2>6, <2>7
<1>6. ASSUME NEW s \in Senders, GoesPast(s)
      PROVE  Apart(e)'
  <2>1. work' = work /\ e \notin overlap /\ \A t \in Senders \ {s} : req'[t] = req[t]
    BY <1>6 DEF GoesPast, Passes, Stops, SenderMoves
  <2>2. Apart(e)
    BY <1>1, <2>1
  <2>3. req'[s].event = e => /\ req[s].event = e /\ req'[s].msg = req[s].msg
                             /\ req'[s].pc \notin {"write", "fanout"}
    BY <1>2, <1>6 DEF GoesPast, Passes, Stops, Places
  <2>4. QED
    BY <2>1, <2>2, <2>3 DEF Apart, On
<1>7. ASSUME NEW w \in Tasks \cup Ripplers,
             Stores(w) \/ Looks(w) \/ Saves(w) \/ Fails(w) \/ Finds(w) \/ Maps(w)
      PROVE  Apart(e)'
  <2>1. (\E pc : Goes(w, pc)) \/ Leaves(w)
    BY <1>7 DEF Stores, Looks, Saves, Fails, Finds, Maps
  <2>2. req' = req /\ overlap' = overlap
    BY <1>7 DEF Stores, Looks, Saves, Fails, Finds, Maps
  <2>3. Apart(e)
    BY <1>1, <2>2
  <2>4. \A v \in Tasks \cup Ripplers : On(v, e)' => On(v, e)
    BY <2>1, WorkersKeep
  <2>5. \A v \in Tasks \cup Ripplers : work'[v].event = e => e \notin work'[v].todo
    <3>1. work'[w].event = e => e \notin work'[w].todo
      BY <2>1, <2>3, WorkersKeep DEF Apart
    <3>2. \A v \in (Tasks \cup Ripplers) \ {w} : work'[v] = work[v]
      BY <2>1 DEF Goes, Leaves, WorkerMoves
    <3>3. QED
      BY <2>3, <3>1, <3>2 DEF Apart
  <2>6. QED
    BY <2>2, <2>3, <2>4, <2>5 DEF Apart
<1>8. ASSUME NEW w \in Ripplers, Asks(w)
      PROVE  Apart(e)'
  <2>1. PICK S \in SUBSET Events :
          /\ overlap' = overlap \cup {x \in S : Busy(x)}
          /\ work'[w].event \in S /\ work'[w].todo = S \ {work'[w].event}
    BY <1>8 DEF Asks
  <2>2. req' = req /\ \A v \in (Tasks \cup Ripplers) \ {w} : work'[v] = work[v]
    BY <1>8 DEF Asks, WorkerMoves
  <2>3. Apart(e) /\ (e \in S => ~Busy(e))
    BY <1>1, <2>1
  <2>4. CASE e \notin S
    BY <2>1, <2>2, <2>3, <2>4 DEF Apart, On
  <2>5. CASE e \in S
    <3>1. DOMAIN work = Tasks \cup Ripplers
      BY DEF BaseInv, WorkInv
    <3>2. /\ \A t \in Senders : req[t].event # e
          /\ \A v \in Tasks \cup Ripplers : work[v].event # e /\ e \notin work[v].todo
      BY <2>3, <2>5, <3>1 DEF Busy
    <3>3. QED
      BY <2>1, <2>2, <3>2 DEF Apart, On
  <2>6. QED
    BY <2>4, <2>5
<1>9. Rests => Apart(e)'
  BY <1>1 DEF Rests, Apart, On
<1>10. QED
  BY <1>3, <1>4, <1>5, <1>6, <1>7, <1>8, <1>9, StepEffect

------------------------------------------------------------------------------
(* Where nothing overlaps, features and snapshot are those of the row. *)

LEMMA FreshInit == Init => FreshInv
BY DEF Init, FreshInv, Stored

(* What a step leaves alone of an event. *)
LEMMA FreshKept ==
  ASSUME NEW e \in Events, Fresh(e), row'[e] = row[e], snapshot'[e] = snapshot[e],
         features'[e] = features[e] \/ Cached(features'[e], RedisUp) = None,
         \A s \in Senders : (req[s].event = e /\ req[s].pc = "fanout")
                              <=> (req'[s].event = e /\ req'[s].pc = "fanout"),
         \A s \in Senders : req[s].event = e /\ req[s].pc = "fanout" => req'[s].msg = req[s].msg,
         \A w \in Tasks \cup Ripplers :
           (work[w].event = e /\ work[w].pc \in Materialising)
             <=> (work'[w].event = e /\ work'[w].pc \in Materialising),
         \A w \in Tasks \cup Ripplers : work[w].event = e /\ work[w].pc \in Materialising =>
           /\ work'[w].msg = work[w].msg /\ work'[w].pc = work[w].pc
           /\ work'[w].seen = work[w].seen
  PROVE  Fresh(e)'
<1> DEFINE c == Cached(features[e], RedisUp)
<1>1. FannedOut(e) => FannedOut(e)'
  BY DEF FannedOut
<1>2. "store" \in Materialising /\ "save" \in Materialising
  BY DEF Materialising
<1>3. \A w \in Tasks \cup Ripplers : work[w].event = e /\ work[w].pc = "store" =>
        work'[w].event = e /\ work'[w].pc = "store"
  BY <1>2
<1>4. \/ snapshot'[e] = row'[e].msg \/ FannedOut(e)'
      \/ \E w \in Tasks \cup Ripplers : work'[w].event = e /\ work'[w].pc \in Materialising
  BY <1>1 DEF Fresh
<1>5. \/ Cached(features'[e], RedisUp) \in {None, row'[e].msg} \/ FannedOut(e)'
      \/ \E w \in Tasks \cup Ripplers : work'[w].event = e /\ work'[w].pc = "store"
  <2>1. CASE Cached(features'[e], RedisUp) = None
    BY <2>1
  <2>2. CASE features'[e] = features[e]
    BY <1>1, <1>3, <2>2 DEF Fresh
  <2>3. QED
    BY <2>1, <2>2
<1>6. \A s \in Senders : req'[s].event = e /\ req'[s].pc = "fanout" => req'[s].msg = row'[e].msg
  BY DEF Fresh
<1>7. \A w \in Tasks \cup Ripplers :
        work'[w].event = e /\ work'[w].pc \in Materialising =>
          /\ work'[w].msg = row'[e].msg
          /\ work'[w].pc = "save" /\ ~work'[w].seen => snapshot'[e] = None
  BY DEF Fresh
<1>8. QED
  BY <1>4, <1>5, <1>6, <1>7 DEF Fresh

LEMMA WritesFresh ==
  ASSUME BaseInv, OverlapInv, OverlapInv', NEW e \in Events, e \notin overlap', NEW s \in Senders, Writes(s),
         Stored(e) => Fresh(e), row'[e].status # "absent"
  PROVE  Fresh(e)'
<1>1. /\ Apart(e) /\ req[s].pc = "write" /\ UNCHANGED <<work, snapshot, features>>
      /\ \A t \in Senders \ {s} : req'[t] = req[t]
  BY DEF Writes, OverlapInv, Stops, SenderMoves
<1>2. CASE row'[e] = row[e] /\ ~(req'[s].event = e /\ req'[s].pc = "fanout")
  BY <1>1, <1>2, FreshKept DEF Stored
<1>3. CASE ~(row'[e] = row[e] /\ ~(req'[s].event = e /\ req'[s].pc = "fanout"))
  <2>1. ~Stops(s)
    <3>1. CASE Stops(s)
      <4>1. UNCHANGED row \/ req'[s].pc = "fanout"
        BY DEF Writes
      <4>2. QED
        BY <1>3, <3>1, <4>1 DEF Stops
    <3>2. QED
      BY <3>1
  <2>2. PICK x \in NormalizedEventRow : row' = [row EXCEPT ![req[s].event] = x] /\ x.msg = req[s].msg
    BY <2>1 DEF Writes
  <2>3. req'[s].pc = "fanout" /\ req'[s].event = req[s].event /\ req'[s].msg = req[s].msg
    BY <2>1 DEF Writes
  <2>4. row \in [Events -> NormalizedEventRow]
    BY DEF BaseInv, RowsType
  <2>5. req[s].event = e
    BY <1>3, <2>2, <2>3, <2>4
  <2>6. row'[e].msg = req'[s].msg
    BY <2>2, <2>3, <2>4, <2>5
  <2>7. FannedOut(e)'
    BY <2>3, <2>5 DEF FannedOut
  <2>8. \A t \in Senders : req'[t].event = e => t = s
    BY <1>1, <2>5 DEF Apart
  <2>9. \A w \in Tasks \cup Ripplers : work'[w].event # e
    BY <1>1, <2>5 DEF Apart, On
  <2>10. QED
    BY <2>6, <2>7, <2>8, <2>9 DEF Fresh
<1>4. QED
  BY <1>2, <1>3

LEMMA FansOutFresh ==
  ASSUME BaseInv, OverlapInv, NEW e \in Events, e \notin overlap', NEW s \in Senders, FansOut(s),
         Stored(e) => Fresh(e), row'[e].status # "absent"
  PROVE  Fresh(e)'
<1> PICK m \in Tasks : m = req[s].msg
  BY FansOutWork
<1>1. /\ work[m] = NoWork /\ \A w \in (Tasks \cup Ripplers) \ {m} : work'[w] = work[w]
      /\ work'[m].pc = "store" /\ work'[m].event = req[s].event /\ work'[m].msg = m
  BY FansOutWork DEF WorkerMoves
<1>2. /\ Apart(e) /\ req[s].pc = "fanout" /\ UNCHANGED <<row, snapshot, features>>
      /\ \A t \in Senders \ {s} : req'[t] = req[t]
      /\ req'[s].pc # "fanout"
  BY DEF FansOut, OverlapInv, Passes, Stops, SenderMoves, Places
<1>3. Fresh(e)
  BY <1>2 DEF Stored
<1>4. NoWork.event # e /\ NoWork.pc \notin Materialising
  BY IncidentsAssumption DEF NoWork, Materialising
<1>5. CASE req[s].event # e
  BY <1>1, <1>2, <1>3, <1>4, <1>5, FreshKept
<1>6. CASE req[s].event = e
  <2>1. m = row'[e].msg
    BY <1>2, <1>3, <1>6 DEF Fresh
  <2>2. \A t \in Senders : ~(req'[t].event = e /\ req'[t].pc = "fanout")
    BY <1>2, <1>6 DEF Apart
  <2>3. \A w \in Tasks \cup Ripplers : work'[w].event = e => w = m
    BY <1>1, <1>2, <1>6 DEF Apart, On
  <2>4. work'[m].pc \in Materialising /\ work'[m].pc # "save"
    BY <1>1 DEF Materialising
  <2>5. QED
    BY <1>1, <1>6, <2>1, <2>2, <2>3, <2>4 DEF Fresh
<1>7. QED
  BY <1>5, <1>6

LEMMA GoesPastFresh ==
  ASSUME BaseInv, NEW e \in Events, hiccups' = 0, NEW s \in Senders, GoesPast(s), Fresh(e)
  PROVE  Fresh(e)'
<1>1. /\ req[s].pc # "fanout" /\ req'[s].pc # "fanout" /\ UNCHANGED <<row, snapshot, work>>
      /\ \A t \in Senders \ {s} : req'[t] = req[t]
  BY DEF GoesPast, Passes, Stops, SenderMoves, Places
<1>2. features'[e] = features[e] \/ Cached(features'[e], RedisUp) = None
  <2>1. CASE UNCHANGED features
    BY <2>1
  <2>2. ASSUME NEW l \in Layers(Messages \cup {None}),
               features' = [features EXCEPT ![req[s].event] = l], Cached(l, RedisUp) = None
        PROVE  features'[e] = features[e] \/ Cached(features'[e], RedisUp) = None
    <3>1. features \in [Events -> Layers(Messages \cup {None})]
      BY DEF BaseInv, RowsType
    <3>2. features'[e] = features[e] \/ features'[e] = l
      BY <2>2, <3>1
    <3>3. QED
      BY <2>2, <3>2
  <2>3. QED
    BY <2>1, <2>2 DEF GoesPast
<1>3. QED
  BY <1>1, <1>2, FreshKept

LEMMA StoresFresh ==
  ASSUME BaseInv, OverlapInv, NEW e \in Events \ overlap, hiccups' = 0,
         NEW w \in Tasks \cup Ripplers, Stores(w), Fresh(e)
  PROVE  Fresh(e)'
<1>1. /\ work[w].pc = "store" /\ work'[w].pc = "look" /\ work'[w].event = work[w].event
      /\ work'[w].msg = work[w].msg
      /\ UNCHANGED <<row, snapshot, req>>
      /\ \A v \in (Tasks \cup Ripplers) \ {w} : work'[v] = work[v]
  BY DEF Stores, Goes, WorkerMoves
<1>2. PICK l \in Layers(Messages \cup {None}) :
        features' = [features EXCEPT ![work[w].event] = l] /\ Cached(l, RedisUp) = work[w].msg
  BY DEF Stores
<1>3. features \in [Events -> Layers(Messages \cup {None})]
  BY DEF BaseInv, RowsType
<1>4. CASE work[w].event # e
  <2>1. features'[e] = features[e]
    BY <1>2, <1>3, <1>4
  <2>2. QED
    BY <1>1, <1>4, <2>1, FreshKept
<1>5. CASE work[w].event = e
  <2>1. features'[e] = l
    BY <1>2, <1>3, <1>5
  <2>2. work[w].msg = row[e].msg
    BY <1>1, <1>5 DEF Fresh, Materialising
  <2>3. Cached(features'[e], RedisUp) \in {None, row'[e].msg}
    BY <1>1, <1>2, <2>1, <2>2
  <2>4. \A v \in Tasks \cup Ripplers : work[v].event = e => v = w
    BY <1>5 DEF OverlapInv, Apart, On
  <2>5. work'[w].event = e /\ work'[w].pc \in Materialising /\ work'[w].pc # "save"
    BY <1>1, <1>5 DEF Materialising
  <2>6. \A s \in Senders : req'[s].event = e /\ req'[s].pc = "fanout" => req'[s].msg = row'[e].msg
    BY <1>1 DEF Fresh
  <2>7. \A v \in Tasks \cup Ripplers : work'[v].event = e => v = w
    BY <1>1, <2>4
  <2>8. QED
    BY <1>1, <2>2, <2>3, <2>5, <2>6, <2>7 DEF Fresh
<1>6. QED
  BY <1>4, <1>5

LEMMA LooksFresh ==
  ASSUME BaseInv, NEW e \in Events, NEW w \in Tasks \cup Ripplers, Looks(w), Fresh(e)
  PROVE  Fresh(e)'
<1>1. /\ work[w].pc = "look" /\ work'[w].pc = "save" /\ work'[w].event = work[w].event
      /\ work'[w].msg = work[w].msg /\ work'[w].seen = (snapshot[work[w].event] # None)
      /\ UNCHANGED <<row, snapshot, features, req>>
      /\ \A v \in (Tasks \cup Ripplers) \ {w} : work'[v] = work[v]
  BY DEF Looks, Goes, WorkerMoves
<1>2. FannedOut(e)' <=> FannedOut(e)
  BY <1>1 DEF FannedOut
<1>3. \A v \in Tasks \cup Ripplers :
        (work[v].event = e /\ work[v].pc \in Materialising)
          <=> (work'[v].event = e /\ work'[v].pc \in Materialising)
  BY <1>1 DEF Materialising
<1>4. \A v \in Tasks \cup Ripplers :
        work'[v].event = e /\ work'[v].pc \in Materialising =>
          /\ work'[v].msg = row'[e].msg
          /\ work'[v].pc = "save" /\ ~work'[v].seen => snapshot'[e] = None
  BY <1>1, <1>3 DEF Fresh
<1>5. \A v \in Tasks \cup Ripplers : work[v].event = e /\ work[v].pc = "store" =>
        work'[v].event = e /\ work'[v].pc = "store"
  BY <1>1
<1>6. \A s \in Senders : req'[s].event = e /\ req'[s].pc = "fanout" => req'[s].msg = row'[e].msg
  BY <1>1 DEF Fresh
<1>7. \/ snapshot'[e] = row'[e].msg \/ FannedOut(e)'
      \/ \E v \in Tasks \cup Ripplers : work'[v].event = e /\ work'[v].pc \in Materialising
  BY <1>1, <1>2, <1>3 DEF Fresh
<1>8. \/ Cached(features'[e], RedisUp) \in {None, row'[e].msg} \/ FannedOut(e)'
      \/ \E v \in Tasks \cup Ripplers : work'[v].event = e /\ work'[v].pc = "store"
  BY <1>1, <1>2, <1>5 DEF Fresh
<1>9. QED
  BY <1>4, <1>6, <1>7, <1>8 DEF Fresh

LEMMA SavesFresh ==
  ASSUME BaseInv, OverlapInv, NEW e \in Events \ overlap,
         NEW w \in Tasks \cup Ripplers, Saves(w), Fresh(e)
  PROVE  Fresh(e)'
<1>1. /\ work[w].pc = "save" /\ UNCHANGED <<row, features, req>>
      /\ \A v \in (Tasks \cup Ripplers) \ {w} : work'[v] = work[v]
  BY DEF Saves, Goes, Leaves, WorkerMoves
<1>2. work'[w].pc \notin Materialising
  BY DEF Saves, Goes, Leaves, NoWork, Materialising
<1>3. snapshot \in [Events -> FeatureSnapshotRow] /\ work[w].event \in Events
  BY <1>1, WorkerFacts DEF BaseInv, RowsType
<1>4. CASE work[w].event # e
  <2>1. snapshot'[e] = snapshot[e]
    BY <1>3, <1>4 DEF Saves
  <2>2. QED
    BY <1>1, <1>2, <1>4, <2>1, FreshKept
<1>5. CASE work[w].event = e
  <2>1. work[w].msg = row[e].msg /\ (~work[w].seen => snapshot[e] = None)
    BY <1>1, <1>5 DEF Fresh, Materialising
  <2>2. snapshot' = [snapshot EXCEPT ![e] = work[w].msg]
    BY <1>5, <2>1 DEF Saves
  <2>3. snapshot'[e] = row'[e].msg
    BY <1>1, <1>3, <2>1, <2>2
  <2>4. \A v \in Tasks \cup Ripplers : work[v].event = e => v = w
    BY <1>5 DEF OverlapInv, Apart, On
  <2>5. \A v \in Tasks \cup Ripplers : ~(work'[v].event = e /\ work'[v].pc \in Materialising)
    BY <1>1, <1>2, <2>4
  <2>6. Cached(features'[e], RedisUp) \in {None, row'[e].msg} \/ FannedOut(e)'
    <3>1. ~\E v \in Tasks \cup Ripplers : work[v].event = e /\ work[v].pc = "store"
      BY <1>1, <2>4
    <3>2. Cached(features[e], RedisUp) \in {None, row[e].msg} \/ FannedOut(e)
      BY <3>1 DEF Fresh
    <3>3. QED
      BY <1>1, <3>2 DEF FannedOut
  <2>7. \A s \in Senders : req'[s].event = e /\ req'[s].pc = "fanout" => req'[s].msg = row'[e].msg
    BY <1>1 DEF Fresh
  <2>8. QED
    BY <2>3, <2>5, <2>6, <2>7 DEF Fresh
<1>6. QED
  BY <1>4, <1>5

LEMMA FindsFresh ==
  ASSUME BaseInv, NEW e \in Events, NEW w \in Tasks \cup Ripplers, Finds(w), Fresh(e)
  PROVE  Fresh(e)'
<1>1. /\ work[w].pc = "lookup" /\ work'[w].event = work[w].event
      /\ UNCHANGED <<row, snapshot, features, req>>
      /\ \A v \in (Tasks \cup Ripplers) \ {w} : work'[v] = work[v]
      /\ \/ work'[w].pc = "map"
         \/ work'[w].pc = "store" /\ work'[w].msg = row[work[w].event].msg
  BY DEF Finds, Goes, WorkerMoves
<1>2. FannedOut(e)' <=> FannedOut(e)
  BY <1>1 DEF FannedOut
<1>3. \A v \in Tasks \cup Ripplers :
        work[v].event = e /\ work[v].pc \in Materialising => work'[v] = work[v]
  BY <1>1 DEF Materialising
<1>4. \A v \in Tasks \cup Ripplers :
        work'[v].event = e /\ work'[v].pc \in Materialising =>
          /\ work'[v].msg = row'[e].msg
          /\ work'[v].pc = "save" /\ ~work'[v].seen => snapshot'[e] = None
  BY <1>1 DEF Fresh, Materialising
<1>5. \A s \in Senders : req'[s].event = e /\ req'[s].pc = "fanout" => req'[s].msg = row'[e].msg
  BY <1>1 DEF Fresh
<1>6. \/ snapshot'[e] = row'[e].msg \/ FannedOut(e)'
      \/ \E v \in Tasks \cup Ripplers : work'[v].event = e /\ work'[v].pc \in Materialising
  BY <1>1, <1>2, <1>3 DEF Fresh
<1>7. \/ Cached(features'[e], RedisUp) \in {None, row'[e].msg} \/ FannedOut(e)'
      \/ \E v \in Tasks \cup Ripplers : work'[v].event = e /\ work'[v].pc = "store"
  BY <1>1, <1>2 DEF Fresh
<1>8. QED
  BY <1>4, <1>5, <1>6, <1>7 DEF Fresh

LEMMA FreshNext ==
  ASSUME BaseInv, OverlapInv, OverlapInv', FreshInv, [Next]_vars
  PROVE  FreshInv'
<1> SUFFICES ASSUME hiccups' = 0, faults' = 0, NEW e \in Events, e \notin overlap',
                    row'[e].status # "absent"
             PROVE  Fresh(e)'
  BY DEF FreshInv, Stored
<1>1. e \notin overlap /\ Stored(e) => Fresh(e)
  BY FrameNext DEF Frame, FreshInv
<1>2. ASSUME NEW s \in Senders, NEW x \in Events, Starts(s, x)
      PROVE  Fresh(e)'
  <2>1. /\ req[s].pc # "fanout" /\ req'[s].pc # "fanout" /\ e \notin overlap
        /\ UNCHANGED <<row, snapshot, features, work>>
        /\ \A t \in Senders \ {s} : req'[t] = req[t]
    BY <1>2 DEF Starts, Stops, SenderMoves, Going
  <2>2. QED
    BY <1>1, <2>1, FreshKept DEF Stored
<1>3. ASSUME NEW s \in Senders, Writes(s)
      PROVE  Fresh(e)'
  BY <1>1, <1>3, WritesFresh DEF Writes
<1>4. ASSUME NEW s \in Senders, FansOut(s)
      PROVE  Fresh(e)'
  BY <1>1, <1>4, FansOutFresh DEF FansOut
<1>5. ASSUME NEW s \in Senders, GoesPast(s)
      PROVE  Fresh(e)'
  BY <1>1, <1>5, GoesPastFresh DEF GoesPast, Stored
<1>6. ASSUME NEW w \in Tasks \cup Ripplers, Stores(w)
      PROVE  Fresh(e)'
  BY <1>1, <1>6, StoresFresh DEF Stores, Stored
<1>7. ASSUME NEW w \in Tasks \cup Ripplers, Looks(w)
      PROVE  Fresh(e)'
  BY <1>1, <1>7, LooksFresh DEF Looks, Stored
<1>8. ASSUME NEW w \in Tasks \cup Ripplers, Saves(w)
      PROVE  Fresh(e)'
  BY <1>1, <1>8, SavesFresh DEF Saves, Stored
<1>9. ASSUME NEW w \in Tasks \cup Ripplers, Finds(w)
      PROVE  Fresh(e)'
  BY <1>1, <1>9, FindsFresh DEF Finds, Stored
<1>10. ASSUME NEW w \in Tasks \cup Ripplers, Maps(w) \/ (Asks(w) /\ w \in Ripplers)
       PROVE  Fresh(e)'
  <2>1. /\ work[w].pc \notin Materialising /\ work'[w].pc \notin Materialising
        /\ UNCHANGED <<row, snapshot, features, req>>
        /\ \A v \in (Tasks \cup Ripplers) \ {w} : work'[v] = work[v]
    BY <1>10 DEF Maps, Asks, Goes, Leaves, WorkerMoves, NoWork, Materialising
  <2>2. e \notin overlap
    BY <1>10 DEF Maps, Asks
  <2>3. QED
    BY <1>1, <2>1, <2>2, FreshKept DEF Stored
<1>11. Rests => Fresh(e)'
  BY <1>1, FreshKept DEF Rests, Stored
<1>12. ASSUME NEW w \in Tasks \cup Ripplers, Fails(w)
       PROVE  Fresh(e)'
  BY <1>12 DEF Fails
<1>13. QED
  BY <1>2, <1>3, <1>4, <1>5, <1>6, <1>7, <1>8, <1>9, <1>10, <1>11, <1>12, StepEffect

------------------------------------------------------------------------------
(* The dashboards' lists, the ripples, the counts and the history.            *)

Lists ==
  /\ conns \in Seq(Sockets) /\ socket \in [Sockets -> {"new", "open", "gone", "left"}]
  /\ \A s \in Senders : req[s].sent \in Seq(Sockets)

Maplets == ripple \in [Events -> Layers({None, 1})]

Counted ==
  /\ asked \in 0..MaxRipples
  /\ hiccups \in Nat /\ faults \in Nat /\ hiccups + faults <= MaxFaults

Recorded == overlap \subseteq Events /\ excused \subseteq Events

RestInv == Lists /\ Maplets /\ Counted /\ Recorded

(* Unregistering keeps a list of dashboards. *)
LEMMA WithoutType ==
  ASSUME conns \in Seq(Sockets), NEW dropped
  PROVE  Without(dropped) \in Seq(Sockets)
<1>1. PICK D : D = Seq(Sockets)
  OBVIOUS
<1>2. PICK ss : ss = [i \in DOMAIN conns |-> IF conns[i] \in dropped THEN <<>> ELSE <<conns[i]>>]
  OBVIOUS
<1>3. ASSUME NEW n \in DOMAIN conns PROVE ss[n] \in D
  <2>1. PICK c \in Sockets : c = conns[n]
    BY ElementType
  <2>2. <<>> \in Seq(Sockets) /\ <<c>> \in Seq(Sockets)
    OBVIOUS
  <2>3. QED
    BY <1>1, <1>2, <2>1, <2>2
<1>4. PICK N \in Nat : DOMAIN conns = 1 .. N
  OBVIOUS
<1>5. ss \in [1 .. N -> D]
  BY <1>2, <1>3, <1>4
<1>6. ss \in Seq(D)
  BY <1>5
<1>7. QED
  BY <1>1, <1>2, <1>6, FlattenType DEF Without

(* A request is replaced by one that sends to a list of dashboards. *)
LEMMA SentReplaced ==
  ASSUME BaseInv, Lists, NEW s \in Senders, NEW r, r.sent \in Seq(Sockets),
         req' = [req EXCEPT ![s] = r]
  PROVE  \A t \in Senders : req'[t].sent \in Seq(Sockets)
<1>1. req = [t \in Senders |-> req[t]]
  BY SenderFacts
<1>2. req' = [t \in Senders |-> IF t = s THEN r ELSE req[t]]
  BY <1>1
<1>3. QED
  BY <1>2 DEF Lists

LEMMA SentMoved ==
  ASSUME BaseInv, Lists, NEW s \in Senders, NEW pc, req' = [req EXCEPT ![s].pc = pc]
  PROVE  \A t \in Senders : req'[t].sent \in Seq(Sockets)
<1> DEFINE r == [req[s] EXCEPT !.pc = pc]
<1>1. RequestShape(req[s]) /\ req = [t \in Senders |-> req[t]]
  BY SenderFacts
<1>2. r.sent = req[s].sent
  BY <1>1 DEF RequestShape
<1>3. r.sent \in Seq(Sockets)
  BY <1>2 DEF Lists
<1>4. req' = [req EXCEPT ![s] = r]
  BY <1>1
<1> HIDE DEF r
<1>5. QED
  BY <1>3, <1>4, SentReplaced

LEMMA SentTo ==
  ASSUME BaseInv, Lists, NEW s \in Senders, NEW pc, NEW l \in Seq(Sockets),
         req' = [req EXCEPT ![s].pc = pc, ![s].sent = l]
  PROVE  \A t \in Senders : req'[t].sent \in Seq(Sockets)
<1> DEFINE r == [req[s] EXCEPT !.pc = pc, !.sent = l]
<1>1. RequestShape(req[s]) /\ req = [t \in Senders |-> req[t]]
  BY SenderFacts
<1>2. r.sent \in Seq(Sockets)
  BY <1>1 DEF RequestShape
<1>3. req' = [req EXCEPT ![s] = r]
  BY <1>1
<1> HIDE DEF r
<1>4. QED
  BY <1>2, <1>3, SentReplaced

LEMMA SentEnd ==
  ASSUME BaseInv, Lists, NEW s \in Senders, End(s)
  PROVE  \A t \in Senders : req'[t].sent \in Seq(Sockets)
<1>1. Idle.sent \in Seq(Sockets)
  BY DEF Idle
<1>2. QED
  BY <1>1, SentReplaced DEF End

LEMMA SentFinish ==
  ASSUME BaseInv, Lists, NEW s \in Senders, Finish(s, req[s])
  PROVE  \A t \in Senders : req'[t].sent \in Seq(Sockets)
<1>1. CASE req[s].status = "closed"
  <2> DEFINE r == [req[s] EXCEPT !.pc = "evict", !.sent = <<>>]
  <2>1. RequestShape(req[s])
    BY SenderFacts
  <2>2. r.sent \in Seq(Sockets)
    BY <2>1 DEF RequestShape
  <2>3. req' = [req EXCEPT ![s] = r]
    BY <1>1 DEF Finish
  <2> HIDE DEF r
  <2>4. QED
    BY <2>2, <2>3, SentReplaced
<1>2. CASE req[s].status # "closed"
  BY <1>2, SentEnd DEF Finish, End
<1>3. QED
  BY <1>1, <1>2

LEMMA ListsNext ==
  ASSUME BaseInv, Lists, [Next]_vars
  PROVE  Lists'
<1>0. /\ conns \in Seq(Sockets) /\ socket \in [Sockets -> {"new", "open", "gone", "left"}]
      /\ \A s \in Senders : req[s].sent \in Seq(Sockets)
  BY DEF Lists
<1>1. ASSUME NEW s \in Senders, NEW e \in Events, NEW st \in Statuses, Ingest(s, e, st)
      PROVE  Lists'
  <2>1. UNCHANGED <<conns, socket>>
    BY <1>1 DEF Ingest, busVars
  <2>2. CASE End(s)
    BY <1>0, <2>1, <2>2, SentEnd DEF Lists
  <2>3. CASE req' = [req EXCEPT ![s] = [Idle EXCEPT !.pc = "write", !.event = e,
                       !.msg = received', !.status = st, !.seen = row[e].status]]
    <3> DEFINE r == [Idle EXCEPT !.pc = "write", !.event = e,
                       !.msg = received', !.status = st, !.seen = row[e].status]
    <3>1. r.sent \in Seq(Sockets)
      BY DEF Idle
    <3>2. req' = [req EXCEPT ![s] = r]
      BY <2>3
    <3> HIDE DEF r
    <3>3. QED
      BY <1>0, <2>1, <3>1, <3>2, SentReplaced DEF Lists
  <2>4. QED
    BY <1>1, <2>2, <2>3 DEF Ingest
<1>2. ASSUME NEW s \in Senders, WriteRow(s)
      PROVE  Lists'
  <2>1. UNCHANGED <<conns, socket>>
    BY <1>2 DEF WriteRow, busVars
  <2>2. CASE End(s)
    BY <1>0, <2>1, <2>2, SentEnd DEF Lists
  <2>3. CASE req' = [req EXCEPT ![s].pc = "fanout", ![s].status = row'[req[s].event].status]
    <3>1. PICK st : st = row'[req[s].event].status
      OBVIOUS
    <3> DEFINE r == [req[s] EXCEPT !.pc = "fanout", !.status = st]
    <3>2. RequestShape(req[s]) /\ req = [t \in Senders |-> req[t]]
      BY SenderFacts
    <3>3. r.sent \in Seq(Sockets)
      BY <1>0, <3>2 DEF RequestShape
    <3>4. req' = [req EXCEPT ![s] = r]
      BY <2>3, <3>1, <3>2
    <3> HIDE DEF r
    <3>5. QED
      BY <1>0, <2>1, <3>3, <3>4, SentReplaced DEF Lists
  <2>4. QED
    BY <1>2, <2>2, <2>3 DEF WriteRow
<1>3. ASSUME NEW s \in Senders, Fanout(s)
      PROVE  Lists'
  <2>1. UNCHANGED <<conns, socket>>
    BY <1>3 DEF Fanout, busVars
  <2>2. \A t \in Senders : req'[t].sent \in Seq(Sockets)
    BY <1>0, <1>3, SentFinish, SentTo DEF Fanout
  <2>3. QED
    BY <1>0, <2>1, <2>2 DEF Lists
<1>4. ASSUME NEW s \in Senders, HotspotSent(s)
      PROVE  Lists'
  <2>1. PICK failed \in Failures(req[s].sent) :
          /\ conns' = Unregistered(failed)
          /\ \/ req' = [req EXCEPT ![s] = [Idle EXCEPT !.pc = "broken"]]
             \/ Finish(s, req[s])
             \/ req' = [req EXCEPT ![s].pc = "incident", ![s].sent = conns']
    BY <1>4 DEF HotspotSent
  <2>2. conns' \in Seq(Sockets)
    BY <1>0, <2>1, WithoutType DEF Unregistered
  <2>3. PICK l \in Seq(Sockets) : l = conns'
    BY <2>2
  <2>4. CASE req' = [req EXCEPT ![s] = [Idle EXCEPT !.pc = "broken"]]
    <3> DEFINE r == [Idle EXCEPT !.pc = "broken"]
    <3>1. r.sent \in Seq(Sockets)
      BY DEF Idle
    <3>2. req' = [req EXCEPT ![s] = r]
      BY <2>4
    <3> HIDE DEF r
    <3>3. \A t \in Senders : req'[t].sent \in Seq(Sockets)
      BY <3>1, <3>2, SentReplaced
    <3>4. QED
      BY <1>0, <1>4, <2>2, <3>3 DEF Lists, HotspotSent
  <2>5. CASE Finish(s, req[s])
    BY <1>0, <1>4, <2>2, <2>5, SentFinish DEF Lists, HotspotSent
  <2>6. CASE req' = [req EXCEPT ![s].pc = "incident", ![s].sent = conns']
    <3>1. \A t \in Senders : req'[t].sent \in Seq(Sockets)
      BY <2>3, <2>6, SentTo
    <3>2. QED
      BY <1>0, <1>4, <2>2, <3>1 DEF Lists, HotspotSent
  <2>7. QED
    BY <2>1, <2>4, <2>5, <2>6
<1>5. ASSUME NEW s \in Senders, IncidentSent(s)
      PROVE  Lists'
  <2>1. conns' \in Seq(Sockets)
    BY <1>0, <1>5, WithoutType DEF IncidentSent, Unregistered
  <2>2. QED
    BY <1>0, <1>5, <2>1, SentFinish DEF Lists, IncidentSent
<1>6. ASSUME NEW s \in Senders, Evict(s) \/ Forget(s) \/ Discard(s)
      PROVE  Lists'
  <2>1. UNCHANGED <<conns, socket>>
    BY <1>6 DEF Evict, Forget, Discard, busVars
  <2>2. \A t \in Senders : req'[t].sent \in Seq(Sockets)
    BY <1>0, <1>6, SentMoved, SentEnd DEF Evict, Forget, Discard
  <2>3. QED
    BY <1>0, <2>1, <2>2 DEF Lists
<1>7. ASSUME NEW w \in Tasks \cup Ripplers, WorkerStep(w) \/ MaterialiseFault(w)
      PROVE  Lists'
  <2>1. UNCHANGED <<conns, socket, req>>
    BY <1>7 DEF WorkerStep, Store, LookForSnapshot, SaveSnapshot, Lookup, WriteMap, AddActive,
                MaterialiseFault, busVars
  <2>2. QED
    BY <1>0, <2>1 DEF Lists
<1>8. ASSUME NEW w \in Ripplers, AskActive(w) \/ \E e \in Events : AskRipple(w, e)
      PROVE  Lists'
  <2>1. UNCHANGED <<conns, socket, req>>
    BY <1>8 DEF AskActive, AskRipple, busVars
  <2>2. QED
    BY <1>0, <2>1 DEF Lists
<1>9. ASSUME NEW c \in Sockets, Join(c)
      PROVE  Lists'
  <2>1. UNCHANGED req /\ conns' \in Seq(Sockets)
    BY <1>0, <1>9 DEF Join
  <2>2. socket' \in [Sockets -> {"new", "open", "gone", "left"}]
    BY <1>0, <1>9 DEF Join
  <2>3. QED
    BY <1>0, <2>1, <2>2 DEF Lists
<1>10. ASSUME NEW c \in Sockets, Leave(c)
       PROVE  Lists'
  BY <1>0, <1>10 DEF Leave, Lists
<1>11. ASSUME NEW c \in Sockets, Disconnect(c)
       PROVE  Lists'
  <2>1. UNCHANGED req /\ conns' \in Seq(Sockets)
    BY <1>0, <1>11, WithoutType DEF Disconnect
  <2>2. socket' \in [Sockets -> {"new", "open", "gone", "left"}]
    BY <1>0, <1>11 DEF Disconnect
  <2>3. QED
    BY <1>0, <2>1, <2>2 DEF Lists
<1>12. UNCHANGED vars => Lists'
  BY <1>0 DEF vars, busVars, Lists
<1>13. QED
  BY <1>1, <1>2, <1>3, <1>4, <1>5, <1>6, <1>7, <1>8, <1>9, <1>10, <1>11, <1>12
  DEF Next, SenderStep

LEMMA MapletsNext ==
  ASSUME BaseInv, Maplets, [Next]_vars
  PROVE  Maplets'
<1>0. ripple \in [Events -> Layers({None, 1})]
  BY DEF Maplets
<1>1. ASSUME NEW e \in Events, NEW l \in Layers({None, 1}), ripple' = [ripple EXCEPT ![e] = l]
      PROVE  Maplets'
  BY <1>0, <1>1 DEF Maplets
<1>2. ASSUME NEW s \in Senders, Forget(s)
      PROVE  Maplets'
  <2>1. PICK e \in Events : e = req[s].event
    BY <1>2, SenderFacts DEF Forget, Going
  <2>2. PICK ok \in BOOLEAN : ripple' = [ripple EXCEPT ![e].redis = IF ok THEN None ELSE @]
    BY <1>2, <2>1 DEF Forget
  <2> DEFINE l == [ripple[e] EXCEPT !.redis = IF ok THEN None ELSE @]
  <2>3. l \in Layers({None, 1})
    BY <1>0 DEF Layers
  <2>4. ripple' = [ripple EXCEPT ![e] = l]
    BY <1>0, <2>2
  <2> HIDE DEF l
  <2>5. QED
    BY <1>1, <2>3, <2>4
<1>3. ASSUME NEW s \in Senders, Discard(s)
      PROVE  Maplets'
  <2>1. PICK e \in Events : e = req[s].event
    BY <1>3, SenderFacts DEF Discard, Going
  <2> DEFINE l == [ripple[e] EXCEPT !.memory = None]
  <2>2. l \in Layers({None, 1})
    BY <1>0 DEF Layers
  <2>3. ripple' = [ripple EXCEPT ![e] = l]
    BY <1>0, <1>3, <2>1 DEF Discard
  <2> HIDE DEF l
  <2>4. QED
    BY <1>1, <2>2, <2>3
<1>4. ASSUME NEW w \in Tasks \cup Ripplers, WriteMap(w)
      PROVE  Maplets'
  <2>1. PICK e \in Events : e = work[w].event
    BY <1>4, WorkerFacts DEF WriteMap
  <2>2. PICK ok \in BOOLEAN : ripple' = [ripple EXCEPT ![e] = Written(ripple[e], 1, ok)]
    BY <1>4, <2>1 DEF WriteMap
  <2> DEFINE l == Written(ripple[e], 1, ok)
  <2>3. l \in Layers({None, 1})
    BY <1>0 DEF Layers, Written
  <2> HIDE DEF l
  <2>4. ripple' = [ripple EXCEPT ![e] = l]
    BY <2>2 DEF l
  <2>5. QED
    BY <1>1, <2>3, <2>4
<1>5. UNCHANGED ripple => Maplets'
  BY <1>0 DEF Maplets
<1>6. ASSUME NEW s \in Senders, SenderStep(s)
      PROVE  Maplets'
  BY <1>2, <1>3, <1>5, <1>6
  DEF SenderStep, WriteRow, Fanout, HotspotSent, IncidentSent, Evict, cacheVars
<1>7. ASSUME NEW w \in Tasks \cup Ripplers, WorkerStep(w) \/ MaterialiseFault(w)
      PROVE  Maplets'
  BY <1>4, <1>5, <1>7
  DEF WorkerStep, Store, LookForSnapshot, SaveSnapshot, Lookup, AddActive, MaterialiseFault,
      cacheVars
<1>8. ASSUME NEW s \in Senders, NEW e \in Events, NEW st \in Statuses, Ingest(s, e, st)
      PROVE  Maplets'
  BY <1>5, <1>8 DEF Ingest, cacheVars
<1>9. ASSUME NEW w \in Ripplers, AskActive(w) \/ \E e \in Events : AskRipple(w, e)
      PROVE  Maplets'
  BY <1>5, <1>9 DEF AskActive, AskRipple, cacheVars
<1>10. ASSUME NEW c \in Sockets, Join(c) \/ Leave(c) \/ Disconnect(c)
       PROVE  Maplets'
  BY <1>5, <1>10 DEF Join, Leave, Disconnect, cacheVars
<1>11. UNCHANGED vars => Maplets'
  BY <1>5 DEF vars, cacheVars
<1>12. QED
  BY <1>6, <1>7, <1>8, <1>9, <1>10, <1>11 DEF Next

LEMMA CountedNext ==
  ASSUME Counted, [Next]_vars
  PROVE  Counted'
<1>0. /\ asked \in 0..MaxRipples /\ MaxRipples \in Nat /\ MaxFaults \in Nat
      /\ hiccups \in Nat /\ faults \in Nat /\ hiccups + faults <= MaxFaults
  BY IncidentsAssumption DEF Counted
<1>1. ASSUME NEW ok, Redis(ok), UNCHANGED <<asked, faults>>
      PROVE  Counted'
  BY <1>0, <1>1 DEF Redis, Counted
<1>2. ASSUME asked < MaxRipples, asked' = asked + 1, UNCHANGED <<hiccups, faults>>
      PROVE  Counted'
  BY <1>0, <1>2 DEF Counted
<1>3. ASSUME hiccups + faults < MaxFaults, faults' = faults + 1, UNCHANGED <<hiccups, asked>>
      PROVE  Counted'
  BY <1>0, <1>3 DEF Counted
<1>4. UNCHANGED <<asked, hiccups, faults>> => Counted'
  BY <1>0 DEF Counted
<1>5. ASSUME NEW s \in Senders, SenderStep(s)
      PROVE  Counted'
  BY <1>1, <1>4, <1>5
  DEF SenderStep, WriteRow, Fanout, HotspotSent, IncidentSent, Evict, Forget, Discard, countVars
<1>6. ASSUME NEW w \in Tasks \cup Ripplers, WorkerStep(w) \/ MaterialiseFault(w)
      PROVE  Counted'
  BY <1>1, <1>3, <1>4, <1>6
  DEF WorkerStep, Store, LookForSnapshot, SaveSnapshot, Lookup, WriteMap, AddActive,
      MaterialiseFault, countVars
<1>7. ASSUME NEW s \in Senders, NEW e \in Events, NEW st \in Statuses, Ingest(s, e, st)
      PROVE  Counted'
  BY <1>4, <1>7 DEF Ingest
<1>8. ASSUME NEW w \in Ripplers, AskActive(w) \/ \E e \in Events : AskRipple(w, e)
      PROVE  Counted'
  BY <1>2, <1>8 DEF AskActive, AskRipple
<1>9. ASSUME NEW c \in Sockets, Join(c) \/ Leave(c) \/ Disconnect(c)
      PROVE  Counted'
  BY <1>4, <1>9 DEF Join, Leave, Disconnect, countVars
<1>10. UNCHANGED vars => Counted'
  BY <1>4 DEF vars, countVars
<1>11. QED
  BY <1>5, <1>6, <1>7, <1>8, <1>9, <1>10 DEF Next

LEMMA RecordedNext ==
  ASSUME BaseInv, Recorded, [Next]_vars
  PROVE  Recorded'
<1>1. overlap' \subseteq Events
  <2>0. overlap \subseteq Events
    BY DEF Recorded
  <2>1. ASSUME NEW s \in Senders, NEW e \in Events, Starts(s, e)
        PROVE  overlap' \subseteq Events
    BY <2>0, <2>1 DEF Starts
  <2>2. ASSUME NEW w \in Ripplers, Asks(w)
        PROVE  overlap' \subseteq Events
    BY <2>0, <2>2 DEF Asks
  <2>3. UNCHANGED overlap => overlap' \subseteq Events
    BY <2>0
  <2>4. ASSUME NEW s \in Senders, Writes(s) \/ FansOut(s) \/ GoesPast(s)
        PROVE  UNCHANGED overlap
    BY <2>4 DEF Writes, FansOut, GoesPast
  <2>5. ASSUME NEW w \in Tasks \cup Ripplers,
               Stores(w) \/ Looks(w) \/ Saves(w) \/ Fails(w) \/ Finds(w) \/ Maps(w)
        PROVE  UNCHANGED overlap
    BY <2>5 DEF Stores, Looks, Saves, Fails, Finds, Maps
  <2>6. QED
    BY <2>1, <2>2, <2>3, <2>4, <2>5, StepEffect DEF Rests
<1>2. excused' \subseteq Events
  <2>0. excused \subseteq Events
    BY DEF Recorded
  <2>1. ASSUME NEW s \in Senders, HotspotSent(s)
        PROVE  excused' \subseteq Events
    <3>1. req[s].event \in Events
      BY <2>1, SenderFacts DEF HotspotSent, Going
    <3>2. excused' = excused \cup {req[s].event} \/ excused' = excused
      BY <2>1 DEF HotspotSent
    <3>3. QED
      BY <2>0, <3>1, <3>2
  <2>2. ASSUME NEW s \in Senders, Discard(s)
        PROVE  excused' \subseteq Events
    BY <2>0, <2>2 DEF Discard
  <2>3. ASSUME NEW w \in Tasks \cup Ripplers, WriteMap(w) \/ AddActive(w)
        PROVE  excused' \subseteq Events
    <3>1. work[w].event \in Events
      BY <2>3, WorkerFacts DEF WriteMap, AddActive
    <3>2. QED
      BY <2>0, <2>3, <3>1 DEF WriteMap, AddActive, Late
  <2>4. UNCHANGED excused => excused' \subseteq Events
    BY <2>0
  <2>5. ASSUME NEW s \in Senders, SenderStep(s)
        PROVE  excused' \subseteq Events
    BY <2>1, <2>2, <2>4, <2>5
    DEF SenderStep, WriteRow, Fanout, IncidentSent, Evict, Forget
  <2>6. ASSUME NEW w \in Tasks \cup Ripplers, WorkerStep(w) \/ MaterialiseFault(w)
        PROVE  excused' \subseteq Events
    BY <2>3, <2>4, <2>6
    DEF WorkerStep, Store, LookForSnapshot, SaveSnapshot, Lookup, MaterialiseFault
  <2>7. ASSUME NEW s \in Senders, NEW e \in Events, NEW st \in Statuses, Ingest(s, e, st)
        PROVE  excused' \subseteq Events
    BY <2>4, <2>7 DEF Ingest
  <2>8. ASSUME NEW w \in Ripplers, AskActive(w) \/ \E e \in Events : AskRipple(w, e)
        PROVE  excused' \subseteq Events
    BY <2>4, <2>8 DEF AskActive, AskRipple
  <2>9. ASSUME NEW c \in Sockets, Join(c) \/ Leave(c) \/ Disconnect(c)
        PROVE  excused' \subseteq Events
    BY <2>4, <2>9 DEF Join, Leave, Disconnect
  <2>10. UNCHANGED vars => excused' \subseteq Events
    BY <2>4 DEF vars
  <2>11. QED
    BY <2>5, <2>6, <2>7, <2>8, <2>9, <2>10 DEF Next
<1>3. QED
  BY <1>1, <1>2 DEF Recorded

LEMMA RestInit == Init => RestInv
<1> SUFFICES ASSUME Init
             PROVE  RestInv
  OBVIOUS
<1>1. Lists
  <2>1. conns = <<>> /\ socket \in [Sockets -> {"new", "open", "gone", "left"}]
    BY DEF Init
  <2>2. \A s \in Senders : req[s].sent = <<>>
    BY DEF Init, Idle
  <2>3. <<>> \in Seq(Sockets)
    OBVIOUS
  <2>4. QED
    BY <2>1, <2>2, <2>3 DEF Lists
<1>2. Maplets
  BY DEF Init, Maplets, Layers, Empty
<1>3. Counted
  BY IncidentsAssumption DEF Init, Counted
<1>4. Recorded
  BY DEF Init, Recorded
<1>5. QED
  BY <1>1, <1>2, <1>3, <1>4 DEF RestInv

LEMMA RestNext == BaseInv /\ RestInv /\ [Next]_vars => RestInv'
BY ListsNext, MapletsNext, CountedNext, RecordedNext DEF RestInv

------------------------------------------------------------------------------
(* The inductive invariant, and what follows from it. *)

IncidentsInv ==
  BaseInv /\ NoEventUnmaterialised /\ ClosedInv /\ OverlapInv /\ FreshInv /\ RestInv

LEMMA IncidentsInit == Init => IncidentsInv
BY BaseInit, MaterialisedInit, ClosedInit, OverlapInit, FreshInit, RestInit DEF IncidentsInv

LEMMA IncidentsNext == IncidentsInv /\ [Next]_vars => IncidentsInv'
<1> SUFFICES ASSUME IncidentsInv, [Next]_vars
             PROVE  IncidentsInv'
  OBVIOUS
<1>1. BaseInv /\ NoEventUnmaterialised /\ ClosedInv /\ OverlapInv /\ FreshInv /\ RestInv
  BY DEF IncidentsInv
<1>2. OverlapInv'
  BY <1>1, OverlapNext
<1>3. QED
  BY <1>1, <1>2, BaseNext, MaterialisedNext, ClosedNext, FreshNext, RestNext DEF IncidentsInv

LEMMA Invariance == Spec => []IncidentsInv
BY IncidentsInit, IncidentsNext, PTL DEF Spec

(* Every variable has its type, however many events, requests, dashboards and *)
(* faults there are: the lists a publish iterates hold dashboards, also after *)
(* unregistering by the positions of an older list, and what the layers of    *)
(* the caches hold are messages that were received.  (ingestion, features,    *)
(* propagation and dashboard)                                                 *)
THEOREM IncidentsTypes == Spec => []TypeOK
<1>1. BaseInv /\ ClosedInv /\ RestInv => TypeOK
  <2> SUFFICES ASSUME BaseInv, ClosedInv, RestInv
               PROVE  TypeOK
    OBVIOUS
  <2>1. /\ row \in [Events -> NormalizedEventRow]
        /\ snapshot \in [Events -> FeatureSnapshotRow]
        /\ features \in [Events -> Layers(Messages \cup {None})]
        /\ received \in 0..MaxMessages /\ active \subseteq Events
        /\ work \in [Tasks \cup Ripplers -> Worker]
    BY DEF BaseInv, RowsType, WorkInv, ClosedInv
  <2>2. /\ ripple \in [Events -> Layers({None, 1})] /\ conns \in Seq(Sockets)
        /\ socket \in [Sockets -> {"new", "open", "gone", "left"}]
        /\ asked \in 0..MaxRipples /\ overlap \subseteq Events /\ excused \subseteq Events
    BY DEF RestInv, Lists, Maplets, Counted, Recorded
  <2>3. hiccups \in 0..MaxFaults /\ faults \in 0..MaxFaults
    BY IncidentsAssumption DEF RestInv, Counted
  <2>4. ASSUME NEW s \in Senders
        PROVE  req[s] \in Request
    <3>1. RequestShape(req[s]) /\ req[s].sent \in Seq(Sockets)
      BY SenderFacts DEF RestInv, Lists
    <3>2. QED
      BY <3>1 DEF RequestShape, Request
  <2>5. req \in [Senders -> Request]
    <3>1. req = [s \in Senders |-> req[s]]
      BY DEF BaseInv, RequestInv
    <3>2. QED
      BY <2>4, <3>1
  <2>6. QED
    BY <2>1, <2>2, <2>3, <2>5 DEF TypeOK
<1>2. IncidentsInv => TypeOK
  BY <1>1 DEF IncidentsInv
<1>3. QED
  BY <1>2, Invariance, PTL

(* Every event that ingestion has stored has a snapshot of its features, or a *)
(* request or a task that will write one, for every number of senders, of     *)
(* events and of dashboards that break the fan-out: the features' handler is  *)
(* the first of the bus, and its task is never overtaken by a second request  *)
(* with the same message.  (ingestion/service.py, ingestion/bus.py,           *)
(* features/service.py)                                                       *)
THEOREM EventsMaterialised == Spec => []NoEventUnmaterialised
<1>1. IncidentsInv => NoEventUnmaterialised
  BY DEF IncidentsInv
<1>2. QED
  BY <1>1, Invariance, PTL

(* An event that is active in the propagation map is not closed, unless a     *)
(* request is still under way that will forget it, its ripple was stored      *)
(* after the close, or a fan-out failed.  (ingestion/bus.py publish_closed,   *)
(* propagation/cache.py)                                                      *)
THEOREM ClosedForgotten == Spec => []ClosedEventKeepsNoRipple
<1>1. ClosedInv => ClosedEventKeepsNoRipple
  BY DEF ClosedInv, ClosedEventKeepsNoRipple, WillForget
<1>2. IncidentsInv => ClosedEventKeepsNoRipple
  BY <1>1 DEF IncidentsInv
<1>3. QED
  BY <1>2, Invariance, PTL

(* Where operations on one event do not overlap, the cached features and the  *)
(* snapshot of an event that is at rest are those of its row, in Redis and in *)
(* memory, whatever happens to other events.  (features/service.py            *)
(* materialize_and_cache, features/cache.py)                                  *)
THEOREM FeaturesCurrent == Spec => []FeaturesAreCurrent
<1>1. BaseInv /\ FreshInv => FeaturesAreCurrent
  <2> SUFFICES ASSUME BaseInv, FreshInv, hiccups = 0, faults = 0, NEW e \in Events \ overlap,
                      ~Busy(e), row[e].status # "absent"
               PROVE  /\ snapshot[e] = row[e].msg
                      /\ Cached(features[e], RedisUp) \in {None, row[e].msg}
    BY DEF FeaturesAreCurrent
  <2>1. Fresh(e)
    BY DEF FreshInv, Stored
  <2>2. DOMAIN work = Tasks \cup Ripplers
    BY DEF BaseInv, WorkInv
  <2>3. ~FannedOut(e) /\ \A w \in Tasks \cup Ripplers : work[w].event # e
    BY <2>2 DEF Busy, FannedOut
  <2>4. QED
    BY <2>1, <2>3 DEF Fresh
<1>2. IncidentsInv => FeaturesAreCurrent
  BY <1>1 DEF IncidentsInv
<1>3. QED
  BY <1>2, Invariance, PTL
==============================================================================
