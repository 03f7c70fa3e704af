------------------------------ MODULE Incidents ------------------------------
(***************************************************************************)
(* What happens to an incident the moment it is reported: M01 ingestion    *)
(* (service, repository, bus), the subscribers of M02 features, M04        *)
(* propagation, M05 hotspots and M15 dashboard, and the caches they keep.  *)
(*                                                                         *)
(* A request upserts the event, then awaits the handlers of the bus one    *)
(* after another: features (which only starts a task), hotspots, incident  *)
(* delta and, for a closed event, the eviction of features and ripple.     *)
(* Meanwhile tasks materialise features, ripples are computed and stored,  *)
(* and dashboards come and go.  An action is the code between two awaits.  *)
(***************************************************************************)
EXTENDS Naturals, Sequences, FiniteSets, SequencesExt

CONSTANTS
  Events,       \* event ids
  Senders,      \* concurrent ingest requests
  Ripplers,     \* concurrent requests for ripples
  Sockets,      \* dashboard clients, each of which connects at most once
  RedisUp,      \* FALSE where there is no Redis and the caches are memory
  Statuses,     \* bound: the statuses payloads carry
  MaxMessages,  \* bound: payloads received
  MaxRipples,   \* bound: ripple requests
  MaxFaults     \* bound: Redis calls that raise although Redis is up, and
                \* materialisations that raise

NoEvent == "none"

ASSUME IncidentsAssumption ==
  /\ NoEvent \notin Events
  /\ RedisUp \in BOOLEAN
  /\ Statuses \subseteq {"active", "resolved", "closed"}
  /\ MaxMessages \in Nat /\ MaxRipples \in Nat /\ MaxFaults \in Nat
  /\ Senders \cap Ripplers = {}
  /\ (Senders \cup Ripplers) \cap (1..MaxMessages) = {}

VARIABLES
  row,       \* normalized_events: status and the message its columns are of
  snapshot,  \* feature_snapshots: the message a snapshot was computed from
  features,  \* feature_cache, in Redis and in memory
  ripple,    \* propagation_cache, in Redis and in memory: 1 if there is a map
  active,    \* _active_events
  req,       \* the ingest requests
  work,      \* the materialisations: a task per message, and the ripplers
  conns,     \* DashboardBus._connections
  socket,    \* the dashboards' sockets
  received,  \* payloads received so far
  asked,     \* ripple requests so far
  hiccups,   \* Redis calls that raised so far
  faults,    \* materialisations that raised so far
  overlap,   \* history: events two operations were under way for at once
  excused    \* history: events closed without their ripple being forgotten

rowVars == <<row, snapshot>>
cacheVars == <<features, ripple, active>>
busVars == <<conns, socket>>
countVars == <<received, asked, hiccups, faults>>
vars == <<rowVars, cacheVars, req, work, busVars, countVars, overlap, excused>>

None == 0
Messages == 1..MaxMessages
Tasks == Messages

(* NormalizedEventRow, of whose columns the status decides; msg is the       *)
(* payload the others were copied from.                                      *)
Status == {"active", "resolved", "closed"}
NormalizedEventRow == [status : Status \cup {"absent"}, msg : Messages \cup {None}]
FeatureSnapshotRow == Messages \cup {None}

Layers(S) == [redis : S, memory : S]
Empty == [redis |-> None, memory |-> None]

Request == [pc : {"idle", "write", "fanout", "hotspot", "incident",
                  "evict", "forget", "discard", "broken"},
            event : Events \cup {NoEvent}, msg : Messages \cup {None},
            status : Status \cup {"absent"},  \* of the payload, then of the stored row
            seen : Status \cup {"absent"},    \* the row's, when it was read
            sent : Seq(Sockets)]              \* the list a publish sends to
Idle == [pc |-> "idle", event |-> NoEvent, msg |-> None, status |-> "absent",
         seen |-> "absent", sent |-> <<>>]

Worker == [pc : {"none", "lookup", "store", "look", "save", "map", "add"},
           event : Events \cup {NoEvent}, msg : Messages \cup {None},
           seen : BOOLEAN,                    \* there was a snapshot to update
           todo : SUBSET Events]
NoWork == [pc |-> "none", event |-> NoEvent, msg |-> None, seen |-> FALSE, todo |-> {}]

------------------------------------------------------------------------------
(* The two caches: Redis, with memory behind it when a call raises. *)

(* get_redis and a call: it raises always without Redis, and rarely with it. *)
Redis(answers) ==
  \/ answers = RedisUp /\ UNCHANGED hiccups
  \/ RedisUp /\ ~answers /\ hiccups + faults < MaxFaults /\ hiccups' = hiccups + 1

(* _read *)
Cached(layers, answers) ==
  IF answers /\ layers.redis # None THEN layers.redis ELSE layers.memory

(* Mutant: an entry that is there is kept. *)
WrittenOnce(layers, value, answers) ==
  IF Cached(layers, answers) # None THEN layers
  ELSE [layers EXCEPT !.redis = IF answers THEN value ELSE @,
                      !.memory = IF answers THEN @ ELSE value]

(* _write *)
Written(layers, value, answers) ==
  IF answers THEN [layers EXCEPT !.redis = value] ELSE [layers EXCEPT !.memory = value]

(* delete *)
Deleted(layers, answers) ==
  [redis |-> IF answers THEN None ELSE layers.redis, memory |-> None]

------------------------------------------------------------------------------
(* History. *)

Busy(e) ==
  \/ \E s \in Senders : req[s].event = e
  \/ \E w \in DOMAIN work : work[w].event = e \/ e \in work[w].todo

(* An operation on the events of S starts. *)
Begin(S) == overlap' = overlap \cup {e \in S : Busy(e)}

End(s) == req' = [req EXCEPT ![s] = Idle]

------------------------------------------------------------------------------
(* M01: IngestionService.ingest *)

(* A payload arrives.  It is rejected (record_reject), or upsert_event reads  *)
(* the row of its event; no await before that changes what others see.       *)
Ingest(s, e, st) ==
  /\ req[s].pc \in {"idle", "broken"}
  /\ received < MaxMessages
  /\ received' = received + 1
  /\ \/ End(s) /\ UNCHANGED overlap
     \/ /\ req' = [req EXCEPT ![s] = [Idle EXCEPT !.pc = "write", !.event = e,
                         !.msg = received', !.status = st, !.seen = row[e].status]]
        /\ Begin({e})
  /\ UNCHANGED <<rowVars, cacheVars, work, busVars, asked, hiccups, faults, excused>>

(* Mutant: an event that is stored closed is announced only as closed. *)
WriteRowClosedOnly(s) ==
  LET r == req[s]
      e == r.event
      now == row[e].status
  IN /\ r.pc = "write"
     /\ IF r.seen = "absent" /\ now # "absent"
        THEN End(s) /\ UNCHANGED row
        ELSE /\ row' = [row EXCEPT ![e] =
                         [status |-> IF r.status = r.seen THEN now ELSE r.status,
                          msg |-> r.msg]]
             /\ req' = [req EXCEPT ![s].pc = IF r.status = "closed" THEN "evict" ELSE "fanout",
                                   ![s].status = row'[e].status]
     /\ UNCHANGED <<snapshot, cacheVars, work, busVars, countVars, overlap, excused>>

(* upsert_event: the commit, and the refresh.  The insert fails when the row *)
(* has appeared meanwhile; an update writes the status only where it differs *)
(* from the status that was read.                                            *)
WriteRow(s) ==
  LET r == req[s]
      e == r.event
      now == row[e].status
  IN /\ r.pc = "write"
     /\ IF r.seen = "absent" /\ now # "absent"
        THEN End(s) /\ UNCHANGED row
        ELSE /\ row' = [row EXCEPT ![e] =
                         [status |-> IF r.status = r.seen THEN now ELSE r.status,
                          msg |-> r.msg]]
             /\ req' = [req EXCEPT ![s].pc = "fanout", ![s].status = row'[e].status]
     /\ UNCHANGED <<snapshot, cacheVars, work, busVars, countVars, overlap, excused>>

(* publish_closed is called, or the request has its acknowledgement. *)
Finish(s, r) ==
  req' = [req EXCEPT ![s] = IF r.status = "closed"
                            THEN [r EXCEPT !.pc = "evict", !.sent = <<>>] ELSE Idle]

StartTask(r) ==
  work' = [work EXCEPT ![r.msg] = [NoWork EXCEPT !.pc = "store", !.event = r.event,
                                                 !.msg = r.msg]]

(* publish_normalized, up to the first send: the features' handler starts    *)
(* its task, the hotspots' one counts the event and sends to every dashboard.*)
Fanout(s) ==
  /\ req[s].pc = "fanout"
  /\ StartTask(req[s])
  /\ IF conns = <<>>
     THEN Finish(s, req[s])
     ELSE req' = [req EXCEPT ![s].pc = "hotspot", ![s].sent = conns]
  /\ UNCHANGED <<rowVars, cacheVars, busVars, countVars, overlap, excused>>

------------------------------------------------------------------------------
(* M15: DashboardBus.publish, after the gather *)

(* A send fails only if the peer is gone. *)
Failures(sent) ==
  SUBSET {i \in DOMAIN sent : socket[sent[i]] \in {"gone", "left"}}

(* unregister *)
Without(dropped) ==
  FlattenSeq([i \in DOMAIN conns |-> IF conns[i] \in dropped THEN <<>> ELSE <<conns[i]>>])

(* It is called for each failed result, but of the list as it is now. *)
Unregistered(failed) == Without({conns[i] : i \in failed \cap DOMAIN conns})

(* zip(..., strict=True) raises once it runs out of one list. *)
Mismatch(sent) == Len(sent) # Len(conns)

(* The hotspots' handler does not catch it, so neither do the bus nor the    *)
(* request: later handlers do not run, and the caller gets an error.         *)
HotspotSent(s) ==
  LET r == req[s]
  IN /\ r.pc = "hotspot"
     /\ \E failed \in Failures(r.sent) :
          /\ conns' = Unregistered(failed)
          /\ IF Mismatch(r.sent)
             THEN /\ req' = [req EXCEPT ![s] = [Idle EXCEPT !.pc = "broken"]]
                  /\ excused' = IF r.status = "closed" THEN excused \cup {r.event}
                                ELSE excused
             ELSE /\ IF conns' = <<>>
                     THEN Finish(s, r)
                     ELSE req' = [req EXCEPT ![s].pc = "incident", ![s].sent = conns']
                  /\ UNCHANGED excused
     /\ UNCHANGED <<rowVars, cacheVars, work, socket, countVars, overlap>>

(* incident_subscriber: whatever publish raises is logged. *)
IncidentSent(s) ==
  /\ req[s].pc = "incident"
  /\ \E failed \in Failures(req[s].sent) : conns' = Unregistered(failed)
  /\ Finish(s, req[s])
  /\ UNCHANGED <<rowVars, cacheVars, work, socket, countVars, overlap, excused>>

(* dashboard_socket: accept and register *)
Join(c) ==
  /\ socket[c] = "new"
  /\ socket' = [socket EXCEPT ![c] = "open"]
  /\ conns' = Append(conns, c)
  /\ UNCHANGED <<rowVars, cacheVars, req, work, countVars, overlap, excused>>

(* The peer closes; sends to it may fail from now on. *)
Leave(c) ==
  /\ socket[c] = "open"
  /\ socket' = [socket EXCEPT ![c] = "gone"]
  /\ UNCHANGED <<rowVars, cacheVars, req, work, conns, countVars, overlap, excused>>

(* receive_text raises, and the finally clause unregisters. *)
Disconnect(c) ==
  /\ socket[c] = "gone"
  /\ socket' = [socket EXCEPT ![c] = "left"]
  /\ conns' = Without({c})
  /\ UNCHANGED <<rowVars, cacheVars, req, work, countVars, overlap, excused>>

------------------------------------------------------------------------------
(* publish_closed: the handlers of M02 and of M04 *)

(* Mutant: M04 has not subscribed. *)
EvictOnly(s) ==
  LET e == req[s].event
  IN /\ req[s].pc = "evict"
     /\ \E ok \in BOOLEAN : Redis(ok) /\ features' = [features EXCEPT ![e] = Deleted(@, ok)]
     /\ End(s)
     /\ UNCHANGED <<rowVars, ripple, active, work, busVars, received, asked, faults,
                    overlap, excused>>

Evict(s) ==
  LET e == req[s].event
  IN /\ req[s].pc = "evict"
     /\ \E ok \in BOOLEAN : Redis(ok) /\ features' = [features EXCEPT ![e] = Deleted(@, ok)]
     /\ req' = [req EXCEPT ![s].pc = "forget"]
     /\ UNCHANGED <<rowVars, ripple, active, work, busVars, received, asked, faults,
                    overlap, excused>>

(* PropagationCache.delete: the Redis call, ... *)
Forget(s) ==
  LET e == req[s].event
  IN /\ req[s].pc = "forget"
     /\ \E ok \in BOOLEAN :
          /\ Redis(ok)
          /\ ripple' = [ripple EXCEPT ![e].redis = IF ok THEN None ELSE @]
     /\ req' = [req EXCEPT ![s].pc = "discard"]
     /\ UNCHANGED <<rowVars, features, active, work, busVars, received, asked, faults,
                    overlap, excused>>

(* ... then, without an await, the memory and the set of active events. *)
Discard(s) ==
  LET e == req[s].event
  IN /\ req[s].pc = "discard"
     /\ ripple' = [ripple EXCEPT ![e].memory = None]
     /\ active' = active \ {e}
     /\ excused' = excused \ {e}
     /\ End(s)
     /\ UNCHANGED <<rowVars, features, work, busVars, countVars, overlap>>

------------------------------------------------------------------------------
(* M02: materialize_and_cache, in the task of a message or in get_features *)

(* The vector is computed (it reads priors and neighbours) and cached. *)
Store(w) ==
  LET e == work[w].event
  IN /\ work[w].pc = "store"
     /\ \E ok \in BOOLEAN :
          Redis(ok) /\ features' = [features EXCEPT ![e] = Written(@, work[w].msg, ok)]
     /\ work' = [work EXCEPT ![w].pc = "look"]
     /\ UNCHANGED <<rowVars, ripple, active, req, busVars, received, asked, faults,
                    overlap, excused>>

(* save_snapshot: session.get *)
LookForSnapshot(w) ==
  /\ work[w].pc = "look"
  /\ work' = [work EXCEPT ![w].pc = "save", ![w].seen = snapshot[work[w].event] # None]
  /\ UNCHANGED <<rowVars, cacheVars, req, busVars, countVars, overlap, excused>>

(* The next event a rippler has to do, if any. *)
NextRipple(w) ==
  IF work[w].todo = {} THEN work' = [work EXCEPT ![w] = NoWork]
  ELSE \E e \in work[w].todo :
         work' = [work EXCEPT ![w] = [NoWork EXCEPT !.pc = "lookup", !.event = e,
                                                    !.todo = work[w].todo \ {e}]]

(* A task ends lost; a rippler goes on, as get_active catches everything. *)
Abandon(w) ==
  IF w \in Ripplers THEN NextRipple(w) ELSE work' = [work EXCEPT ![w] = NoWork]

(* save_snapshot: the commit.  Of two that insert, the second fails. *)
SaveSnapshot(w) ==
  LET e == work[w].event
  IN /\ work[w].pc = "save"
     /\ IF ~work[w].seen /\ snapshot[e] # None
        THEN Abandon(w) /\ UNCHANGED snapshot
        ELSE /\ snapshot' = [snapshot EXCEPT ![e] = work[w].msg]
             /\ work' = [work EXCEPT ![w] = IF w \in Ripplers THEN [@ EXCEPT !.pc = "map"]
                                            ELSE NoWork]
     /\ UNCHANGED <<row, cacheVars, req, busVars, countVars, overlap, excused>>

(* A query, or the commit, raises: nobody hears of it. *)
MaterialiseFault(w) ==
  /\ work[w].pc \in {"store", "look", "save"}
  /\ hiccups + faults < MaxFaults /\ faults' = faults + 1
  /\ Abandon(w)
  /\ UNCHANGED <<rowVars, cacheVars, req, busVars, received, asked, hiccups,
                 overlap, excused>>

------------------------------------------------------------------------------
(* M04: PropagationService *)

Listed == {e \in active : ripple[e] # Empty}

(* POST ripple: the event exists; its status is not looked at. *)
AskRipple(w, e) ==
  /\ work[w].pc = "none" /\ asked < MaxRipples
  /\ row[e].status # "absent"
  /\ asked' = asked + 1
  /\ Begin({e})
  /\ work' = [work EXCEPT ![w] = [NoWork EXCEPT !.pc = "lookup", !.event = e]]
  /\ UNCHANGED <<rowVars, cacheVars, req, busVars, received, hiccups, faults, excused>>

(* get_active with nothing to list: a ripple for each active event, in turn. *)
AskActive(w) ==
  LET todo == {e \in Events : row[e].status = "active"}
  IN /\ work[w].pc = "none" /\ asked < MaxRipples
     /\ Listed = {} /\ todo # {}
     /\ asked' = asked + 1
     /\ Begin(todo)
     /\ \E e \in todo :
          work' = [work EXCEPT ![w] = [NoWork EXCEPT !.pc = "lookup", !.event = e,
                                                     !.todo = todo \ {e}]]
     /\ UNCHANGED <<rowVars, cacheVars, req, busVars, received, hiccups, faults, excused>>

(* get_features: the cached vector, else one of the row as it is now. *)
Lookup(w) ==
  LET e == work[w].event
  IN /\ work[w].pc = "lookup"
     /\ \E ok \in BOOLEAN :
          /\ Redis(ok)
          /\ work' = [work EXCEPT ![w] =
               IF Cached(features[e], ok) # None THEN [@ EXCEPT !.pc = "map"]
               ELSE [@ EXCEPT !.pc = "store", !.msg = row[e].msg]]
     /\ UNCHANGED <<rowVars, cacheVars, req, busVars, received, asked, faults,
                    overlap, excused>>

Late(e) == excused' = IF row[e].status = "closed" THEN excused \cup {e} ELSE excused

(* PropagationCache.set: the map is written, ... *)
WriteMap(w) ==
  LET e == work[w].event
  IN /\ work[w].pc = "map"
     /\ \E ok \in BOOLEAN : Redis(ok) /\ ripple' = [ripple EXCEPT ![e] = Written(@, 1, ok)]
     /\ work' = [work EXCEPT ![w].pc = "add"]
     /\ Late(e)
     /\ UNCHANGED <<rowVars, features, active, req, busVars, received, asked, faults,
                    overlap>>

(* ... and, when Redis has answered, the event is active. *)
AddActive(w) ==
  LET e == work[w].event
  IN /\ work[w].pc = "add"
     /\ active' = active \cup {e}
     /\ NextRipple(w)
     /\ Late(e)
     /\ UNCHANGED <<rowVars, features, ripple, req, busVars, countVars, overlap>>

------------------------------------------------------------------------------
Init ==
  /\ row = [e \in Events |-> [status |-> "absent", msg |-> None]]
  /\ snapshot = [e \in Events |-> None]
  /\ features = [e \in Events |-> Empty]
  /\ ripple = [e \in Events |-> Empty]
  /\ active = {}
  /\ req = [s \in Senders |-> Idle]
  /\ work = [w \in Tasks \cup Ripplers |-> NoWork]
  /\ conns = <<>>
  /\ socket = [c \in Sockets |-> "new"]
  /\ received = 0 /\ asked = 0 /\ hiccups = 0 /\ faults = 0
  /\ overlap = {} /\ excused = {}

SenderStep(s) ==
  \/ WriteRow(s) \/ Fanout(s) \/ HotspotSent(s) \/ IncidentSent(s)
  \/ Evict(s) \/ Forget(s) \/ Discard(s)

WorkerStep(w) ==
  \/ Store(w) \/ LookForSnapshot(w) \/ SaveSnapshot(w)
  \/ Lookup(w) \/ WriteMap(w) \/ AddActive(w)

Next ==
  \/ \E s \in Senders, e \in Events, st \in Statuses : Ingest(s, e, st)
  \/ \E s \in Senders : SenderStep(s)
  \/ \E w \in Tasks \cup Ripplers : WorkerStep(w) \/ MaterialiseFault(w)
  \/ \E w \in Ripplers : AskActive(w) \/ \E e \in Events : AskRipple(w, e)
  \/ \E c \in Sockets : Join(c) \/ Leave(c) \/ Disconnect(c)

Spec == Init /\ [][Next]_vars

------------------------------------------------------------------------------
TypeOK ==
  /\ row \in [Events -> NormalizedEventRow]
  /\ snapshot \in [Events -> FeatureSnapshotRow]
  /\ features \in [Events -> Layers(Messages \cup {None})]
  /\ ripple \in [Events -> Layers({None, 1})]
  /\ active \subseteq Events
  /\ req \in [Senders -> Request]
  /\ work \in [Tasks \cup Ripplers -> Worker]
  /\ conns \in Seq(Sockets)
  /\ socket \in [Sockets -> {"new", "open", "gone", "left"}]
  /\ received \in 0..MaxMessages /\ asked \in 0..MaxRipples
  /\ hiccups \in 0..MaxFaults /\ faults \in 0..MaxFaults
  /\ overlap \subseteq Events /\ excused \subseteq Events

(* An event that is stored has a snapshot of its features, or a request or a *)
(* task that will write one, also when the fan-out to the dashboards fails:  *)
(* the features' handler is the first of the bus.  Materialisations that     *)
(* raise are lost, so the property is about runs without one.                *)
NoEventUnmaterialised ==
  faults = 0 =>
    \A e \in Events :
      row[e].status # "absent" =>
        \/ snapshot[e] # None
        \/ \E s \in Senders : req[s].event = e /\ req[s].pc = "fanout"
        \/ \E w \in Tasks : work[w].event = e

(* A closed event is no longer active in the propagation map once the        *)
(* requests that closed it are through, unless a ripple was stored after the *)
(* close, or the fan-out failed and nobody has delivered the close again.    *)
ClosedEventKeepsNoRipple ==
  \A e \in active :
    row[e].status = "closed" =>
      \/ e \in excused
      \/ \E s \in Senders : req[s].event = e

(* Where operations on one event do not overlap, the cached features and the *)
(* snapshot are those of the row, whatever happens to other events.  (They   *)
(* are not otherwise: of two tasks the one with the older message may end    *)
(* last, and a Redis call that raises leaves an older value to be read.)     *)
FeaturesAreCurrent ==
  hiccups = 0 /\ faults = 0 =>
    \A e \in Events \ overlap :
      ~Busy(e) /\ row[e].status # "absent" =>
        /\ snapshot[e] = row[e].msg
        /\ Cached(features[e], RedisUp) \in {None, row[e].msg}

(* STREAM_A_IMPLEMENTATION_STATUS.md:64, of the dashboards: "A broken WS      *)
(* fan-out can't fail ingestion".                                            *)
FanoutNeverBreaksIngest == \A s \in Senders : req[s].pc # "broken"

==============================================================================
