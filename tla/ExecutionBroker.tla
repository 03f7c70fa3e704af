--------------------------- MODULE ExecutionBroker ---------------------------
(***************************************************************************)
(* M10, the AgenticExecutionBroker: execution/service.py, queue.py,        *)
(* repository.py and station_client.py of the backend.                     *)
(*                                                                         *)
(* After a card is approved, a request writes one execution_queue row for  *)
(* the dispatch and, when the plan asks for barricades, one for their      *)
(* reservation, and hands the commands to a bounded in-process queue.  A   *)
(* single background worker calls the station for each command, up to      *)
(* MaxAttempts times, and writes an audit row and the row's status after   *)
(* each call.  An operator may retry a dead-lettered command.              *)
(*                                                                         *)
(* Everything runs on one asyncio loop: between two awaits a coroutine is  *)
(* atomic, at an await any other one may run.  So an action below is the   *)
(* code between two awaits that matter.  Every write is a commit of its    *)
(* own; a commit may fail (the *Fault actions).  The queue is memory and   *)
(* is lost when the process stops; the two tables are not.                 *)
(***************************************************************************)
EXTENDS Naturals, Sequences, FiniteSets

CONSTANTS
  Execs,            \* execution ids (uuid4 in the code, so always fresh)
  Tokens,           \* approval tokens
  BarricadeTokens,  \* the approvals whose plan has barricade_count > 0
  Approvers,        \* concurrent calls of enqueue_dispatch
  Operators,        \* concurrent calls of manual_retry
  QueueCap,         \* maxsize of the asyncio.Queue (256 in the code)
  MaxAttempts,      \* _MAX_ATTEMPTS (3 in the code)
  MaxRetries,       \* bound: manual retries admitted
  MaxFaults,        \* bound: database operations that raise
  MaxLosses         \* bound: crashes and shutdowns that hit their timeout

NoExec == "none"

ASSUME BrokerAssumption ==
  /\ NoExec \notin Execs
  /\ BarricadeTokens \subseteq Tokens
  /\ Approvers \cap Operators = {}
  /\ QueueCap \in Nat \ {0}
  /\ MaxAttempts \in Nat \ {0}
  /\ MaxRetries \in Nat
  /\ MaxFaults \in Nat
  /\ MaxLosses \in Nat

VARIABLES
  status,    \* execution_queue.status, "absent" while there is no row
  key,       \* execution_queue.(approval_token, command_type)
  attempts,  \* execution_queue.attempt_count
  audit,     \* execution_audit: how many rows of each outcome a command has
  effects,   \* at the station: units dispatched / reservations made, per command
  queue,     \* the asyncio.Queue
  worker,    \* the m10-command-worker task
  pc,        \* where each request is
  req,       \* the locals of each request
  cmds,      \* cmds_to_enqueue of each request
  gate,      \* what get_governance() answers: open, or closed (shadow mode or tier 3)
  phase,     \* the process: up, stopping (lifespan shutdown) or down
  retries,   \* manual retries admitted so far
  faults,    \* database operations that raised so far
  losses     \* times the queue was lost so far

rowVars == <<status, key, attempts>>
dbVars == <<rowVars, audit>>
clientVars == <<pc, req, cmds>>
countVars == <<retries, faults, losses>>
vars == <<dbVars, effects, queue, worker, clientVars, gate, phase, countVars>>

Clients == Approvers \cup Operators
CommandType == {"dispatch", "barricade"}
Outcome == {"acknowledged", "failed", "dead_letter"}
Settled == {"acknowledged", "dead_letter"}
Unsettled == {"pending", "processing", "retrying"}
Status == {"absent"} \cup Settled \cup Unsettled
NoKey == <<>>
Key == Tokens \X CommandType

(* QueuedCommand, of which only the id and whether barricade_count > 0 matter. *)
Command == [exec : Execs, barricades : BOOLEAN]
NoCommand == [exec |-> NoExec, barricades |-> FALSE]
IdleWorker == [pc |-> "idle", cmd |-> NoCommand, attempt |-> 0]
NoRequest == [key |-> NoKey, exec |-> NoExec]

WorkerPc == {"idle", "start", "call", "ack_audit", "ack_row", "fail_audit",
             "fail_row", "exc_audit", "exc_row", "backoff"}
ClientPc == {"idle", "lookup", "insert", "reset", "put"}

------------------------------------------------------------------------------
(* The tables. *)

(* get_queue_row_by_token: the rows of an approval and a command type. *)
RowsOf(k) == {e \in Execs : status[e] # "absent" /\ key[e] = k}

(* update_queue_status: one UPDATE, one commit. *)
UpdateRow(e, s, n) ==
  /\ status' = [status EXCEPT ![e] = s]
  /\ attempts' = [attempts EXCEPT ![e] = n]
  /\ UNCHANGED key

(* create_queue_row *)
CreateRow(e, k) ==
  /\ status' = [status EXCEPT ![e] = "pending"]
  /\ key' = [key EXCEPT ![e] = k]
  /\ attempts' = [attempts EXCEPT ![e] = 0]

(* append_audit: the rows are inserted, never changed. *)
AppendAudit(e, outcome) == audit' = [audit EXCEPT ![e][outcome] = @ + 1]

(* A database call raises. *)
Raise == faults < MaxFaults /\ faults' = faults + 1

------------------------------------------------------------------------------
(* enqueue_dispatch, called by approve() and by POST /execute/dispatch. *)

Return(c) ==
  /\ pc' = [pc EXCEPT ![c] = "idle"]
  /\ req' = [req EXCEPT ![c] = NoRequest]
  /\ cmds' = [cmds EXCEPT ![c] = <<>>]

(* Past the governance gate: in shadow mode and in tier 3 the request is     *)
(* answered 403 or 503 and nothing happens.                                  *)
Submit(c, t) ==
  /\ phase = "up" /\ pc[c] = "idle"
  /\ gate = "open"
  /\ pc' = [pc EXCEPT ![c] = "lookup"]
  /\ req' = [req EXCEPT ![c].key = <<t, "dispatch">>]
  /\ UNCHANGED <<dbVars, effects, queue, worker, cmds, gate, phase, countVars>>

(* _enqueue_command is done for one command type, todo holds the commands it *)
(* produced: go on with the barricades if the plan has any, then enqueue.    *)
NextCommand(c, todo) ==
  LET token == req[c].key[1]
      more == req[c].key[2] = "dispatch" /\ token \in BarricadeTokens
  IN  \/ /\ more
         /\ pc' = [pc EXCEPT ![c] = "lookup"]
         /\ req' = [req EXCEPT ![c].key = <<token, "barricade">>]
         /\ cmds' = [cmds EXCEPT ![c] = todo]
      \/ /\ ~more /\ todo # <<>>
         /\ pc' = [pc EXCEPT ![c] = "put"]
         /\ cmds' = [cmds EXCEPT ![c] = todo]
         /\ UNCHANGED req
      \/ /\ ~more /\ todo = <<>>
         /\ Return(c)

(* Mutant: the row is inserted without looking for an earlier one. *)
LookupUnchecked(c) ==
  /\ pc[c] = "lookup"
  /\ pc' = [pc EXCEPT ![c] = "insert"]
  /\ UNCHANGED <<dbVars, effects, queue, worker, req, cmds, gate, phase, countVars>>

(* The idempotency check: SELECT by (approval_token, command_type). *)
Lookup(c) ==
  /\ pc[c] = "lookup"
  /\ IF RowsOf(req[c].key) # {}
     THEN NextCommand(c, cmds[c])
     ELSE pc' = [pc EXCEPT ![c] = "insert"] /\ UNCHANGED <<req, cmds>>
  /\ UNCHANGED <<dbVars, effects, queue, worker, gate, phase, countVars>>

(* The row is written before anything is enqueued. *)
Insert(c) ==
  /\ pc[c] = "insert"
  /\ \E e \in Execs :
       /\ status[e] = "absent"
       /\ CreateRow(e, req[c].key)
       /\ NextCommand(c, Append(cmds[c],
              [exec |-> e, barricades |-> req[c].key[1] \in BarricadeTokens]))
  /\ UNCHANGED <<audit, effects, queue, worker, gate, phase, countVars>>

(* The query, the INSERT, or the refresh after its commit raises: the        *)
(* request ends with cmds_to_enqueue still in its hands.                     *)
EnqueueFault(c) ==
  /\ pc[c] \in {"lookup", "insert"}
  /\ Raise
  /\ Return(c)
  /\ \/ UNCHANGED rowVars
     \/ /\ pc[c] = "insert"
        /\ \E e \in Execs : status[e] = "absent" /\ CreateRow(e, req[c].key)
  /\ UNCHANGED <<audit, effects, queue, worker, gate, phase, retries, losses>>

(* Mutant: put_nowait, with QueueFull ignored. *)
PutNowait(c) ==
  LET room == QueueCap - Len(queue)
  IN  /\ pc[c] = "put"
      /\ queue' = queue \o SubSeq(cmds[c], 1, IF Len(cmds[c]) < room THEN Len(cmds[c]) ELSE room)
      /\ Return(c)
      /\ UNCHANGED <<dbVars, effects, worker, gate, phase, countVars>>

(* Mutant: the commands of a request go in together or not at all. *)
PutTogether(c) ==
  /\ pc[c] = "put"
  /\ Len(cmds[c]) <= QueueCap - Len(queue)
  /\ queue' = queue \o cmds[c]
  /\ Return(c)
  /\ UNCHANGED <<dbVars, effects, worker, gate, phase, countVars>>

(* queue.put for each command: there is no suspension while there is room,   *)
(* so as many as fit go in at once; the rest wait for the worker.            *)
Put(c) ==
  LET room == QueueCap - Len(queue)
      todo == cmds[c]
  IN  /\ pc[c] = "put"
      /\ room > 0
      /\ \/ /\ Len(todo) <= room
            /\ queue' = queue \o todo
            /\ Return(c)
         \/ /\ Len(todo) > room
            /\ queue' = queue \o SubSeq(todo, 1, room)
            /\ cmds' = [cmds EXCEPT ![c] = SubSeq(todo, room + 1, Len(todo))]
            /\ UNCHANGED <<pc, req>>
      /\ UNCHANGED <<dbVars, effects, worker, gate, phase, countVars>>

------------------------------------------------------------------------------
(* manual_retry, POST /execute/retry/{execution_id}. *)

(* Mutant: the status of the row is not tested. *)
RetryReadAnything(c, e) ==
  /\ phase = "up" /\ pc[c] = "idle"
  /\ retries < MaxRetries
  /\ status[e] # "absent"
  /\ pc' = [pc EXCEPT ![c] = "reset"]
  /\ req' = [req EXCEPT ![c].exec = e]
  /\ retries' = retries + 1
  /\ UNCHANGED <<dbVars, effects, queue, worker, cmds, gate, phase, faults, losses>>

(* The row is read and its status tested; anything but a dead letter is      *)
(* answered 409.  No code writes the status FAILED the test also admits.     *)
(* There is no governance gate.                                              *)
RetryRead(c, e) ==
  /\ phase = "up" /\ pc[c] = "idle"
  /\ retries < MaxRetries
  /\ status[e] = "dead_letter"
  /\ pc' = [pc EXCEPT ![c] = "reset"]
  /\ req' = [req EXCEPT ![c].exec = e]
  /\ retries' = retries + 1
  /\ UNCHANGED <<dbVars, effects, queue, worker, cmds, gate, phase, faults, losses>>

(* The row the request read stays in its session, so the status is not       *)
(* tested again: it is overwritten with PENDING, and the new command has     *)
(* barricade_count = 0.                                                      *)
RetryReset(c) ==
  /\ pc[c] = "reset"
  /\ UpdateRow(req[c].exec, "pending", 0)
  /\ cmds' = [cmds EXCEPT ![c] = <<[exec |-> req[c].exec, barricades |-> FALSE]>>]
  /\ pc' = [pc EXCEPT ![c] = "put"]
  /\ UNCHANGED <<audit, effects, queue, worker, req, gate, phase, countVars>>

RetryFault(c) ==
  /\ pc[c] = "reset"
  /\ Raise
  /\ Return(c)
  /\ UNCHANGED <<dbVars, effects, queue, worker, gate, phase, retries, losses>>

------------------------------------------------------------------------------
(* The worker: CommandQueue._worker and _process_command. *)

Exec == worker.cmd.exec
GoTo(l) == worker' = [worker EXCEPT !.pc = l]

(* Mutant: one attempt too many. *)
IsFinalTooLate == worker.attempt > MaxAttempts

IsFinal == worker.attempt >= MaxAttempts

(* Mutant: the audit never says dead_letter. *)
FailureOutcomeUnlabelled == "failed"

FailureOutcome == IF IsFinal THEN "dead_letter" ELSE "failed"

Take ==
  /\ phase # "down" /\ worker.pc = "idle"
  /\ queue # <<>>
  /\ worker' = [pc |-> "start", cmd |-> Head(queue), attempt |-> 1]
  /\ queue' = Tail(queue)
  /\ UNCHANGED <<dbVars, effects, clientVars, gate, phase, countVars>>

(* Mutant: the row is not marked. *)
MarkProcessingUnmarked ==
  /\ worker.pc = "start"
  /\ GoTo("call")
  /\ UNCHANGED <<dbVars, effects, queue, clientVars, gate, phase, countVars>>

MarkProcessing ==
  /\ worker.pc = "start"
  /\ UpdateRow(Exec, "processing", worker.attempt)
  /\ GoTo("call")
  /\ UNCHANGED <<audit, effects, queue, clientVars, gate, phase, countVars>>

(* Mutant: the audit row of an acknowledgement is left out. *)
StationAnswersUnaudited ==
  LET nothingToReserve == key[Exec][2] = "barricade" /\ ~worker.cmd.barricades
  IN  /\ worker.pc = "call"
      /\ \/ /\ effects' = IF nothingToReserve THEN effects
                          ELSE [effects EXCEPT ![Exec] = @ + 1]
            /\ GoTo("ack_row")
         \/ /\ ~nothingToReserve
            /\ GoTo("fail_audit")
            /\ UNCHANGED effects
      /\ UNCHANGED <<dbVars, queue, clientVars, gate, phase, countVars>>

(* dispatch_unit or reserve_barricades.  A reservation of no barricades is   *)
(* answered 200 at once and reserves nothing.                                *)
StationAnswers ==
  LET nothingToReserve == key[Exec][2] = "barricade" /\ ~worker.cmd.barricades
  IN  /\ worker.pc = "call"
      /\ \/ /\ effects' = IF nothingToReserve THEN effects
                          ELSE [effects EXCEPT ![Exec] = @ + 1]
            /\ GoTo("ack_audit")
         \/ /\ ~nothingToReserve
            /\ GoTo("fail_audit")
            /\ UNCHANGED effects
      /\ UNCHANGED <<dbVars, queue, clientVars, gate, phase, countVars>>

RecordAck ==
  /\ worker.pc = "ack_audit"
  /\ AppendAudit(Exec, "acknowledged")
  /\ GoTo("ack_row")
  /\ UNCHANGED <<rowVars, effects, queue, clientVars, gate, phase, countVars>>

MarkAcknowledged ==
  /\ worker.pc = "ack_row"
  /\ UpdateRow(Exec, "acknowledged", worker.attempt)
  /\ worker' = IdleWorker
  /\ UNCHANGED <<audit, effects, queue, clientVars, gate, phase, countVars>>

RecordFailure ==
  /\ worker.pc \in {"fail_audit", "exc_audit"}
  /\ AppendAudit(Exec, FailureOutcome)
  /\ GoTo(IF worker.pc = "fail_audit" THEN "fail_row"
          ELSE IF IsFinal THEN "exc_row" ELSE "backoff")
  /\ UNCHANGED <<rowVars, effects, queue, clientVars, gate, phase, countVars>>

(* Mutant: the worker leaves a row it has marked RETRYING to nobody. *)
MarkRetryingAndLeave ==
  /\ worker.pc = "fail_row" /\ ~IsFinal
  /\ UpdateRow(Exec, "retrying", worker.attempt)
  /\ worker' = IdleWorker
  /\ UNCHANGED <<audit, effects, queue, clientVars, gate, phase, countVars>>

(* The failure branch marks the row RETRYING; the except branch leaves it    *)
(* PROCESSING until the next attempt.                                        *)
MarkRetrying ==
  /\ worker.pc = "fail_row" /\ ~IsFinal
  /\ UpdateRow(Exec, "retrying", worker.attempt)
  /\ GoTo("backoff")
  /\ UNCHANGED <<audit, effects, queue, clientVars, gate, phase, countVars>>

MarkDeadLetter ==
  /\ worker.pc \in {"fail_row", "exc_row"} /\ IsFinal
  /\ UpdateRow(Exec, "dead_letter", worker.attempt)
  /\ worker' = IdleWorker
  /\ UNCHANGED <<audit, effects, queue, clientVars, gate, phase, countVars>>

NextAttempt ==
  /\ worker.pc = "backoff"
  /\ worker' = [worker EXCEPT !.pc = "start", !.attempt = @ + 1]
  /\ UNCHANGED <<dbVars, effects, queue, clientVars, gate, phase, countVars>>

(* An exception outside the try, or inside its except clause, leaves         *)
(* _process_command: the worker logs it and takes the next command.          *)
DropCommand ==
  /\ worker.pc \in {"start", "exc_audit", "exc_row"}
  /\ Raise
  /\ worker' = IdleWorker
  /\ \/ UNCHANGED audit
     \/ worker.pc = "exc_audit" /\ AppendAudit(Exec, FailureOutcome)
  /\ UNCHANGED <<rowVars, effects, queue, clientVars, gate, phase, retries, losses>>

(* Inside the try, every exception is handled as a failed attempt, also when *)
(* the station has already done what it was asked.                           *)
CatchException ==
  /\ worker.pc \in {"ack_audit", "ack_row", "fail_audit", "fail_row"}
  /\ Raise
  /\ GoTo("exc_audit")
  /\ \/ UNCHANGED audit
     \/ worker.pc = "ack_audit" /\ AppendAudit(Exec, "acknowledged")
     \/ worker.pc = "fail_audit" /\ AppendAudit(Exec, FailureOutcome)
  /\ UNCHANGED <<rowVars, effects, queue, clientVars, gate, phase, retries, losses>>

------------------------------------------------------------------------------
(* Governance and the process. *)

SetGate(g) ==
  /\ gate' = g /\ g # gate
  /\ UNCHANGED <<dbVars, effects, queue, worker, clientVars, phase, countVars>>

(* The shutdown half of lifespan runs when the server has let its requests   *)
(* finish; stop() queues the sentinel behind the commands.                   *)
Stop ==
  /\ phase = "up" /\ \A c \in Clients : pc[c] = "idle"
  /\ phase' = "stopping"
  /\ UNCHANGED <<dbVars, effects, queue, worker, clientVars, gate, countVars>>

(* The worker takes the sentinel: everything before it has been processed. *)
Stopped ==
  /\ phase = "stopping" /\ worker.pc = "idle" /\ queue = <<>>
  /\ phase' = "down"
  /\ UNCHANGED <<dbVars, effects, queue, worker, clientVars, gate, countVars>>

(* The process dies, or stop() waited 5 s and cancels the worker. *)
Lose ==
  /\ phase # "down" /\ losses < MaxLosses
  /\ losses' = losses + 1
  /\ phase' = "down"
  /\ queue' = <<>>
  /\ worker' = IdleWorker
  /\ pc' = [c \in Clients |-> "idle"]
  /\ req' = [c \in Clients |-> NoRequest]
  /\ cmds' = [c \in Clients |-> <<>>]
  /\ UNCHANGED <<dbVars, effects, gate, retries, faults>>

(* setup_command_queue: a new, empty queue; no row is read. *)
Start ==
  /\ phase = "down"
  /\ phase' = "up"
  /\ UNCHANGED <<dbVars, effects, queue, worker, clientVars, gate, countVars>>

------------------------------------------------------------------------------
Init ==
  /\ status = [e \in Execs |-> "absent"]
  /\ key = [e \in Execs |-> NoKey]
  /\ attempts = [e \in Execs |-> 0]
  /\ audit = [e \in Execs |-> [o \in Outcome |-> 0]]
  /\ effects = [e \in Execs |-> 0]
  /\ queue = <<>>
  /\ worker = IdleWorker
  /\ pc = [c \in Clients |-> "idle"]
  /\ req = [c \in Clients |-> NoRequest]
  /\ cmds = [c \in Clients |-> <<>>]
  /\ gate = "open"
  /\ phase = "up"
  /\ retries = 0
  /\ faults = 0
  /\ losses = 0

(* What a request does once it is admitted, and what the worker does, as     *)
(* long as the database answers.                                             *)
RequestStep(c) == Lookup(c) \/ Insert(c) \/ Put(c) \/ RetryReset(c)

WorkerStep ==
  \/ Take
  \/ MarkProcessing
  \/ StationAnswers
  \/ RecordAck
  \/ MarkAcknowledged
  \/ RecordFailure
  \/ MarkRetrying
  \/ MarkDeadLetter
  \/ NextAttempt

Next ==
  \/ \E c \in Approvers, t \in Tokens : Submit(c, t)
  \/ \E c \in Operators, e \in Execs : RetryRead(c, e)
  \/ \E c \in Clients : RequestStep(c) \/ EnqueueFault(c) \/ RetryFault(c)
  \/ WorkerStep
  \/ DropCommand
  \/ CatchException
  \/ \E g \in {"open", "closed"} : SetGate(g)
  \/ Stop
  \/ Stopped
  \/ Lose
  \/ Start

Spec == Init /\ [][Next]_vars

(* The event loop runs every task that can run: the worker and each admitted *)
(* request go on.  Nothing obliges clients to call, the database to fail or  *)
(* the process to stop or start.                                             *)
Fairness ==
  /\ WF_vars(WorkerStep)
  /\ \A c \in Clients : WF_vars(RequestStep(c))

FairSpec == Spec /\ Fairness

------------------------------------------------------------------------------
(* Properties. *)

(* The type of every variable; a busy worker always holds a command.         *)
TypeOK ==
  /\ status \in [Execs -> Status]
  /\ key \in [Execs -> Key \cup {NoKey}]
  /\ attempts \in [Execs -> 0..MaxAttempts]
  /\ audit \in [Execs -> [Outcome -> Nat]]
  /\ effects \in [Execs -> Nat]
  /\ queue \in Seq(Command) /\ Len(queue) <= QueueCap
  /\ worker \in [pc : WorkerPc, cmd : Command, attempt : 1..MaxAttempts] \cup {IdleWorker}
  /\ pc \in [Clients -> ClientPc]
  /\ req \in [Clients -> [key : Key \cup {NoKey}, exec : Execs \cup {NoExec}]]
  /\ cmds \in [Clients -> Seq(Command)]
  /\ gate \in {"open", "closed"}
  /\ phase \in {"up", "stopping", "down"}
  /\ retries \in Nat /\ faults \in Nat /\ losses \in Nat

(* A settled row is backed by the immutable audit: whatever the order of      *)
(* commits, failures and retries, a row says acknowledged (dead_letter) only  *)
(* if an audit row with that outcome was committed (service.py:105-126,       *)
(* 137-167, 189-210).                                                         *)
SettledRowsAreAudited ==
  \A e \in Execs : status[e] \in Settled => audit[e][status[e]] > 0

(* The station has answered 2xx and nothing has been written about it yet. *)
InFlight(e) == IF worker.pc = "ack_audit" /\ Exec = e THEN 1 ELSE 0

(* Each unit sent and each reservation made at a station is in the audit as   *)
(* acknowledged, or is about to be; the exceptions are one for each failed    *)
(* database call and each loss of the process (service.py:105-121: the        *)
(* station has acted before anything is written).                             *)
EffectsAreAudited ==
  \A e \in Execs :
    effects[e] <= audit[e]["acknowledged"] + InFlight(e) + faults + losses

(* The station acts at most once for a command, except that each failed       *)
(* database call may cost one more (the except clause at service.py:187       *)
(* retries what the station has already done).  With a single operator.       *)
AtMostOneEffect == \A e \in Execs : effects[e] <= 1 + faults

(* Somebody still holds the command. *)
Carried(e) ==
  \/ \E i \in DOMAIN queue : queue[i].exec = e
  \/ worker.cmd.exec = e
  \/ \E c \in Clients : \E i \in DOMAIN cmds[c] : cmds[c][i].exec = e

(* A command still to be settled is in the hands of the queue, the worker or  *)
(* a request, so it is never silently lost: not by retries, a full queue or   *)
(* an orderly shutdown, as long as no database call fails and the process     *)
(* does not die (queue.py:63-88, service.py:258-260, 371-385).                *)
NoCommandLost ==
  faults + losses = 0 =>
    \A e \in Execs : status[e] \in Unsettled => Carried(e)

(* service.py:5, double-approve -> single execution: one row per approval     *)
(* token and command type (service.py:279-300).                               *)
SingleExecution ==
  \A e, f \in Execs : status[e] # "absent" /\ key[e] = key[f] => e = f

(* service.py:367, only DEAD_LETTER/FAILED can be retried: what the station   *)
(* acknowledged stays acknowledged.                                           *)
AcknowledgedIsFinal ==
  [][\A e \in Execs : status[e] = "acknowledged" => status'[e] = "acknowledged"]_vars

Abstract == INSTANCE CommandLifecycle

(* The broker implements the lifecycle of a command (M10_Agentic...md:62-65), *)
(* with the same rows and the same acts of the station.                       *)
ImplementsLifecycle == Abstract!Lifecycle

(* M10_AgenticExecutionBroker.md:145, each command has its own retry/DLQ      *)
(* lifecycle: an acknowledged barricade command has its barricades reserved.  *)
AcknowledgedMeansDone ==
  \A e \in Execs : status[e] = "acknowledged" => effects[e] > 0

(* Every command is eventually acknowledged or dead-lettered, unless the      *)
(* database or the process fails (the retry loop, service.py:77-212).         *)
EveryCommandSettles ==
  \A e \in Execs :
    status[e] \in Unsettled ~> status[e] \in Settled \/ faults + losses > 0

(* A request is answered even if it has to wait for room in the queue.        *)
RequestsReturn == \A c \in Clients : pc[c] # "idle" ~> pc[c] = "idle"

==============================================================================
