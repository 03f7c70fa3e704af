------------------------------ MODULE VmsRouter ------------------------------
(***************************************************************************)
(* M11, the VMSRouter: vms/service.py, repository.py, board_registry.py    *)
(* and mock_webhook.py of the backend.                                     *)
(*                                                                         *)
(* A push writes one vms_deliveries row for each board of the corridor and *)
(* starts, for each, a task of its own that posts the text to the board up *)
(* to MaxAttempts times.  An operator may retry a dead-lettered delivery,  *)
(* which starts another task for the same row.                             *)
(*                                                                         *)
(* An action is the code between two awaits that matter.  Unlike the       *)
(* commands of M10 the deliveries wait in no queue: nothing orders the     *)
(* tasks, nothing bounds them, and no shutdown waits for them.             *)
(***************************************************************************)
EXTENDS Naturals, FiniteSets

CONSTANTS
  Deliveries,   \* delivery ids (uuid4 in the code, so always fresh)
  Pushes,       \* push ids
  BoardCount,   \* boards of the corridor, numbered as the registry lists them
  Callers,      \* concurrent calls of push
  Operators,    \* concurrent calls of retry
  MaxAttempts,  \* _MAX_ATTEMPTS (3 in the code)
  MaxRetries,   \* bound: manual retries admitted
  MaxFaults,    \* bound: database operations that raise
  MaxLosses     \* bound: times the process stops

NoDelivery == "none"
NoPush == "none"

(* An unknown corridor has the default boards, so a corridor always has one. *)
ASSUME RouterAssumption ==
  /\ NoDelivery \notin Deliveries
  /\ NoPush \notin Pushes
  /\ Callers \cap Operators = {}
  /\ BoardCount \in Nat \ {0}
  /\ MaxAttempts \in Nat \ {0}
  /\ MaxRetries \in Nat
  /\ MaxFaults \in Nat
  /\ MaxLosses \in Nat

VARIABLES
  status,     \* vms_deliveries.status, "absent" while there is no row
  key,        \* vms_deliveries.(push_id, board_id)
  attempts,   \* vms_deliveries.retry_count
  flag,       \* vms_deliveries.dead_letter
  displayed,  \* at the board: how often it has accepted the text of a delivery
  task,       \* the delivery tasks
  pc,         \* where each request is
  req,        \* the locals of each request
  shadow,     \* get_governance().shadow_mode
  up,         \* whether the process runs
  retries,    \* manual retries admitted so far
  faults,     \* database operations that raised so far
  losses      \* times the process stopped so far

rowVars == <<status, key, attempts, flag>>
clientVars == <<pc, req>>
countVars == <<retries, faults, losses>>
vars == <<rowVars, displayed, task, clientVars, shadow, up, countVars>>

Clients == Callers \cup Operators
Boards == 1..BoardCount
Settled == {"delivered", "dead_letter"}
Unsettled == {"pending", "processing", "retrying"}
Status == {"absent"} \cup Settled \cup Unsettled
NoKey == <<>>
Key == Pushes \X Boards

(* A delivery has the task its push started, 0, and one for each retry.      *)
TaskIds == Deliveries \X (0..MaxRetries)
TaskPc == {"mark", "post", "ok", "fail", "exc", "backoff"}
NoTask == [pc |-> "none", attempt |-> 0]
NewTask == [pc |-> "mark", attempt |-> 1]

NoRequest == [push |-> NoPush, next |-> 1, delivery |-> NoDelivery, retry |-> 0]

------------------------------------------------------------------------------
(* The table. *)

(* list_by_push *)
RowsOf(p) == {d \in Deliveries : status[d] # "absent" /\ key[d][1] = p}

(* create_delivery *)
CreateRow(d, k) ==
  /\ status' = [status EXCEPT ![d] = "pending"]
  /\ key' = [key EXCEPT ![d] = k]
  /\ attempts' = [attempts EXCEPT ![d] = 0]
  /\ flag' = [flag EXCEPT ![d] = FALSE]

(* update: one UPDATE, one commit; dead_letter is only ever set. *)
UpdateRow(d, s, n, dead) ==
  /\ status' = [status EXCEPT ![d] = s]
  /\ attempts' = [attempts EXCEPT ![d] = n]
  /\ flag' = [flag EXCEPT ![d] = @ \/ dead]
  /\ UNCHANGED key

(* A database call raises. *)
Raise == faults < MaxFaults /\ faults' = faults + 1

------------------------------------------------------------------------------
(* push, called by approve() and by POST /vms/push. *)

Return(c) ==
  /\ pc' = [pc EXCEPT ![c] = "idle"]
  /\ req' = [req EXCEPT ![c] = NoRequest]

(* Past the shadow gate; the tier is not asked for. *)
Submit(c, p) ==
  /\ up /\ pc[c] = "idle"
  /\ ~shadow
  /\ pc' = [pc EXCEPT ![c] = "lookup"]
  /\ req' = [req EXCEPT ![c].push = p]
  /\ UNCHANGED <<rowVars, displayed, task, shadow, up, countVars>>

(* Mutant: the rows of the push are not looked for. *)
LookupUnchecked(c) ==
  /\ pc[c] = "lookup"
  /\ pc' = [pc EXCEPT ![c] = "create"]
  /\ UNCHANGED <<rowVars, displayed, task, req, shadow, up, countVars>>

(* The idempotency check: any row of the push id answers the request. *)
Lookup(c) ==
  /\ pc[c] = "lookup"
  /\ IF RowsOf(req[c].push) # {}
     THEN Return(c)
     ELSE pc' = [pc EXCEPT ![c] = "create"] /\ UNCHANGED req
  /\ UNCHANGED <<rowVars, displayed, task, shadow, up, countVars>>

(* Mutant: the last board is left out. *)
CreateAllButLast(c) ==
  /\ pc[c] = "create"
  /\ \E d \in Deliveries :
       /\ status[d] = "absent"
       /\ CreateRow(d, <<req[c].push, req[c].next>>)
       /\ task' = [task EXCEPT ![<<d, 0>>] = NewTask]
  /\ \/ /\ req[c].next + 1 < BoardCount
        /\ req' = [req EXCEPT ![c].next = @ + 1]
        /\ UNCHANGED pc
     \/ /\ req[c].next + 1 >= BoardCount
        /\ Return(c)
  /\ UNCHANGED <<displayed, shadow, up, countVars>>

(* The row of the next board is committed and its task started at once. *)
Create(c) ==
  /\ pc[c] = "create"
  /\ \E d \in Deliveries :
       /\ status[d] = "absent"
       /\ CreateRow(d, <<req[c].push, req[c].next>>)
       /\ task' = [task EXCEPT ![<<d, 0>>] = NewTask]
  /\ \/ /\ req[c].next < BoardCount
        /\ req' = [req EXCEPT ![c].next = @ + 1]
        /\ UNCHANGED pc
     \/ /\ req[c].next = BoardCount
        /\ Return(c)
  /\ UNCHANGED <<displayed, shadow, up, countVars>>

(* The query, the INSERT, or the refresh after its commit raises: the boards *)
(* served so far keep their tasks, the others get none.                      *)
PushFault(c) ==
  /\ pc[c] \in {"lookup", "create"}
  /\ Raise
  /\ Return(c)
  /\ \/ UNCHANGED rowVars
     \/ /\ pc[c] = "create"
        /\ \E d \in Deliveries :
             status[d] = "absent" /\ CreateRow(d, <<req[c].push, req[c].next>>)
  /\ UNCHANGED <<displayed, task, shadow, up, retries, losses>>

------------------------------------------------------------------------------
(* retry, POST /vms/retry/{delivery_id}.  It has no gate, and no code writes *)
(* the status FAILED that it also admits.                                    *)

(* Mutant: the status of the row is not tested. *)
RetryReadAnything(c, d) ==
  /\ up /\ pc[c] = "idle"
  /\ retries < MaxRetries
  /\ status[d] # "absent"
  /\ retries' = retries + 1
  /\ pc' = [pc EXCEPT ![c] = "reset"]
  /\ req' = [req EXCEPT ![c].delivery = d, ![c].retry = retries']
  /\ UNCHANGED <<rowVars, displayed, task, shadow, up, faults, losses>>

RetryRead(c, d) ==
  /\ up /\ pc[c] = "idle"
  /\ retries < MaxRetries
  /\ status[d] = "dead_letter"
  /\ retries' = retries + 1
  /\ pc' = [pc EXCEPT ![c] = "reset"]
  /\ req' = [req EXCEPT ![c].delivery = d, ![c].retry = retries']
  /\ UNCHANGED <<rowVars, displayed, task, shadow, up, faults, losses>>

(* Mutant: the task is left to somebody else. *)
RetryResetOnly(c) ==
  /\ pc[c] = "reset"
  /\ UpdateRow(req[c].delivery, "pending", 0, FALSE)
  /\ Return(c)
  /\ UNCHANGED <<displayed, task, shadow, up, countVars>>

(* The row is reset, whatever its status is by now, and a new task started. *)
RetryReset(c) ==
  /\ pc[c] = "reset"
  /\ UpdateRow(req[c].delivery, "pending", 0, FALSE)
  /\ task' = [task EXCEPT ![<<req[c].delivery, req[c].retry>>] = NewTask]
  /\ Return(c)
  /\ UNCHANGED <<displayed, shadow, up, countVars>>

RetryFault(c) ==
  /\ pc[c] = "reset"
  /\ Raise
  /\ Return(c)
  /\ UNCHANGED <<rowVars, displayed, task, shadow, up, retries, losses>>

------------------------------------------------------------------------------
(* _deliver_to_board *)

GoTo(t, l) == task' = [task EXCEPT ![t].pc = l]
End(t) == task' = [task EXCEPT ![t] = NoTask]
IsFinal(t) == task[t].attempt >= MaxAttempts

MarkProcessing(t) ==
  /\ task[t].pc = "mark"
  /\ UpdateRow(t[1], "processing", task[t].attempt, FALSE)
  /\ GoTo(t, "post")
  /\ UNCHANGED <<displayed, clientVars, shadow, up, countVars>>

(* Mutant: the status code of the board is not looked at. *)
BoardAnswersUnread(t) ==
  /\ task[t].pc = "post"
  /\ GoTo(t, "ok")
  /\ displayed' \in {displayed, [displayed EXCEPT ![t[1]] = @ + 1]}
  /\ UNCHANGED <<rowVars, clientVars, shadow, up, countVars>>

(* post_to_board: 200 when the board shows the text, 503 when not. *)
BoardAnswers(t) ==
  /\ task[t].pc = "post"
  /\ \/ /\ displayed' = [displayed EXCEPT ![t[1]] = @ + 1]
        /\ GoTo(t, "ok")
     \/ /\ GoTo(t, "fail")
        /\ UNCHANGED displayed
  /\ UNCHANGED <<rowVars, clientVars, shadow, up, countVars>>

MarkDelivered(t) ==
  /\ task[t].pc = "ok"
  /\ UpdateRow(t[1], "delivered", task[t].attempt, FALSE)
  /\ End(t)
  /\ UNCHANGED <<displayed, clientVars, shadow, up, countVars>>

(* Mutant: the task ends with its first failure. *)
MarkRetryingAndEnd(t) ==
  /\ task[t].pc \in {"fail", "exc"} /\ ~IsFinal(t)
  /\ UpdateRow(t[1], "retrying", task[t].attempt, FALSE)
  /\ End(t)
  /\ UNCHANGED <<displayed, clientVars, shadow, up, countVars>>

(* The failure branch and the except branch write the same. *)
MarkRetrying(t) ==
  /\ task[t].pc \in {"fail", "exc"} /\ ~IsFinal(t)
  /\ UpdateRow(t[1], "retrying", task[t].attempt, FALSE)
  /\ GoTo(t, "backoff")
  /\ UNCHANGED <<displayed, clientVars, shadow, up, countVars>>

(* Mutant: the task goes on after the last attempt. *)
MarkDeadLetterAndGoOn(t) ==
  /\ task[t].pc \in {"fail", "exc"} /\ IsFinal(t)
  /\ UpdateRow(t[1], "dead_letter", task[t].attempt, TRUE)
  /\ GoTo(t, "backoff")
  /\ UNCHANGED <<displayed, clientVars, shadow, up, countVars>>

MarkDeadLetter(t) ==
  /\ task[t].pc \in {"fail", "exc"} /\ IsFinal(t)
  /\ UpdateRow(t[1], "dead_letter", task[t].attempt, TRUE)
  /\ End(t)
  /\ UNCHANGED <<displayed, clientVars, shadow, up, countVars>>

NextAttempt(t) ==
  /\ task[t].pc = "backoff"
  /\ task' = [task EXCEPT ![t] = [pc |-> "mark", attempt |-> task[t].attempt + 1]]
  /\ UNCHANGED <<rowVars, displayed, clientVars, shadow, up, countVars>>

(* A write inside the try raises: handled as a failed attempt, also when the *)
(* board shows the text.                                                     *)
CatchException(t) ==
  /\ task[t].pc \in {"ok", "fail"}
  /\ Raise
  /\ GoTo(t, "exc")
  /\ UNCHANGED <<rowVars, displayed, clientVars, shadow, up, retries, losses>>

(* A write before the try or in its except clause raises: the task is over.  *)
TaskDies(t) ==
  /\ task[t].pc \in {"mark", "exc"}
  /\ Raise
  /\ End(t)
  /\ UNCHANGED <<rowVars, displayed, clientVars, shadow, up, retries, losses>>

------------------------------------------------------------------------------
(* Governance and the process. *)

SetShadow ==
  /\ shadow' = ~shadow
  /\ UNCHANGED <<rowVars, displayed, task, clientVars, up, countVars>>

(* The process stops, orderly or not: nothing waits for the tasks. *)
Lose ==
  /\ up /\ losses < MaxLosses
  /\ losses' = losses + 1
  /\ up' = FALSE
  /\ task' = [t \in TaskIds |-> NoTask]
  /\ pc' = [c \in Clients |-> "idle"]
  /\ req' = [c \in Clients |-> NoRequest]
  /\ UNCHANGED <<rowVars, displayed, shadow, retries, faults>>

(* Nothing reads the table at start. *)
Start ==
  /\ ~up
  /\ up' = TRUE
  /\ UNCHANGED <<rowVars, displayed, task, clientVars, shadow, countVars>>

------------------------------------------------------------------------------
Init ==
  /\ status = [d \in Deliveries |-> "absent"]
  /\ key = [d \in Deliveries |-> NoKey]
  /\ attempts = [d \in Deliveries |-> 0]
  /\ flag = [d \in Deliveries |-> FALSE]
  /\ displayed = [d \in Deliveries |-> 0]
  /\ task = [t \in TaskIds |-> NoTask]
  /\ pc = [c \in Clients |-> "idle"]
  /\ req = [c \in Clients |-> NoRequest]
  /\ shadow \in BOOLEAN
  /\ up = TRUE
  /\ retries = 0
  /\ faults = 0
  /\ losses = 0

RequestStep(c) == Lookup(c) \/ Create(c) \/ RetryReset(c)

TaskStep(t) ==
  \/ MarkProcessing(t)
  \/ BoardAnswers(t)
  \/ MarkDelivered(t)
  \/ MarkRetrying(t)
  \/ MarkDeadLetter(t)
  \/ NextAttempt(t)

Next ==
  \/ \E c \in Callers, p \in Pushes : Submit(c, p)
  \/ \E c \in Operators, d \in Deliveries : RetryRead(c, d)
  \/ \E c \in Clients : RequestStep(c) \/ PushFault(c) \/ RetryFault(c)
  \/ \E t \in TaskIds : TaskStep(t) \/ CatchException(t) \/ TaskDies(t)
  \/ SetShadow
  \/ Lose
  \/ Start

Spec == Init /\ [][Next]_vars

(* The event loop runs every task and every admitted request that can run. *)
Fairness ==
  /\ \A t \in TaskIds : WF_vars(TaskStep(t))
  /\ \A c \in Clients : WF_vars(RequestStep(c))

FairSpec == Spec /\ Fairness

------------------------------------------------------------------------------
(* Properties. *)

(* The type of every variable. *)
TypeOK ==
  /\ status \in [Deliveries -> Status]
  /\ key \in [Deliveries -> Key \cup {NoKey}]
  /\ attempts \in [Deliveries -> 0..MaxAttempts]
  /\ flag \in [Deliveries -> BOOLEAN]
  /\ displayed \in [Deliveries -> Nat]
  /\ task \in [TaskIds -> [pc : TaskPc, attempt : 1..MaxAttempts] \cup {NoTask}]
  /\ pc \in [Clients -> {"idle", "lookup", "create", "reset"}]
  /\ req \in [Clients -> [push : Pushes \cup {NoPush}, next : Boards,
                          delivery : Deliveries \cup {NoDelivery}, retry : 0..MaxRetries]]
  /\ shadow \in BOOLEAN
  /\ up \in BOOLEAN
  /\ retries \in 0..MaxRetries /\ faults \in Nat /\ losses \in Nat

(* A row says delivered only if its board has accepted the text, whatever     *)
(* retries, failures and tasks of the same row interleave                     *)
(* (service.py:69-90).                                                        *)
DeliveredWasDisplayed ==
  \A d \in Deliveries : status[d] = "delivered" => displayed[d] > 0

Running(t) == task[t].pc # "none"

(* A delivery still to be settled has a task that will settle it, as long as  *)
(* no database call fails and the process goes on: a push starts one for each *)
(* row and a retry a new one (service.py:190-214, 258-266).                   *)
NoDeliveryLost ==
  faults + losses = 0 =>
    \A d \in Deliveries :
      status[d] \in Unsettled => \E t \in TaskIds : t[1] = d /\ Running(t)

Pushing(p) == \E c \in Clients : pc[c] = "create" /\ req[c].push = p

(* A push reaches all boards of its corridor or none, once its request has    *)
(* returned, as long as nothing fails (service.py:162-214): the rows the      *)
(* idempotency check finds are the whole fanout.                              *)
WholeFanout ==
  faults + losses = 0 =>
    \A p \in Pushes :
      RowsOf(p) # {} /\ ~Pushing(p) =>
        \A b \in Boards : \E d \in Deliveries : status[d] # "absent" /\ key[d] = <<p, b>>

(* service.py:145, skip if push_id already exists: each board has one         *)
(* delivery of a push, when pushes come one after another.                    *)
OneDeliveryPerBoard ==
  \A d, e \in Deliveries : status[d] # "absent" /\ key[d] = key[e] => d = e

(* A board accepts the text of a delivery at most once, except that each      *)
(* failed database call may cost one more (the except clause,                 *)
(* service.py:113-127).  With a single operator.                              *)
DisplayedOnce == \A d \in Deliveries : displayed[d] <= 1 + faults

Abstract == INSTANCE CommandLifecycle WITH
  Execs <- Deliveries,
  status <- [d \in Deliveries |-> IF status[d] = "delivered" THEN "acknowledged" ELSE status[d]],
  effects <- displayed

(* A delivery has the lifecycle of a command of M10                           *)
(* (M11_VMSRouter.md, Status machine), with the same acts of the board.       *)
ImplementsLifecycle == Abstract!Lifecycle

(* vms/service.py:258, retry asks for dead_letter=False: only a dead letter   *)
(* is marked as one.                                                          *)
OnlyDeadLettersFlagged ==
  \A d \in Deliveries : flag[d] => status[d] = "dead_letter"

(* Every delivery is eventually confirmed or dead-lettered, whatever becomes  *)
(* of the other boards of its push, unless the database or the process fails. *)
EveryDeliverySettles ==
  \A d \in Deliveries :
    status[d] \in Unsettled ~> status[d] \in Settled \/ faults + losses > 0

==============================================================================
