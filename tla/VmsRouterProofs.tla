--------------------------- MODULE VmsRouterProofs ---------------------------
(***************************************************************************)
(* Proofs about VmsRouter, for every value of its constants.               *)
(***************************************************************************)
EXTENDS VmsRouter, TLAPS

------------------------------------------------------------------------------
(* The type invariant. *)

RowTypes ==
  /\ status \in [Deliveries -> Status]
  /\ key \in [Deliveries -> Key \cup {NoKey}]
  /\ attempts \in [Deliveries -> 0..MaxAttempts]
  /\ flag \in [Deliveries -> BOOLEAN]

TaskRecord == [pc : TaskPc, attempt : 1..MaxAttempts]
TaskTypes == task \in [TaskIds -> TaskRecord \cup {NoTask}]

ClientPc == {"idle", "lookup", "create", "reset"}
Request == [push : Pushes \cup {NoPush}, next : Boards,
            delivery : Deliveries \cup {NoDelivery}, retry : 0..MaxRetries]
ClientTypes == pc \in [Clients -> ClientPc] /\ req \in [Clients -> Request]

OtherTypes ==
  /\ displayed \in [Deliveries -> Nat]
  /\ shadow \in BOOLEAN /\ up \in BOOLEAN
  /\ retries \in 0..MaxRetries /\ faults \in Nat /\ losses \in Nat

(* A request knows what it is about: which push, and from which board on;     *)
(* which delivery, and that it has a row.                                     *)
ReqInv ==
  \A c \in Clients :
    /\ pc[c] \in {"lookup", "create"} => req[c].push \in Pushes
    /\ pc[c] # "create" => req[c].next = 1
    /\ pc[c] = "reset" => /\ req[c].delivery \in Deliveries
                          /\ status[req[c].delivery] # "absent"

(* A task has a row, and waits for another attempt only while it has one.     *)
TaskInv ==
  \A t \in TaskIds :
    /\ Running(t) => status[t[1]] # "absent"
    /\ task[t].pc = "backoff" => task[t].attempt < MaxAttempts

(* A row has the key it was created with. *)
KeyInv == \A d \in Deliveries : status[d] # "absent" => key[d] \in Key

TypeInv == TypeOK /\ ReqInv /\ TaskInv /\ KeyInv

(* The parts that the lemmas below establish one by one are the invariant.    *)
LEMMA PartsNext ==
  ASSUME RowTypes', KeyInv', TaskTypes', TaskInv', ClientTypes', ReqInv', OtherTypes'
  PROVE  TypeInv'
BY DEF TypeInv, TypeOK, RowTypes, TaskTypes, TaskRecord, ClientTypes, ClientPc, Request, OtherTypes

LEMMA TaskIdParts ==
  ASSUME NEW t \in TaskIds
  PROVE  t[1] \in Deliveries /\ t[2] \in 0..MaxRetries /\ t = <<t[1], t[2]>>
BY DEF TaskIds

LEMMA Constants ==
  /\ 1 \in Boards /\ NoRequest \in Request /\ 0 \in 0..MaxRetries
  /\ NewTask \in TaskRecord /\ NoTask \notin TaskRecord
  /\ 0 \in 0..MaxAttempts
<1>1. 1 \in Boards
  BY RouterAssumption DEF Boards
<1>2. 0 \in 0..MaxRetries /\ 0 \in 0..MaxAttempts /\ 1 \in 1..MaxAttempts
  BY RouterAssumption
<1>3. NoRequest \in Request
  BY <1>1, <1>2 DEF NoRequest, Request
<1>4. NewTask \in TaskRecord /\ NoTask \notin TaskRecord
  BY <1>2 DEF NewTask, NoTask, TaskRecord, TaskPc
<1>5. QED
  BY <1>1, <1>2, <1>3, <1>4

(* A task that is where a task can be has a delivery and an attempt. *)
LEMMA TaskType ==
  ASSUME TypeInv, NEW t \in TaskIds, task[t].pc \in TaskPc
  PROVE  /\ task[t] \in TaskRecord /\ Running(t)
         /\ task[t].attempt \in 1..MaxAttempts /\ task[t].attempt \in 0..MaxAttempts
         /\ t[1] \in Deliveries /\ status[t[1]] # "absent"
<1>1. Running(t)
  BY DEF Running, TaskPc
<1>2. task[t] \in TaskRecord
  BY <1>1 DEF TypeInv, TypeOK, TaskRecord, Running, NoTask
<1>3. QED
  BY <1>1, <1>2, TaskIdParts, RouterAssumption DEF TypeInv, TaskInv, TaskRecord

(* Changing one task leaves the others as they were. *)
LEMMA SetTask ==
  ASSUME TypeInv, NEW t \in TaskIds, NEW r \in TaskRecord \cup {NoTask},
         task' = [task EXCEPT ![t] = r]
  PROVE  TaskTypes' /\ task'[t] = r /\ \A u \in TaskIds : u # t => task'[u] = task[u]
BY DEF TypeInv, TypeOK, TaskTypes, TaskRecord

LEMMA GoToSetsTask ==
  ASSUME TypeInv, NEW t \in TaskIds, task[t].pc \in TaskPc, NEW l \in TaskPc, GoTo(t, l)
  PROVE  \E r \in TaskRecord : /\ task' = [task EXCEPT ![t] = r]
                               /\ r.pc = l /\ r.attempt = task[t].attempt
<1> DEFINE r == [pc |-> l, attempt |-> task[t].attempt]
<1>1. task[t] \in TaskRecord
  BY TaskType
<1>2. r \in TaskRecord /\ [task[t] EXCEPT !.pc = l] = r
  BY <1>1 DEF TaskRecord
<1>3. task' = [task EXCEPT ![t] = r]
  BY <1>2 DEF GoTo
<1>4. QED
  BY <1>2, <1>3

(* Updating a row that exists creates none. *)
LEMMA UpdateRowType ==
  ASSUME TypeInv, NEW d \in Deliveries, status[d] # "absent",
         NEW s \in Settled \cup Unsettled, NEW n \in 0..MaxAttempts, NEW dead \in BOOLEAN,
         UpdateRow(d, s, n, dead)
  PROVE  /\ RowTypes' /\ KeyInv' /\ key' = key
         /\ status'[d] = s /\ \A e \in Deliveries : e # d => status'[e] = status[e]
         /\ \A e \in Deliveries : status'[e] = "absent" <=> status[e] = "absent"
<1>1. status \in [Deliveries -> Status] /\ key \in [Deliveries -> Key \cup {NoKey}]
      /\ attempts \in [Deliveries -> 0..MaxAttempts] /\ flag \in [Deliveries -> BOOLEAN]
  BY DEF TypeInv, TypeOK
<1>2. s \in Status /\ s # "absent"
  BY DEF Status, Settled, Unsettled
<1>3. /\ status' = [status EXCEPT ![d] = s] /\ attempts' = [attempts EXCEPT ![d] = n]
      /\ key' = key
  BY DEF UpdateRow
<1>4. status' \in [Deliveries -> Status] /\ attempts' \in [Deliveries -> 0..MaxAttempts]
  BY <1>1, <1>2, <1>3
<1>5. flag' \in [Deliveries -> BOOLEAN]
  <2>1. (flag[d] \/ dead) \in BOOLEAN
    OBVIOUS
  <2>2. flag' = [flag EXCEPT ![d] = flag[d] \/ dead]
    BY DEF UpdateRow
  <2>3. QED
    BY <1>1, <2>1, <2>2
<1>6. /\ status'[d] = s /\ \A e \in Deliveries : e # d => status'[e] = status[e]
      /\ \A e \in Deliveries : status'[e] = "absent" <=> status[e] = "absent"
  BY <1>1, <1>2, <1>3
<1>7. KeyInv'
  BY <1>3, <1>6 DEF TypeInv, KeyInv
<1>8. QED
  BY <1>1, <1>3, <1>4, <1>5, <1>6, <1>7 DEF RowTypes

(* Creating a row keeps those there are. *)
LEMMA CreateRowType ==
  ASSUME TypeInv, NEW d \in Deliveries, status[d] = "absent", NEW k \in Key, CreateRow(d, k)
  PROVE  /\ RowTypes' /\ KeyInv'
         /\ status'[d] = "pending" /\ key'[d] = k
         /\ \A e \in Deliveries : e # d => status'[e] = status[e] /\ key'[e] = key[e]
<1>1. status \in [Deliveries -> Status] /\ key \in [Deliveries -> Key \cup {NoKey}]
      /\ attempts \in [Deliveries -> 0..MaxAttempts] /\ flag \in [Deliveries -> BOOLEAN]
  BY DEF TypeInv, TypeOK
<1>2. "pending" \in Status
  BY DEF Status, Unsettled
<1>3. RowTypes'
  BY <1>1, <1>2, Constants DEF CreateRow, RowTypes
<1>4. /\ status'[d] = "pending" /\ key'[d] = k
      /\ \A e \in Deliveries : e # d => status'[e] = status[e] /\ key'[e] = key[e]
  BY <1>1 DEF CreateRow
<1>5. KeyInv'
  BY <1>4 DEF TypeInv, KeyInv
<1>6. QED
  BY <1>3, <1>4, <1>5

------------------------------------------------------------------------------
(* Each step keeps the type invariant. *)

(* No step deletes a row. *)
RowsStay == \A d \in Deliveries : status[d] # "absent" => status'[d] # "absent"

(* A request that returns is as if it had never been made. *)
LEMMA ReturnType ==
  ASSUME TypeInv, RowsStay, NEW c \in Clients, Return(c)
  PROVE  ClientTypes' /\ ReqInv'
<1>1. pc \in [Clients -> ClientPc] /\ req \in [Clients -> Request]
  BY DEF TypeInv, TypeOK, ClientPc, Request
<1>2. ClientTypes'
  BY <1>1, Constants DEF Return, ClientTypes, ClientPc
<1>3. /\ pc'[c] = "idle" /\ req'[c].next = 1
      /\ \A b \in Clients : b # c => pc'[b] = pc[b] /\ req'[b] = req[b]
  BY <1>1 DEF Return, NoRequest
<1>4. ReqInv'
  BY <1>3 DEF TypeInv, ReqInv, RowsStay
<1>5. QED
  BY <1>2, <1>4

(* What requests and tasks know of rows stays true. *)
LEMMA ReqKept ==
  ASSUME TypeInv, RowsStay, UNCHANGED clientVars
  PROVE  ClientTypes' /\ ReqInv'
BY DEF TypeInv, TypeOK, ReqInv, RowsStay, clientVars, ClientTypes, ClientPc, Request

LEMMA TaskKept ==
  ASSUME TypeInv, RowsStay, UNCHANGED task
  PROVE  TaskTypes' /\ TaskInv'
<1>1. TaskTypes'
  BY DEF TypeInv, TypeOK, TaskTypes, TaskRecord
<1>2. TaskInv'
  BY TaskIdParts DEF TypeInv, TaskInv, RowsStay, Running
<1>3. QED
  BY <1>1, <1>2

LEMMA RowsKept ==
  ASSUME TypeInv, UNCHANGED rowVars
  PROVE  RowTypes' /\ KeyInv' /\ RowsStay
BY DEF TypeInv, TypeOK, RowTypes, KeyInv, RowsStay, rowVars

(* A task that starts, goes on or ends. *)
LEMMA TaskSet ==
  ASSUME TypeInv, RowsStay, NEW t \in TaskIds, NEW r \in TaskRecord \cup {NoTask},
         task' = [task EXCEPT ![t] = r],
         r # NoTask => status'[t[1]] # "absent",
         r.pc = "backoff" => r.attempt < MaxAttempts
  PROVE  TaskTypes' /\ TaskInv'
<1>1. TaskTypes' /\ task'[t] = r /\ \A u \in TaskIds : u # t => task'[u] = task[u]
  BY SetTask
<1>2. ASSUME NEW u \in TaskIds
      PROVE  /\ Running(u)' => status'[u[1]] # "absent"
             /\ task'[u].pc = "backoff" => task'[u].attempt < MaxAttempts
  <2>1. CASE u = t
    BY <1>1, <2>1 DEF Running, NoTask
  <2>2. CASE u # t
    BY <1>1, <2>2, TaskIdParts DEF TypeInv, TaskInv, Running, RowsStay
  <2>3. QED
    BY <2>1, <2>2
<1>3. QED
  BY <1>1, <1>2 DEF TaskInv

LEMMA SubmitType ==
  ASSUME TypeInv, NEW c \in Callers, NEW p \in Pushes, Submit(c, p)
  PROVE  TypeInv'
<1>1. c \in Clients /\ pc[c] = "idle" /\ UNCHANGED <<rowVars, displayed, task, shadow, up, countVars>>
  BY DEF Submit, Clients
<1>2. RowTypes' /\ KeyInv' /\ RowsStay /\ TaskTypes' /\ TaskInv' /\ OtherTypes'
  BY <1>1, RowsKept, TaskKept DEF TypeInv, TypeOK, OtherTypes, countVars
<1>3. pc \in [Clients -> ClientPc] /\ req \in [Clients -> Request]
  BY DEF TypeInv, TypeOK, ClientPc, Request
<1>4. pc' = [pc EXCEPT ![c] = "lookup"] /\ req' = [req EXCEPT ![c].push = p]
  BY DEF Submit
<1>5. ClientTypes'
  BY <1>1, <1>3, <1>4 DEF ClientTypes, ClientPc, Request
<1>6. /\ pc'[c] = "lookup" /\ req'[c].push = p /\ req'[c].next = req[c].next
      /\ \A b \in Clients : b # c => pc'[b] = pc[b] /\ req'[b] = req[b]
  BY <1>1, <1>3, <1>4 DEF Request
<1>7. ReqInv'
  BY <1>1, <1>2, <1>6 DEF TypeInv, ReqInv, RowsStay
<1>8. QED
  BY <1>2, <1>5, <1>7, PartsNext

LEMMA LookupType ==
  ASSUME TypeInv, NEW c \in Clients, Lookup(c)
  PROVE  TypeInv'
<1>1. UNCHANGED <<rowVars, displayed, task, shadow, up, countVars>>
  BY DEF Lookup
<1>2. RowTypes' /\ KeyInv' /\ RowsStay /\ TaskTypes' /\ TaskInv' /\ OtherTypes'
  BY <1>1, RowsKept, TaskKept DEF TypeInv, TypeOK, OtherTypes, countVars
<1>3. CASE Return(c)
  BY <1>2, <1>3, ReturnType, PartsNext
<1>4. CASE pc' = [pc EXCEPT ![c] = "create"] /\ UNCHANGED req
  <2>1. pc[c] = "lookup" /\ pc \in [Clients -> ClientPc] /\ req \in [Clients -> Request]
    BY DEF Lookup, TypeInv, TypeOK, ClientPc, Request
  <2>2. ClientTypes'
    BY <1>4, <2>1 DEF ClientTypes, ClientPc
  <2>3. ReqInv'
    BY <1>2, <1>4, <2>1 DEF TypeInv, ReqInv, RowsStay
  <2>4. QED
    BY <1>2, <2>2, <2>3, PartsNext
<1>5. QED
  BY <1>3, <1>4 DEF Lookup

(* The next board gets a row and a task, and the request goes on or returns. *)
LEMMA CreateType ==
  ASSUME TypeInv, NEW c \in Clients, Create(c)
  PROVE  TypeInv' /\ RowsStay
<1>1. /\ pc \in [Clients -> ClientPc] /\ req \in [Clients -> Request]
      /\ pc[c] = "create" /\ req[c].push \in Pushes /\ req[c].next \in Boards
  BY DEF Create, TypeInv, TypeOK, ReqInv, ClientPc, Request
<1>2. PICK d \in Deliveries :
        /\ status[d] = "absent"
        /\ CreateRow(d, <<req[c].push, req[c].next>>)
        /\ task' = [task EXCEPT ![<<d, 0>>] = NewTask]
  BY DEF Create
<1>3. <<req[c].push, req[c].next>> \in Key
  BY <1>1 DEF Key
<1>4. /\ RowTypes' /\ KeyInv' /\ status'[d] = "pending"
      /\ \A e \in Deliveries : e # d => status'[e] = status[e] /\ key'[e] = key[e]
  BY <1>2, <1>3, CreateRowType
<1>5. RowsStay
  BY <1>4 DEF RowsStay
<1>6. TaskTypes' /\ TaskInv'
  <2>1. <<d, 0>> \in TaskIds /\ NewTask.pc = "mark"
    BY Constants DEF TaskIds, NewTask
  <2>2. QED
    BY <1>2, <1>4, <1>5, <2>1, Constants, TaskSet
<1>7. ClientTypes' /\ ReqInv'
  <2>1. CASE Return(c)
    BY <1>5, <2>1, ReturnType
  <2>2. CASE /\ req[c].next < BoardCount
             /\ req' = [req EXCEPT ![c].next = @ + 1]
             /\ UNCHANGED pc
    <3>1. req[c].next + 1 \in Boards
      BY <1>1, <2>2, RouterAssumption DEF Boards
    <3>2. ClientTypes'
      BY <1>1, <2>2, <3>1 DEF ClientTypes, Request
    <3>3. /\ req'[c].push = req[c].push
          /\ \A b \in Clients : b # c => req'[b] = req[b]
      BY <1>1, <2>2 DEF Request
    <3>4. ReqInv'
      BY <1>1, <1>5, <2>2, <3>3 DEF TypeInv, ReqInv, RowsStay
    <3>5. QED
      BY <3>2, <3>4
  <2>3. QED
    BY <2>1, <2>2 DEF Create
<1>8. OtherTypes'
  BY DEF Create, TypeInv, TypeOK, OtherTypes, countVars
<1>9. QED
  BY <1>4, <1>5, <1>6, <1>7, <1>8, PartsNext

LEMMA PushFaultType ==
  ASSUME TypeInv, NEW c \in Clients, PushFault(c)
  PROVE  TypeInv' /\ RowsStay
<1>1. RowTypes' /\ KeyInv' /\ RowsStay
  <2>1. CASE UNCHANGED rowVars
    BY <2>1, RowsKept
  <2>2. CASE pc[c] = "create" /\ \E d \in Deliveries :
               status[d] = "absent" /\ CreateRow(d, <<req[c].push, req[c].next>>)
    <3>1. <<req[c].push, req[c].next>> \in Key
      BY <2>2 DEF TypeInv, TypeOK, ReqInv, Key
    <3>2. QED
      BY <2>2, <3>1, CreateRowType DEF RowsStay
  <2>3. QED
    BY <2>1, <2>2 DEF PushFault
<1>2. Return(c) /\ UNCHANGED task
  BY DEF PushFault
<1>3. OtherTypes'
  BY DEF PushFault, Raise, TypeInv, TypeOK, OtherTypes
<1>4. QED
  BY <1>1, <1>2, <1>3, ReturnType, TaskKept, PartsNext

LEMMA RetryReadType ==
  ASSUME TypeInv, NEW c \in Operators, NEW d \in Deliveries, RetryRead(c, d)
  PROVE  TypeInv'
<1>1. /\ c \in Clients /\ pc[c] = "idle" /\ status[d] = "dead_letter"
      /\ UNCHANGED <<rowVars, displayed, task, shadow, up, faults, losses>>
  BY DEF RetryRead, Clients
<1>2. RowTypes' /\ KeyInv' /\ RowsStay /\ TaskTypes' /\ TaskInv'
  BY <1>1, RowsKept, TaskKept
<1>3. retries' \in 0..MaxRetries /\ OtherTypes'
  BY <1>1, RouterAssumption DEF RetryRead, TypeInv, TypeOK, OtherTypes
<1>4. pc \in [Clients -> ClientPc] /\ req \in [Clients -> Request]
  BY DEF TypeInv, TypeOK, ClientPc, Request
<1>5. /\ pc' = [pc EXCEPT ![c] = "reset"]
      /\ req' = [req EXCEPT ![c].delivery = d, ![c].retry = retries']
  BY DEF RetryRead
<1>6. ClientTypes'
  BY <1>1, <1>3, <1>4, <1>5 DEF ClientTypes, ClientPc, Request
<1>7. /\ pc'[c] = "reset" /\ req'[c].delivery = d /\ req'[c].next = req[c].next
      /\ \A b \in Clients : b # c => pc'[b] = pc[b] /\ req'[b] = req[b]
  BY <1>1, <1>4, <1>5 DEF Request
<1>8. ReqInv'
  BY <1>1, <1>2, <1>7 DEF TypeInv, ReqInv, RowsStay
<1>9. QED
  BY <1>2, <1>3, <1>6, <1>8, PartsNext

LEMMA RetryResetType ==
  ASSUME TypeInv, NEW c \in Clients, RetryReset(c)
  PROVE  TypeInv' /\ \A e \in Deliveries : status'[e] = "absent" <=> status[e] = "absent"
<1> DEFINE d == req[c].delivery
<1>1. d \in Deliveries /\ status[d] # "absent" /\ req[c].retry \in 0..MaxRetries
  BY DEF RetryReset, TypeInv, TypeOK, ReqInv
<1>2. /\ RowTypes' /\ KeyInv' /\ status'[d] = "pending"
      /\ \A e \in Deliveries : status'[e] = "absent" <=> status[e] = "absent"
  <2>1. "pending" \in Settled \cup Unsettled
    BY DEF Unsettled
  <2>2. UpdateRow(d, "pending", 0, FALSE)
    BY DEF RetryReset
  <2>3. QED
    BY <1>1, <2>1, <2>2, Constants, UpdateRowType
<1>3. RowsStay
  BY <1>2 DEF RowsStay
<1>4. TaskTypes' /\ TaskInv'
  <2>1. <<d, req[c].retry>> \in TaskIds /\ NewTask.pc = "mark"
    BY <1>1 DEF TaskIds, NewTask
  <2>2. task' = [task EXCEPT ![<<d, req[c].retry>>] = NewTask]
    BY DEF RetryReset
  <2>3. QED
    BY <1>1, <1>2, <1>3, <2>1, <2>2, Constants, TaskSet
<1>5. OtherTypes' /\ Return(c)
  BY DEF RetryReset, TypeInv, TypeOK, OtherTypes, countVars
<1>6. QED
  BY <1>2, <1>3, <1>4, <1>5, ReturnType, PartsNext

LEMMA RetryFaultType ==
  ASSUME TypeInv, NEW c \in Clients, RetryFault(c)
  PROVE  TypeInv'
<1>1. Return(c) /\ UNCHANGED rowVars /\ UNCHANGED task
  BY DEF RetryFault
<1>2. OtherTypes'
  BY DEF RetryFault, Raise, TypeInv, TypeOK, OtherTypes
<1>3. QED
  BY <1>1, <1>2, RowsKept, ReturnType, TaskKept, PartsNext

(* What the steps of one task do: they write its row, if anything, and leave  *)
(* the requests and the other tasks alone.                                    *)
TaskAct(t) == TaskStep(t) \/ CatchException(t) \/ TaskDies(t)

LEMMA TaskActOthers ==
  ASSUME TypeInv, NEW t \in TaskIds, TaskAct(t)
  PROVE  /\ UNCHANGED clientVars /\ OtherTypes'
         /\ task[t].pc \in TaskPc
<1>1. UNCHANGED clientVars /\ task[t].pc \in TaskPc
  BY DEF TaskAct, TaskStep, MarkProcessing, BoardAnswers, MarkDelivered, MarkRetrying,
         MarkDeadLetter, NextAttempt, CatchException, TaskDies, TaskPc
<1>2. OtherTypes'
  <2>1. CASE BoardAnswers(t)
    <3>1. \/ displayed' = [displayed EXCEPT ![t[1]] = @ + 1]
          \/ UNCHANGED displayed
      BY <2>1 DEF BoardAnswers
    <3>2. UNCHANGED <<shadow, up, countVars>>
      BY <2>1 DEF BoardAnswers
    <3>3. displayed' \in [Deliveries -> Nat]
      BY <3>1, TaskIdParts DEF TypeInv, TypeOK
    <3>4. QED
      BY <3>2, <3>3 DEF OtherTypes, TypeInv, TypeOK, countVars
  <2>2. CASE CatchException(t) \/ TaskDies(t)
    BY <2>2 DEF CatchException, TaskDies, Raise, TypeInv, TypeOK, OtherTypes
  <2>3. CASE UNCHANGED <<displayed, shadow, up, countVars>>
    BY <2>3 DEF TypeInv, TypeOK, OtherTypes, countVars
  <2>4. QED
    BY <2>1, <2>2, <2>3
    DEF TaskAct, TaskStep, MarkProcessing, MarkDelivered, MarkRetrying, MarkDeadLetter, NextAttempt
<1>3. QED
  BY <1>1, <1>2

(* The row a task acts on exists, so its step creates none. *)
LEMMA TaskActRows ==
  ASSUME TypeInv, NEW t \in TaskIds, TaskAct(t)
  PROVE  /\ RowTypes' /\ KeyInv' /\ key' = key
         /\ \A e \in Deliveries : e # t[1] => status'[e] = status[e]
         /\ \A e \in Deliveries : status'[e] = "absent" <=> status[e] = "absent"
<1>1. /\ t[1] \in Deliveries /\ status[t[1]] # "absent"
      /\ task[t].attempt \in 0..MaxAttempts
  BY TaskActOthers, TaskType
<1>2. CASE UNCHANGED rowVars
  BY <1>2, RowsKept DEF rowVars
<1>3. CASE \E s \in Settled \cup Unsettled, dead \in BOOLEAN :
             UpdateRow(t[1], s, task[t].attempt, dead)
  BY <1>1, <1>3, UpdateRowType
<1>4. \/ UNCHANGED rowVars
      \/ \E s \in Settled \cup Unsettled, dead \in BOOLEAN :
           UpdateRow(t[1], s, task[t].attempt, dead)
  BY DEF TaskAct, TaskStep, MarkProcessing, BoardAnswers, MarkDelivered, MarkRetrying,
         MarkDeadLetter, NextAttempt, CatchException, TaskDies, Settled, Unsettled
<1>5. QED
  BY <1>2, <1>3, <1>4

LEMMA TaskActTask ==
  ASSUME TypeInv, NEW t \in TaskIds, TaskAct(t)
  PROVE  /\ \E r \in TaskRecord \cup {NoTask} :
              /\ task' = [task EXCEPT ![t] = r]
              /\ r.pc = "backoff" => r.attempt < MaxAttempts
         /\ task'[t] = NoTask \/ Running(t)'
<1>1. /\ task[t].attempt \in 1..MaxAttempts /\ task[t].pc \in TaskPc
      /\ task[t] \in TaskRecord
      /\ task[t].pc = "backoff" => task[t].attempt < MaxAttempts
  BY TaskActOthers, TaskType DEF TypeInv, TaskInv
<1>2. PICK r \in TaskRecord \cup {NoTask} :
        /\ task' = [task EXCEPT ![t] = r]
        /\ r.pc = "backoff" => r.attempt < MaxAttempts
  <2>1. CASE task' = [task EXCEPT ![t] = NoTask]
    <3>1. NoTask.pc # "backoff"
      BY DEF NoTask
    <3>2. QED
      BY <2>1, <3>1
  <2>2. CASE \E l \in TaskPc \ {"backoff"} : GoTo(t, l)
    BY <1>1, <2>2, GoToSetsTask
  <2>3. CASE ~IsFinal(t) /\ GoTo(t, "backoff")
    <3>1. "backoff" \in TaskPc
      BY DEF TaskPc
    <3>2. PICK r \in TaskRecord : /\ task' = [task EXCEPT ![t] = r]
                                  /\ r.pc = "backoff" /\ r.attempt = task[t].attempt
      BY <1>1, <2>3, <3>1, GoToSetsTask
    <3>3. r.attempt < MaxAttempts
      BY <1>1, <2>3, <3>2, RouterAssumption DEF IsFinal
    <3>4. QED
      BY <3>2, <3>3
  <2>4. CASE NextAttempt(t)
    <3> DEFINE r == [pc |-> "mark", attempt |-> task[t].attempt + 1]
    <3>1. task[t].attempt + 1 \in 1..MaxAttempts
      BY <1>1, <2>4, RouterAssumption DEF NextAttempt
    <3>2. r \in TaskRecord /\ r.pc # "backoff"
      BY <3>1 DEF TaskRecord, TaskPc
    <3>3. QED
      BY <2>4, <3>2 DEF NextAttempt
  <2>5. QED
    BY <2>1, <2>2, <2>3, <2>4
    DEF TaskAct, TaskStep, MarkProcessing, BoardAnswers, MarkDelivered, MarkRetrying,
        MarkDeadLetter, CatchException, TaskDies, End, TaskPc
<1>3. task'[t] = r
  BY <1>2, SetTask
<1>4. r = NoTask \/ r.pc # "none"
  BY DEF TaskRecord, TaskPc
<1>5. QED
  BY <1>2, <1>3, <1>4 DEF Running

LEMMA TaskActType ==
  ASSUME TypeInv, NEW t \in TaskIds, TaskAct(t)
  PROVE  TypeInv'
<1>1. RowTypes' /\ KeyInv' /\ RowsStay
  BY TaskActRows DEF RowsStay
<1>2. ClientTypes' /\ ReqInv' /\ OtherTypes'
  BY <1>1, TaskActOthers, ReqKept
<1>3. TaskTypes' /\ TaskInv'
  <2>1. status'[t[1]] # "absent"
    BY <1>1, TaskActOthers, TaskType DEF RowsStay
  <2>2. QED
    BY <1>1, <2>1, TaskActTask, TaskSet
<1>4. QED
  BY <1>1, <1>2, <1>3, PartsNext

LEMMA LoseType ==
  ASSUME TypeInv, Lose
  PROVE  TypeInv'
<1>1. /\ UNCHANGED rowVars
      /\ task' = [t \in TaskIds |-> NoTask]
      /\ pc' = [c \in Clients |-> "idle"] /\ req' = [c \in Clients |-> NoRequest]
  BY DEF Lose
<1>2. RowTypes' /\ KeyInv'
  BY <1>1, RowsKept
<1>3. TaskTypes' /\ TaskInv'
  BY <1>1 DEF TaskTypes, TaskInv, Running, NoTask
<1>4. ClientTypes' /\ ReqInv'
  BY <1>1, Constants DEF ClientTypes, ClientPc, ReqInv, NoRequest
<1>5. OtherTypes'
  <2>1. UNCHANGED <<displayed, shadow, retries, faults>> /\ up' = FALSE
        /\ losses' = losses + 1 /\ losses \in Nat
    BY DEF Lose, TypeInv, TypeOK
  <2>2. OtherTypes
    BY DEF TypeInv, TypeOK, OtherTypes
  <2>3. losses' \in Nat
    BY <2>1
  <2>4. up' \in BOOLEAN
    BY <2>1
  <2>5. QED
    BY <2>1, <2>2, <2>3, <2>4 DEF OtherTypes
<1>6. QED
  BY <1>2, <1>3, <1>4, <1>5, PartsNext

(* The steps that touch neither a row, a task nor a request. *)
LEMMA OtherType ==
  ASSUME TypeInv, UNCHANGED <<rowVars, task, clientVars>>, OtherTypes'
  PROVE  TypeInv'
BY RowsKept, TaskKept, ReqKept, PartsNext

LEMMA TypeInvInit ==
  ASSUME Init
  PROVE  TypeInv
<1>1. TypeOK
  BY RouterAssumption, Constants
  DEF Init, TypeOK, Status, NoKey, Request, TaskRecord
<1>2. ReqInv /\ TaskInv /\ KeyInv
  BY DEF Init, ReqInv, TaskInv, KeyInv, NoRequest, Running, NoTask
<1>3. QED
  BY <1>1, <1>2 DEF TypeInv

LEMMA TypeInvStep ==
  ASSUME TypeInv, [Next]_vars
  PROVE  TypeInv'
<1>1. CASE SetShadow \/ Start \/ UNCHANGED vars
  <2>1. UNCHANGED <<rowVars, task, clientVars>>
    BY <1>1 DEF SetShadow, Start, vars
  <2>2. OtherTypes'
    BY <1>1 DEF SetShadow, Start, vars, countVars, TypeInv, TypeOK, OtherTypes
  <2>3. QED
    BY <2>1, <2>2, OtherType
<1>2. QED
  BY <1>1, SubmitType, LookupType, CreateType, PushFaultType, RetryReadType, RetryResetType,
     RetryFaultType, TaskActType, LoseType
  DEF Next, RequestStep, TaskAct

(* Every variable keeps its type: in particular a delivery is attempted at    *)
(* most MaxAttempts times by each of its tasks, and a request never asks for  *)
(* a board beyond the last.                                                   *)
THEOREM TypeInvariant == Spec => []TypeOK
<1>1. Init => TypeInv
  BY TypeInvInit
<1>2. TypeInv /\ [Next]_vars => TypeInv'
  BY TypeInvStep
<1>3. TypeInv => TypeOK
  BY DEF TypeInv
<1>4. QED
  BY <1>1, <1>2, <1>3, PTL DEF Spec

------------------------------------------------------------------------------
(* No delivery is lost. *)

Carried(d) == \E t \in TaskIds : t[1] = d /\ Running(t)

(* The database calls that have failed, and the stops, are never forgotten.   *)
LEMMA NothingFailedBefore ==
  ASSUME TypeInv, [Next]_vars, faults' + losses' = 0
  PROVE  faults = 0 /\ losses = 0 /\ faults' = faults /\ losses' = losses
<1>1. faults \in Nat /\ losses \in Nat
  BY DEF TypeInv, TypeOK
<1>2. faults' \in {faults, faults + 1} /\ losses' \in {losses, losses + 1}
  BY DEF Next, vars, countVars, Submit, RetryRead, RequestStep, Lookup, Create, RetryReset,
         PushFault, RetryFault, TaskStep, MarkProcessing, BoardAnswers, MarkDelivered,
         MarkRetrying, MarkDeadLetter, NextAttempt, CatchException, TaskDies, Raise,
         SetShadow, Lose, Start
<1>3. faults' \in Nat /\ faults' >= faults /\ losses' \in Nat /\ losses' >= losses
  BY <1>1, <1>2
<1>4. \A a, b \in Nat : a + b = 0 => a = 0 /\ b = 0
  OBVIOUS
<1>5. faults' = 0 /\ losses' = 0
  BY <1>3, <1>4
<1>6. QED
  BY <1>1, <1>3, <1>5

(* A new task carries its delivery and takes the place of none. *)
LEMMA NewTaskCarries ==
  ASSUME TypeInv, NEW t \in TaskIds, task' = [task EXCEPT ![t] = NewTask]
  PROVE  Carried(t[1])' /\ \A d \in Deliveries : Carried(d) => Carried(d)'
<1>1. task'[t] = NewTask /\ \A u \in TaskIds : u # t => task'[u] = task[u]
  BY Constants, SetTask
<1>2. NewTask.pc # "none"
  BY DEF NewTask
<1>3. QED
  BY <1>1, <1>2 DEF Carried, Running

(* A task that ends without a failure has settled its row. *)
LEMMA TaskStepCarries ==
  ASSUME TypeInv, NEW t \in TaskIds, TaskStep(t)
  PROVE  Running(t)' \/ status'[t[1]] \in Settled
<1>1. TaskAct(t)
  BY DEF TaskAct
<1>2. status \in [Deliveries -> Status] /\ t[1] \in Deliveries
  BY TaskIdParts DEF TypeInv, TypeOK
<1>3. CASE MarkDelivered(t) \/ MarkDeadLetter(t)
  BY <1>2, <1>3 DEF MarkDelivered, MarkDeadLetter, UpdateRow, Settled
<1>4. CASE \E l \in TaskPc : GoTo(t, l)
  <2>1. PICK r \in TaskRecord : task' = [task EXCEPT ![t] = r]
    BY <1>1, <1>4, TaskActOthers, GoToSetsTask
  <2>2. task'[t] = r /\ r.pc # "none"
    BY <2>1, SetTask DEF TaskRecord, TaskPc
  <2>3. QED
    BY <2>2 DEF Running
<1>5. CASE NextAttempt(t)
  <2>1. task'[t].pc = "mark"
    BY <1>5 DEF NextAttempt, TypeInv, TypeOK
  <2>2. QED
    BY <2>1 DEF Running
<1>6. QED
  BY <1>3, <1>4, <1>5 DEF TaskStep, MarkProcessing, BoardAnswers, MarkRetrying, TaskPc

LEMMA NoDeliveryLostStep ==
  ASSUME TypeInv, NoDeliveryLost, [Next]_vars
  PROVE  NoDeliveryLost'
<1> SUFFICES ASSUME faults' + losses' = 0, NEW d \in Deliveries, status'[d] \in Unsettled
             PROVE  Carried(d)'
  BY DEF NoDeliveryLost, Carried
<1>1. faults = 0 /\ losses = 0 /\ faults' = faults /\ losses' = losses
  BY NothingFailedBefore
<1>2. status[d] \in Unsettled => Carried(d)
  BY <1>1 DEF NoDeliveryLost, Carried
<1>3. CASE UNCHANGED rowVars /\ UNCHANGED task
  BY <1>2, <1>3 DEF rowVars, Carried, Running
<1>4. ASSUME NEW c \in Clients, Create(c) PROVE Carried(d)'
  <2>1. PICK e \in Deliveries :
          /\ status[e] = "absent"
          /\ CreateRow(e, <<req[c].push, req[c].next>>)
          /\ task' = [task EXCEPT ![<<e, 0>>] = NewTask]
    BY <1>4 DEF Create
  <2>2. <<e, 0>> \in TaskIds /\ <<e, 0>>[1] = e
    BY Constants DEF TaskIds
  <2>3. Carried(e)' /\ (Carried(d) => Carried(d)')
    BY <2>1, <2>2, NewTaskCarries
  <2>4. d # e => status'[d] = status[d]
    BY <2>1 DEF CreateRow, TypeInv, TypeOK
  <2>5. QED
    BY <1>2, <2>3, <2>4
<1>5. ASSUME NEW c \in Clients, RetryReset(c) PROVE Carried(d)'
  <2>1. PICK e \in Deliveries, t \in TaskIds :
          e = req[c].delivery /\ t = <<e, req[c].retry>> /\ t[1] = e
    BY <1>5 DEF RetryReset, TypeInv, TypeOK, ReqInv, TaskIds
  <2>2. task' = [task EXCEPT ![t] = NewTask]
    BY <1>5, <2>1 DEF RetryReset
  <2>3. d # e => status'[d] = status[d]
    BY <1>5, <2>1 DEF RetryReset, UpdateRow, TypeInv, TypeOK
  <2>4. Carried(e)' /\ (Carried(d) => Carried(d)')
    BY <2>1, <2>2, NewTaskCarries
  <2>5. QED
    BY <1>2, <2>3, <2>4
<1>6. ASSUME NEW t \in TaskIds, TaskStep(t) PROVE Carried(d)'
  <2>1. TaskAct(t)
    BY <1>6 DEF TaskAct
  <2>2. CASE d = t[1]
    <3>1. Running(t)'
      BY <1>6, <2>2, TaskStepCarries DEF Settled, Unsettled
    <3>2. QED
      BY <2>2, <3>1 DEF Carried
  <2>3. CASE d # t[1]
    <3>1. status'[d] = status[d]
      BY <2>1, <2>3, TaskActRows
    <3>2. PICK u \in TaskIds : u[1] = d /\ Running(u)
      BY <1>2, <3>1 DEF Carried
    <3>3. task'[u] = task[u]
      BY <2>1, <2>3, <3>2, TaskActTask, SetTask
    <3>4. QED
      BY <3>2, <3>3 DEF Carried, Running
  <2>4. QED
    BY <2>2, <2>3
<1>7. CASE Lose \/ \E c \in Clients : PushFault(c) \/ RetryFault(c)
  BY <1>1, <1>7 DEF Lose, PushFault, RetryFault, Raise
<1>8. CASE \E t \in TaskIds : CatchException(t) \/ TaskDies(t)
  BY <1>1, <1>8 DEF CatchException, TaskDies, Raise
<1>9. QED
  BY <1>3, <1>4, <1>5, <1>6, <1>7, <1>8
  DEF Next, vars, RequestStep, Submit, RetryRead, Lookup, SetShadow, Start

(* Without a failing database or a stopped process, a delivery still to be    *)
(* settled has a task of its own, for any number of pushes, retries and       *)
(* boards.                                                                    *)
THEOREM NoDeliveryIsLost == Spec => []NoDeliveryLost
<1>1. Init => TypeInv /\ NoDeliveryLost
  BY TypeInvInit DEF Init, NoDeliveryLost, Unsettled
<1>2. TypeInv /\ NoDeliveryLost /\ [Next]_vars => (TypeInv /\ NoDeliveryLost)'
  BY TypeInvStep, NoDeliveryLostStep
<1>3. QED
  BY <1>1, <1>2, PTL DEF Spec

------------------------------------------------------------------------------
(* What is delivered has been displayed. *)

(* The board has accepted what a task is about to mark as delivered. *)
DisplayedInv ==
  \A t \in TaskIds : task[t].pc = "ok" => displayed[t[1]] > 0

LEMMA DisplayedGrows ==
  ASSUME TypeInv, [Next]_vars
  PROVE  \A d \in Deliveries : displayed[d] > 0 => displayed'[d] > 0
<1>1. ASSUME NEW t \in TaskIds, BoardAnswers(t)
      PROVE  \A d \in Deliveries : displayed[d] > 0 => displayed'[d] > 0
  <2>1. displayed \in [Deliveries -> Nat] /\ t[1] \in Deliveries
    BY TaskIdParts DEF TypeInv, TypeOK
  <2>2. QED
    BY <1>1, <2>1 DEF BoardAnswers
<1>2. (\E t \in TaskIds : BoardAnswers(t)) \/ UNCHANGED displayed
  BY DEF Next, vars, Submit, RetryRead, RequestStep, Lookup, Create, RetryReset,
         PushFault, RetryFault, TaskStep, MarkProcessing, MarkDelivered,
         MarkRetrying, MarkDeadLetter, NextAttempt, CatchException, TaskDies,
         SetShadow, Lose, Start
<1>3. QED
  BY <1>1, <1>2

(* Only a task sets its own place, and only to "ok" when the board accepts.   *)
LEMMA DisplayedInvStep ==
  ASSUME TypeInv, DisplayedInv, [Next]_vars
  PROVE  DisplayedInv'
<1>1. CASE UNCHANGED task
  BY <1>1, DisplayedGrows, TaskIdParts DEF DisplayedInv
<1>2. CASE Lose
  BY <1>2 DEF Lose, DisplayedInv, NoTask
<1>3. ASSUME NEW t \in TaskIds, task' = [task EXCEPT ![t] = NewTask]
      PROVE  DisplayedInv'
  <2>1. NewTask.pc # "ok"
    BY DEF NewTask
  <2>2. QED
    BY <1>3, <2>1, Constants, SetTask, DisplayedGrows, TaskIdParts DEF DisplayedInv
<1>4. ASSUME NEW t \in TaskIds, TaskAct(t) PROVE DisplayedInv'
  <2>1. \A u \in TaskIds : u # t => task'[u] = task[u]
    BY <1>4, TaskActTask, SetTask
  <2>2. task'[t].pc = "ok" => displayed'[t[1]] > 0
    <3>1. displayed \in [Deliveries -> Nat] /\ t[1] \in Deliveries
      BY TaskIdParts DEF TypeInv, TypeOK
    <3>2. CASE BoardAnswers(t) /\ displayed' = [displayed EXCEPT ![t[1]] = @ + 1]
      BY <3>1, <3>2
    <3>3. CASE \E l \in TaskPc \ {"ok"} : GoTo(t, l)
      <4>1. PICK l \in TaskPc \ {"ok"} : GoTo(t, l)
        BY <3>3
      <4>2. \E r \in TaskRecord : task' = [task EXCEPT ![t] = r] /\ r.pc = l
        BY <1>4, <4>1, TaskActOthers, GoToSetsTask
      <4>3. QED
        BY <4>1, <4>2, SetTask
    <3>4. CASE task' = [task EXCEPT ![t] = NoTask]
      <4>1. task'[t] = NoTask
        BY <3>4, SetTask
      <4>2. QED
        BY <4>1 DEF NoTask
    <3>5. CASE NextAttempt(t)
      <4>1. task'[t].pc = "mark"
        BY <3>5 DEF NextAttempt, TypeInv, TypeOK
      <4>2. QED
        BY <4>1
    <3>6. QED
      BY <1>4, <3>2, <3>3, <3>4, <3>5
      DEF TaskAct, TaskStep, MarkProcessing, BoardAnswers, MarkDelivered, MarkRetrying,
          MarkDeadLetter, CatchException, TaskDies, End, TaskPc
  <2>3. QED
    BY <2>1, <2>2, DisplayedGrows, TaskIdParts DEF DisplayedInv
<1>5. ASSUME NEW c \in Clients, Create(c) \/ RetryReset(c) PROVE DisplayedInv'
  <2>1. \E t \in TaskIds : task' = [task EXCEPT ![t] = NewTask]
    BY <1>5, Constants DEF Create, RetryReset, TaskIds, TypeInv, TypeOK, ReqInv
  <2>2. QED
    BY <1>3, <2>1
<1>6. QED
  BY <1>1, <1>2, <1>4, <1>5
  DEF Next, vars, RequestStep, TaskAct, Submit, RetryRead, Lookup, PushFault, RetryFault,
      SetShadow, Start

LEMMA DeliveredStep ==
  ASSUME TypeInv, DisplayedInv, DeliveredWasDisplayed, [Next]_vars
  PROVE  DeliveredWasDisplayed'
<1> SUFFICES ASSUME NEW d \in Deliveries, status'[d] = "delivered", status[d] # "delivered"
             PROVE  displayed[d] > 0
  BY DisplayedGrows DEF DeliveredWasDisplayed
<1>1. status \in [Deliveries -> Status]
  BY DEF TypeInv, TypeOK
<1>2. PICK t \in TaskIds : MarkDelivered(t) /\ d = t[1]
  <2>1. ASSUME NEW e, NEW s \in {"pending", "processing", "retrying", "dead_letter"},
               status' = [status EXCEPT ![e] = s]
        PROVE  FALSE
    BY <1>1, <2>1
  <2>2. ASSUME NEW t \in TaskIds, MarkDelivered(t), d # t[1] PROVE FALSE
    BY <1>1, <2>2 DEF MarkDelivered, UpdateRow
  <2>3. CASE UNCHANGED status
    BY <2>3
  <2>4. QED
    BY <2>1, <2>2, <2>3
    DEF Next, vars, rowVars, Submit, RetryRead, RequestStep, Lookup, Create, CreateRow,
        RetryReset, UpdateRow, PushFault, RetryFault, TaskStep, MarkProcessing, BoardAnswers,
        MarkRetrying, MarkDeadLetter, NextAttempt, CatchException, TaskDies, SetShadow,
        Lose, Start
<1>3. QED
  BY <1>2 DEF MarkDelivered, DisplayedInv

(* A delivery that says delivered has been accepted by its board, whatever    *)
(* tasks, retries, failures and stops interleave.                             *)
THEOREM DeliveredDisplayed == Spec => []DeliveredWasDisplayed
<1>1. Init => TypeInv /\ DisplayedInv /\ DeliveredWasDisplayed
  BY TypeInvInit DEF Init, DisplayedInv, DeliveredWasDisplayed, NoTask
<1>2. TypeInv /\ DisplayedInv /\ DeliveredWasDisplayed /\ [Next]_vars
        => (TypeInv /\ DisplayedInv /\ DeliveredWasDisplayed)'
  BY TypeInvStep, DisplayedInvStep, DeliveredStep
<1>3. QED
  BY <1>1, <1>2, PTL DEF Spec

------------------------------------------------------------------------------
(* A push reaches all its boards. *)

Written(p, b) == \E d \in Deliveries : status[d] # "absent" /\ key[d] = <<p, b>>

(* A request has written the rows of all boards before the next one. *)
WrittenInv ==
  \A c \in Clients : pc[c] = "create" =>
    \A b \in Boards : b < req[c].next => Written(req[c].push, b)

(* A request has still to come to this board. *)
Coming(p, b) == \E c \in Clients : pc[c] = "create" /\ req[c].push = p /\ req[c].next <= b

(* Of a push with rows, each board has its row or is still to get it. *)
FanoutInv ==
  faults + losses = 0 =>
    \A p \in Pushes : RowsOf(p) # {} => \A b \in Boards : Written(p, b) \/ Coming(p, b)

(* Only Create and a failing push make rows, and none changes its key.        *)
SameRows == key' = key /\ \A d \in Deliveries : status'[d] = "absent" <=> status[d] = "absent"

LEMMA WhoMakesRows ==
  ASSUME TypeInv, [Next]_vars
  PROVE  SameRows \/ \E c \in Clients : Create(c) \/ PushFault(c)
<1>1. CASE UNCHANGED rowVars
  BY <1>1 DEF rowVars, SameRows
<1>2. CASE \E c \in Clients : RetryReset(c)
  <2>1. key' = key
    BY <1>2 DEF RetryReset, UpdateRow
  <2>2. QED
    BY <1>2, <2>1, RetryResetType DEF SameRows
<1>3. CASE \E t \in TaskIds : TaskAct(t)
  BY <1>3, TaskActRows DEF SameRows
<1>4. QED
  BY <1>1, <1>2, <1>3
  DEF Next, vars, RequestStep, TaskAct, Submit, RetryRead, Lookup, RetryFault,
      SetShadow, Lose, Start

LEMMA WrittenStays ==
  ASSUME TypeInv, [Next]_vars, NEW p \in Pushes, NEW b \in Boards, Written(p, b)
  PROVE  Written(p, b)'
<1>1. CASE SameRows
  BY <1>1 DEF SameRows, Written
<1>2. CASE \E d \in Deliveries : \E k : status[d] = "absent" /\ CreateRow(d, k)
  BY <1>2 DEF CreateRow, Written, TypeInv, TypeOK
<1>3. CASE UNCHANGED rowVars
  BY <1>3 DEF rowVars, Written
<1>4. QED
  BY <1>1, <1>2, <1>3, WhoMakesRows DEF Create, PushFault

(* No other step makes a request create rows, and only a failure or the last  *)
(* row makes it stop.                                                         *)
LEMMA CreatorsStay ==
  ASSUME TypeInv, [Next]_vars, NEW c \in Clients, ~Create(c), ~Lookup(c)
  PROVE  /\ pc'[c] = "create" => pc[c] = "create" /\ req'[c] = req[c]
         /\ pc[c] = "create" => \/ pc'[c] = "create" /\ req'[c] = req[c]
                                \/ faults' # faults \/ losses' # losses
<1>1. pc \in [Clients -> ClientPc] /\ req \in [Clients -> Request]
  BY DEF TypeInv, TypeOK, ClientPc, Request
<1>2. CASE UNCHANGED clientVars
  BY <1>2 DEF clientVars
<1>3. ASSUME NEW b \in Clients, b # c,
             \/ Lookup(b) \/ Create(b) \/ RetryReset(b) \/ PushFault(b) \/ RetryFault(b)
             \/ \E p \in Pushes : Submit(b, p)
             \/ \E d \in Deliveries : RetryRead(b, d)
      PROVE  pc'[c] = pc[c] /\ req'[c] = req[c]
  BY <1>1, <1>3 DEF Lookup, Create, RetryReset, PushFault, RetryFault, Submit, RetryRead, Return
<1>4. CASE \/ RetryReset(c) \/ RetryFault(c)
           \/ \E p \in Pushes : Submit(c, p)
           \/ \E d \in Deliveries : RetryRead(c, d)
  BY <1>1, <1>4 DEF RetryReset, RetryFault, Submit, RetryRead, Return
<1>5. CASE PushFault(c)
  <2>1. pc'[c] = "idle" /\ faults' = faults + 1 /\ faults \in Nat
    BY <1>1, <1>5 DEF PushFault, Return, Raise, TypeInv, TypeOK
  <2>2. faults' # faults
    BY <2>1
  <2>3. QED
    BY <2>1, <2>2
<1>6. CASE Lose
  <2>1. pc'[c] = "idle" /\ losses' = losses + 1 /\ losses \in Nat
    BY <1>6 DEF Lose, TypeInv, TypeOK
  <2>2. losses' # losses
    BY <2>1
  <2>3. QED
    BY <2>1, <2>2
<1>7. QED
  BY <1>2, <1>3, <1>4, <1>5, <1>6, TaskActOthers
  DEF Next, vars, RequestStep, TaskAct, SetShadow, Start, Clients

(* What Create adds: the row of the next board, and nothing to other pushes.  *)
LEMMA CreateWrites ==
  ASSUME TypeInv, NEW c \in Clients, Create(c),
         NEW p \in Pushes, p = req[c].push, NEW n \in Boards, n = req[c].next
  PROVE  /\ Written(p, n)'
         /\ \A q \in Pushes : q # p /\ RowsOf(q)' # {} => RowsOf(q) # {}
         /\ \/ n < BoardCount /\ pc'[c] = "create"
               /\ req'[c].push = p /\ req'[c].next = n + 1
            \/ n = BoardCount /\ pc'[c] = "idle"
         /\ \A d \in Clients : d # c => pc'[d] = pc[d] /\ req'[d] = req[d]
<1>1. pc \in [Clients -> ClientPc] /\ req \in [Clients -> Request] /\ pc[c] = "create"
  BY DEF Create, TypeInv, TypeOK, ClientPc, Request
<1>2. PICK d \in Deliveries : status[d] = "absent" /\ CreateRow(d, <<p, n>>)
  BY DEF Create
<1>3. <<p, n>> \in Key
  BY DEF Key
<1>4. /\ status'[d] = "pending" /\ key'[d] = <<p, n>>
      /\ \A e \in Deliveries : e # d => status'[e] = status[e] /\ key'[e] = key[e]
  BY <1>2, <1>3, CreateRowType
<1>5. Written(p, n)'
  BY <1>4 DEF Written
<1>6. \A q \in Pushes : q # p /\ RowsOf(q)' # {} => RowsOf(q) # {}
  BY <1>4 DEF RowsOf
<1>7. CASE Return(c)
  BY <1>1, <1>5, <1>6, <1>7 DEF Create, Return
<1>8. CASE n < BoardCount /\ req' = [req EXCEPT ![c].next = @ + 1] /\ UNCHANGED pc
  BY <1>1, <1>5, <1>6, <1>8 DEF Request
<1>9. QED
  BY <1>7, <1>8 DEF Create

LEMMA WrittenInvStep ==
  ASSUME TypeInv, WrittenInv, [Next]_vars
  PROVE  WrittenInv'
<1> SUFFICES ASSUME NEW c \in Clients, pc'[c] = "create",
                    NEW p, p = req'[c].push, NEW b \in Boards, b < req'[c].next
             PROVE  Written(p, b)'
  BY DEF WrittenInv
<1>1. CASE Create(c)
  <2>1. PICK q \in Pushes, n \in Boards : q = req[c].push /\ n = req[c].next
    BY <1>1 DEF Create, TypeInv, TypeOK, ReqInv
  <2>2. pc[c] = "create"
    BY <1>1 DEF Create
  <2>3. q = p /\ n + 1 = req'[c].next /\ Written(p, n)'
    BY <1>1, <2>1, CreateWrites
  <2>4. b = n \/ b < n
    BY <2>1, <2>3, RouterAssumption DEF Boards
  <2>5. b < n => Written(p, b)
    BY <2>1, <2>2, <2>3 DEF WrittenInv
  <2>6. QED
    BY <2>1, <2>3, <2>4, <2>5, WrittenStays
<1>2. CASE Lookup(c)
  <2>1. req'[c] = req[c] /\ pc[c] = "lookup"
    BY <1>2 DEF Lookup, Return, TypeInv, TypeOK
  <2>2. req'[c].next = 1
    BY <2>1 DEF TypeInv, ReqInv
  <2>3. QED
    BY <2>2, RouterAssumption DEF Boards
<1>3. CASE ~Create(c) /\ ~Lookup(c)
  <2>1. pc[c] = "create" /\ req'[c] = req[c]
    BY <1>3, CreatorsStay
  <2>2. p \in Pushes /\ Written(p, b)
    BY <2>1 DEF WrittenInv, TypeInv, ReqInv
  <2>3. QED
    BY <2>2, WrittenStays
<1>4. QED
  BY <1>1, <1>2, <1>3

LEMMA FanoutInvStep ==
  ASSUME TypeInv, WrittenInv, FanoutInv, [Next]_vars
  PROVE  FanoutInv'
<1> SUFFICES ASSUME faults' + losses' = 0, NEW p \in Pushes, RowsOf(p)' # {}, NEW b \in Boards
             PROVE  Written(p, b)' \/ Coming(p, b)'
  BY DEF FanoutInv
<1>1. faults = 0 /\ losses = 0 /\ faults' = faults /\ losses' = losses
  BY NothingFailedBefore
<1>2. RowsOf(p) # {} => Written(p, b) \/ Coming(p, b)
  BY <1>1 DEF FanoutInv
<1>3. CASE \E c \in Clients : Create(c) /\ req[c].push = p
  <2>1. PICK c \in Clients, n \in Boards : Create(c) /\ req[c].push = p /\ n = req[c].next
    BY <1>3 DEF TypeInv, TypeOK
  <2>2. /\ Written(p, n)'
        /\ \/ n < BoardCount /\ pc'[c] = "create" /\ req'[c].push = p /\ req'[c].next = n + 1
           \/ n = BoardCount
    BY <2>1, CreateWrites
  <2>3. CASE b < n
    <3>1. Written(p, b)
      BY <2>1, <2>3 DEF WrittenInv, Create
    <3>2. QED
      BY <3>1, WrittenStays
  <2>4. CASE b = n
    BY <2>2, <2>4
  <2>5. CASE b > n
    <3>1. n + 1 <= b /\ n < BoardCount
      BY <2>5, RouterAssumption DEF Boards
    <3>2. pc'[c] = "create" /\ req'[c].push = p /\ req'[c].next = n + 1
      BY <2>2, <3>1, RouterAssumption DEF Boards
    <3>3. req'[c].next <= b
      BY <3>1, <3>2
    <3>4. QED
      BY <3>2, <3>3 DEF Coming
  <2>6. QED
    BY <2>3, <2>4, <2>5, RouterAssumption DEF Boards
<1>4. CASE \A c \in Clients : Create(c) => req[c].push # p
  <2>1. RowsOf(p) # {}
    <3>1. CASE SameRows
      BY <3>1 DEF SameRows, RowsOf
    <3>2. ASSUME NEW c \in Clients, Create(c) PROVE RowsOf(p) # {}
      <4>1. PICK q \in Pushes, n \in Boards : q = req[c].push /\ n = req[c].next /\ q # p
        BY <1>4, <3>2 DEF Create, TypeInv, TypeOK, ReqInv
      <4>2. QED
        BY <3>2, <4>1, CreateWrites
    <3>3. ASSUME NEW c \in Clients, PushFault(c) PROVE FALSE
      BY <1>1, <3>3 DEF PushFault, Raise
    <3>4. QED
      BY <3>1, <3>2, <3>3, WhoMakesRows
  <2>2. CASE Written(p, b)
    BY <2>2, WrittenStays
  <2>3. CASE Coming(p, b)
    <3>1. PICK c \in Clients : pc[c] = "create" /\ req[c].push = p /\ req[c].next <= b
      BY <2>3 DEF Coming
    <3>2. ~Create(c) /\ ~Lookup(c)
      BY <1>4, <3>1 DEF Lookup
    <3>3. pc'[c] = "create" /\ req'[c] = req[c]
      BY <1>1, <3>1, <3>2, CreatorsStay
    <3>4. QED
      BY <3>1, <3>3 DEF Coming
  <2>4. QED
    BY <1>2, <2>1, <2>2, <2>3
<1>5. QED
  BY <1>3, <1>4

(* As long as nothing fails, a push that has rows and is not being made has   *)
(* one for each board of its corridor, however many calls with its push id    *)
(* overlap.                                                                   *)
THEOREM FanoutIsWhole == Spec => []WholeFanout
<1>1. Init => TypeInv /\ WrittenInv /\ FanoutInv
  BY TypeInvInit DEF Init, WrittenInv, FanoutInv, RowsOf
<1>2. TypeInv /\ WrittenInv /\ FanoutInv /\ [Next]_vars => (TypeInv /\ WrittenInv /\ FanoutInv)'
  BY TypeInvStep, WrittenInvStep, FanoutInvStep
<1>3. FanoutInv => WholeFanout
  BY DEF FanoutInv, WholeFanout, Written, Coming, Pushing
<1>4. QED
  BY <1>1, <1>2, <1>3, PTL DEF Spec

------------------------------------------------------------------------------
(* What each step does to the rows, the tasks and the requests.               *)

OthersKept(c) == \A b \in Clients : b # c => pc'[b] = pc[b] /\ req'[b] = req[b]
Resets(c, d) == pc[c] = "reset" /\ req[c].delivery = d
Creates(c, p) == pc[c] = "create" /\ req[c].push = p

LEMMA ReturnFlow ==
  ASSUME TypeInv, NEW c \in Clients, Return(c)
  PROVE  pc'[c] = "idle" /\ OthersKept(c)
BY DEF Return, OthersKept, TypeInv, TypeOK

LEMMA SubmitFlow ==
  ASSUME TypeInv, NEW c \in Callers, NEW p \in Pushes, Submit(c, p)
  PROVE  /\ UNCHANGED <<rowVars, displayed, task, faults>>
         /\ c \in Clients /\ pc'[c] = "lookup" /\ OthersKept(c)
BY DEF Submit, OthersKept, TypeInv, TypeOK, Clients, countVars

LEMMA LookupFlow ==
  ASSUME TypeInv, NEW c \in Clients, Lookup(c)
  PROVE  /\ UNCHANGED <<rowVars, displayed, task, faults>> /\ OthersKept(c)
         /\ pc[c] = "lookup"
         /\ \/ pc'[c] = "idle"
            \/ RowsOf(req[c].push) = {} /\ pc'[c] = "create" /\ req'[c] = req[c]
BY DEF Lookup, Return, OthersKept, TypeInv, TypeOK, countVars

LEMMA RetryReadFlow ==
  ASSUME TypeInv, NEW c \in Operators, NEW d \in Deliveries, RetryRead(c, d)
  PROVE  /\ UNCHANGED <<rowVars, displayed, task, faults>>
         /\ c \in Clients /\ OthersKept(c)
         /\ status[d] = "dead_letter" /\ pc'[c] = "reset" /\ req'[c].delivery = d
<1>1. c \in Clients /\ pc \in [Clients -> ClientPc] /\ req \in [Clients -> Request]
  BY DEF Clients, TypeInv, TypeOK, ClientPc, Request
<1>2. /\ pc' = [pc EXCEPT ![c] = "reset"]
      /\ req' = [req EXCEPT ![c].delivery = d, ![c].retry = retries']
  BY DEF RetryRead
<1>3. pc'[c] = "reset" /\ req'[c].delivery = d /\ OthersKept(c)
  BY <1>1, <1>2 DEF OthersKept, Request
<1>4. QED
  BY <1>1, <1>3 DEF RetryRead

LEMMA CreateFlow ==
  ASSUME TypeInv, NEW c \in Clients, Create(c)
  PROVE  \E d \in Deliveries, p \in Pushes, n \in Boards :
           /\ Creates(c, p) /\ req[c].next = n /\ status[d] = "absent"
           /\ CreateRow(d, <<p, n>>)
           /\ task' = [task EXCEPT ![<<d, 0>>] = NewTask]
           /\ UNCHANGED <<displayed, faults>>
           /\ OthersKept(c)
           /\ pc'[c] = "idle" \/ (pc'[c] = "create" /\ req'[c].push = p /\ req'[c].next = n + 1)
<1>1. /\ pc \in [Clients -> ClientPc] /\ req \in [Clients -> Request]
      /\ pc[c] = "create" /\ req[c].push \in Pushes /\ req[c].next \in Boards
  BY DEF Create, TypeInv, TypeOK, ReqInv, ClientPc, Request
<1>2. PICK p \in Pushes, n \in Boards : p = req[c].push /\ n = req[c].next
  BY <1>1
<1>3. PICK d \in Deliveries :
        /\ status[d] = "absent" /\ CreateRow(d, <<p, n>>)
        /\ task' = [task EXCEPT ![<<d, 0>>] = NewTask]
  BY <1>2 DEF Create
<1>4. /\ OthersKept(c)
      /\ pc'[c] = "idle" \/ (pc'[c] = "create" /\ req'[c].push = p /\ req'[c].next = n + 1)
  <2>1. CASE Return(c)
    BY <2>1, ReturnFlow
  <2>2. CASE req' = [req EXCEPT ![c].next = @ + 1] /\ UNCHANGED pc
    BY <1>1, <1>2, <2>2 DEF OthersKept, Request
  <2>3. QED
    BY <2>1, <2>2 DEF Create
<1>5. UNCHANGED <<displayed, faults>>
  BY DEF Create, countVars
<1>6. QED
  BY <1>1, <1>2, <1>3, <1>4, <1>5 DEF Creates

LEMMA PushFaultFlow ==
  ASSUME TypeInv, NEW c \in Clients, PushFault(c)
  PROVE  /\ UNCHANGED <<displayed, task>> /\ faults' = faults + 1
         /\ pc'[c] = "idle" /\ OthersKept(c)
         /\ \/ UNCHANGED rowVars
            \/ \E d \in Deliveries, p \in Pushes, n \in Boards :
                 /\ Creates(c, p) /\ req[c].next = n /\ status[d] = "absent"
                 /\ CreateRow(d, <<p, n>>)
<1>1. /\ UNCHANGED <<displayed, task>> /\ faults' = faults + 1
      /\ pc'[c] = "idle" /\ OthersKept(c)
  BY ReturnFlow DEF PushFault, Raise
<1>2. CASE pc[c] = "create" /\ \E d \in Deliveries :
             status[d] = "absent" /\ CreateRow(d, <<req[c].push, req[c].next>>)
  <2>1. req[c].push \in Pushes /\ req[c].next \in Boards
    BY <1>2 DEF TypeInv, TypeOK, ReqInv
  <2>2. PICK p \in Pushes, n \in Boards : p = req[c].push /\ n = req[c].next
    BY <2>1
  <2>3. QED
    BY <1>1, <1>2, <2>2 DEF Creates
<1>3. QED
  BY <1>1, <1>2 DEF PushFault

LEMMA RetryResetFlow ==
  ASSUME TypeInv, NEW c \in Clients, RetryReset(c)
  PROVE  \E d \in Deliveries, t \in TaskIds :
           /\ Resets(c, d) /\ t[1] = d /\ status[d] # "absent"
           /\ key' = key /\ status' = [status EXCEPT ![d] = "pending"]
           /\ task' = [task EXCEPT ![t] = NewTask]
           /\ UNCHANGED <<displayed, faults>>
           /\ pc'[c] = "idle" /\ OthersKept(c)
<1>1. /\ pc[c] = "reset" /\ req[c].delivery \in Deliveries
      /\ status[req[c].delivery] # "absent" /\ req[c].retry \in 0..MaxRetries
  BY DEF RetryReset, TypeInv, TypeOK, ReqInv
<1>2. PICK d \in Deliveries, t \in TaskIds :
        d = req[c].delivery /\ t = <<d, req[c].retry>> /\ t[1] = d
  <2>1. PICK d \in Deliveries, n \in 0..MaxRetries : d = req[c].delivery /\ n = req[c].retry
    BY <1>1
  <2>2. <<d, n>> \in TaskIds /\ <<d, n>>[1] = d
    BY DEF TaskIds
  <2>3. QED
    BY <2>1, <2>2
<1>3. pc'[c] = "idle" /\ OthersKept(c)
  BY ReturnFlow DEF RetryReset
<1>4. QED
  BY <1>1, <1>2, <1>3 DEF RetryReset, UpdateRow, Resets, countVars

LEMMA RetryFaultFlow ==
  ASSUME TypeInv, NEW c \in Clients, RetryFault(c)
  PROVE  /\ UNCHANGED <<rowVars, displayed, task>> /\ faults' = faults + 1
         /\ pc'[c] = "idle" /\ OthersKept(c)
BY ReturnFlow DEF RetryFault, Raise

LEMMA LoseFlow ==
  ASSUME TypeInv, Lose
  PROVE  /\ UNCHANGED <<rowVars, displayed, faults>>
         /\ \A t \in TaskIds : task'[t] = NoTask
         /\ \A c \in Clients : pc'[c] = "idle"
BY DEF Lose

LEMMA QuietFlow ==
  ASSUME SetShadow \/ Start \/ UNCHANGED vars
  PROVE  UNCHANGED <<rowVars, displayed, task, clientVars, faults>>
BY DEF SetShadow, Start, vars, countVars

LEMMA NextCases ==
  ASSUME [Next]_vars
  PROVE  \/ \E c \in Callers, p \in Pushes : Submit(c, p)
         \/ \E c \in Operators, d \in Deliveries : RetryRead(c, d)
         \/ \E c \in Clients :
              Lookup(c) \/ Create(c) \/ RetryReset(c) \/ PushFault(c) \/ RetryFault(c)
         \/ \E t \in TaskIds : TaskAct(t)
         \/ Lose
         \/ SetShadow \/ Start \/ UNCHANGED vars
BY DEF Next, RequestStep, TaskAct

------------------------------------------------------------------------------
(* Each board has one delivery of a push. *)

(* No two requests of the same push have found it without rows and are both   *)
(* writing them.  Nothing in the code prevents it.                            *)
CreatesApart == \A c, d \in Clients, p \in Pushes : Creates(c, p) /\ Creates(d, p) => c = d

(* A delivery without a row has no key. *)
NoRowNoKey == \A d \in Deliveries : status[d] = "absent" => key[d] = NoKey

(* A request has written all the rows there are of its push. *)
BelowInv ==
  \A c \in Clients, p \in Pushes, d \in Deliveries :
    Creates(c, p) /\ status[d] # "absent" /\ key[d][1] = p => key[d][2] < req[c].next

KeysInv == NoRowNoKey /\ BelowInv /\ OneDeliveryPerBoard

LEMMA KeyIsNotNoKey ==
  ASSUME NEW k \in Key
  PROVE  k # NoKey /\ k[1] \in Pushes /\ k[2] \in Boards /\ k = <<k[1], k[2]>>
BY DEF Key, NoKey

(* A step that makes no row and sends no request to make one. *)
LEMMA KeysStay ==
  ASSUME TypeInv, KeysInv, SameRows,
         \A c \in Clients : pc'[c] = "create" =>
           \/ pc[c] = "create" /\ req'[c] = req[c]
           \/ RowsOf(req'[c].push) = {}
  PROVE  KeysInv'
<1>1. NoRowNoKey' /\ OneDeliveryPerBoard'
  BY DEF KeysInv, NoRowNoKey, OneDeliveryPerBoard, SameRows
<1>2. ASSUME NEW c \in Clients, NEW p \in Pushes, NEW d \in Deliveries,
             Creates(c, p)', status'[d] # "absent", key'[d][1] = p
      PROVE  key'[d][2] < req'[c].next
  <2>1. status[d] # "absent" /\ key'[d] = key[d]
    BY <1>2 DEF SameRows
  <2>2. d \in RowsOf(p)
    BY <1>2, <2>1 DEF RowsOf
  <2>3. pc[c] = "create" /\ req'[c] = req[c]
    BY <1>2, <2>2 DEF Creates
  <2>4. QED
    BY <1>2, <2>1, <2>3 DEF KeysInv, BelowInv, Creates
<1>3. QED
  BY <1>1, <1>2 DEF KeysInv, BelowInv

(* A new row, written by a request that goes on to the next board or returns. *)
LEMMA KeysCreate ==
  ASSUME TypeInv, KeysInv, CreatesApart,
         NEW c \in Clients, NEW d \in Deliveries, NEW p \in Pushes, NEW n \in Boards,
         Creates(c, p), req[c].next = n, status[d] = "absent", CreateRow(d, <<p, n>>),
         OthersKept(c),
         pc'[c] = "idle" \/ (pc'[c] = "create" /\ req'[c].push = p /\ req'[c].next = n + 1)
  PROVE  KeysInv'
<1>1. <<p, n>> \in Key /\ <<p, n>> # NoKey
  BY KeyIsNotNoKey DEF Key
<1>2. /\ status'[d] = "pending" /\ key'[d] = <<p, n>>
      /\ \A e \in Deliveries : e # d => status'[e] = status[e] /\ key'[e] = key[e]
  BY <1>1, CreateRowType
<1>3. NoRowNoKey'
  BY <1>2 DEF KeysInv, NoRowNoKey
<1>4. ASSUME NEW e \in Deliveries, e # d, key[e] = <<p, n>> PROVE FALSE
  <2>1. status[e] # "absent"
    BY <1>1, <1>4 DEF KeysInv, NoRowNoKey
  <2>2. key[e][2] < n
    BY <1>4, <2>1 DEF KeysInv, BelowInv
  <2>3. n \in Nat
    BY RouterAssumption DEF Boards
  <2>4. QED
    BY <1>4, <2>2, <2>3
<1>5. OneDeliveryPerBoard'
  BY <1>2, <1>4 DEF KeysInv, OneDeliveryPerBoard
<1>6. ASSUME NEW b \in Clients, NEW q \in Pushes, NEW e \in Deliveries,
             Creates(b, q)', status'[e] # "absent", key'[e][1] = q
      PROVE  key'[e][2] < req'[b].next
  <2>0. n \in Nat
    BY RouterAssumption DEF Boards
  <2>1. CASE b = c
    <3>1. q = p /\ req'[b].next = n + 1
      BY <1>6, <2>1 DEF Creates
    <3>2. CASE e = d
      BY <1>2, <2>0, <3>1, <3>2
    <3>3. CASE e # d
      <4>1. status[e] # "absent" /\ key'[e] = key[e]
        BY <1>2, <1>6, <3>3
      <4>2. key[e] \in Key
        BY <4>1 DEF TypeInv, KeyInv
      <4>3. key[e][2] < n /\ key[e][2] \in Nat
        BY <1>6, <3>1, <4>1, <4>2, KeyIsNotNoKey, RouterAssumption DEF KeysInv, BelowInv, Boards
      <4>4. QED
        BY <2>0, <3>1, <4>1, <4>3
    <3>4. QED
      BY <3>2, <3>3
  <2>2. CASE b # c
    <3>1. Creates(b, q) /\ req'[b] = req[b]
      BY <1>6, <2>2 DEF OthersKept, Creates
    <3>2. q # p
      BY <2>2, <3>1 DEF CreatesApart
    <3>3. e # d
      BY <1>2, <1>6, <3>2
    <3>4. QED
      BY <1>2, <1>6, <3>1, <3>3 DEF KeysInv, BelowInv
  <2>3. QED
    BY <2>1, <2>2
<1>7. QED
  BY <1>3, <1>5, <1>6 DEF KeysInv, BelowInv

LEMMA KeysStep ==
  ASSUME TypeInv, KeysInv, CreatesApart, [Next]_vars
  PROVE  KeysInv'
<1>1. ASSUME NEW c \in Callers, NEW p \in Pushes, Submit(c, p) PROVE KeysInv'
  <2>1. SameRows /\ c \in Clients /\ pc'[c] # "create" /\ OthersKept(c)
    BY <1>1, SubmitFlow DEF SameRows, rowVars
  <2>2. QED
    BY <2>1, KeysStay DEF OthersKept
<1>2. ASSUME NEW c \in Operators, NEW d \in Deliveries, RetryRead(c, d) PROVE KeysInv'
  <2>1. SameRows /\ c \in Clients /\ pc'[c] # "create" /\ OthersKept(c)
    BY <1>2, RetryReadFlow DEF SameRows, rowVars
  <2>2. QED
    BY <2>1, KeysStay DEF OthersKept
<1>3. ASSUME NEW c \in Clients, Lookup(c) PROVE KeysInv'
  <2>1. /\ SameRows /\ OthersKept(c)
        /\ pc'[c] = "create" => RowsOf(req'[c].push) = {}
    BY <1>3, LookupFlow DEF SameRows, rowVars
  <2>2. QED
    BY <2>1, KeysStay DEF OthersKept
<1>4. ASSUME NEW c \in Clients, Create(c) PROVE KeysInv'
  BY <1>4, CreateFlow, KeysCreate
<1>5. ASSUME NEW c \in Clients, RetryReset(c) PROVE KeysInv'
  <2>1. SameRows
    BY <1>5, RetryResetType DEF SameRows, RetryReset, UpdateRow
  <2>2. pc'[c] # "create" /\ OthersKept(c)
    BY <1>5, RetryResetFlow
  <2>3. QED
    BY <2>1, <2>2, KeysStay DEF OthersKept
<1>6. ASSUME NEW c \in Clients, PushFault(c) PROVE KeysInv'
  <2>1. pc'[c] = "idle" /\ OthersKept(c)
    BY <1>6, PushFaultFlow
  <2>2. CASE UNCHANGED rowVars
    <3>1. SameRows
      BY <2>2 DEF SameRows, rowVars
    <3>2. QED
      BY <2>1, <3>1, KeysStay DEF OthersKept
  <2>3. CASE \E d \in Deliveries, p \in Pushes, n \in Boards :
               /\ Creates(c, p) /\ req[c].next = n /\ status[d] = "absent"
               /\ CreateRow(d, <<p, n>>)
    BY <2>1, <2>3, KeysCreate
  <2>4. QED
    BY <1>6, <2>2, <2>3, PushFaultFlow
<1>7. ASSUME NEW c \in Clients, RetryFault(c) PROVE KeysInv'
  <2>1. SameRows /\ pc'[c] # "create" /\ OthersKept(c)
    BY <1>7, RetryFaultFlow DEF SameRows, rowVars
  <2>2. QED
    BY <2>1, KeysStay DEF OthersKept
<1>8. ASSUME NEW t \in TaskIds, TaskAct(t) PROVE KeysInv'
  <2>1. SameRows /\ UNCHANGED clientVars
    BY <1>8, TaskActRows, TaskActOthers DEF SameRows
  <2>2. QED
    BY <2>1, KeysStay DEF clientVars
<1>9. CASE Lose
  <2>1. SameRows
    BY <1>9, LoseFlow DEF SameRows, rowVars
  <2>2. QED
    BY <1>9, <2>1, LoseFlow, KeysStay
<1>10. CASE SetShadow \/ Start \/ UNCHANGED vars
  <2>1. SameRows /\ UNCHANGED clientVars
    BY <1>10, QuietFlow DEF SameRows, rowVars
  <2>2. QED
    BY <2>1, KeysStay DEF clientVars
<1>11. QED
  BY <1>1, <1>2, <1>3, <1>4, <1>5, <1>6, <1>7, <1>8, <1>9, <1>10, NextCases

(* A board has one delivery of a push, in any order of pushes, failures,      *)
(* retries and stops, as long as no two requests of the same push are both    *)
(* past the idempotency check (service.py:145-214).                           *)
THEOREM OneDeliveryUnlessRaced == Spec /\ []CreatesApart => []OneDeliveryPerBoard
<1>1. Init => TypeInv /\ KeysInv
  <2>1. ASSUME Init PROVE OneDeliveryPerBoard
    BY <2>1 DEF Init, OneDeliveryPerBoard
  <2>2. ASSUME Init PROVE NoRowNoKey /\ BelowInv
    BY <2>2 DEF Init, NoRowNoKey, BelowInv, Creates
  <2>3. QED
    BY <2>1, <2>2, TypeInvInit DEF KeysInv
<1>2. TypeInv /\ KeysInv /\ CreatesApart /\ [Next]_vars => (TypeInv /\ KeysInv)'
  BY TypeInvStep, KeysStep
<1>3. KeysInv => OneDeliveryPerBoard
  BY DEF KeysInv
<1>4. QED
  BY <1>1, <1>2, <1>3, PTL DEF Spec

(* Only the calls of push make rows, and only those of retry reset them.      *)
RolesInv ==
  /\ \A c \in Clients : pc[c] \in {"lookup", "create"} => c \in Callers
  /\ \A c \in Clients : pc[c] = "reset" => c \in Operators

LEMMA RolesStep ==
  ASSUME TypeInv, RolesInv, [Next]_vars
  PROVE  RolesInv'
<1>1. ASSUME NEW c \in Callers, NEW p \in Pushes, Submit(c, p) PROVE RolesInv'
  BY <1>1, SubmitFlow DEF RolesInv, OthersKept
<1>2. ASSUME NEW c \in Operators, NEW d \in Deliveries, RetryRead(c, d) PROVE RolesInv'
  BY <1>2, RetryReadFlow DEF RolesInv, OthersKept
<1>3. ASSUME NEW c \in Clients, Lookup(c) PROVE RolesInv'
  BY <1>3, LookupFlow DEF RolesInv, OthersKept
<1>4. ASSUME NEW c \in Clients, Create(c) PROVE RolesInv'
  BY <1>4, CreateFlow DEF RolesInv, OthersKept, Creates
<1>5. ASSUME NEW c \in Clients, RetryReset(c) PROVE RolesInv'
  BY <1>5, RetryResetFlow DEF RolesInv, OthersKept
<1>6. ASSUME NEW c \in Clients, PushFault(c) \/ RetryFault(c) PROVE RolesInv'
  BY <1>6, PushFaultFlow, RetryFaultFlow DEF RolesInv, OthersKept
<1>7. CASE (\E t \in TaskIds : TaskAct(t)) \/ SetShadow \/ Start \/ UNCHANGED vars
  <2>1. UNCHANGED clientVars
    BY <1>7, TaskActOthers, QuietFlow
  <2>2. QED
    BY <2>1 DEF RolesInv, clientVars
<1>8. CASE Lose
  BY <1>8, LoseFlow DEF RolesInv
<1>9. QED
  BY <1>1, <1>2, <1>3, <1>4, <1>5, <1>6, <1>7, <1>8, NextCases

LEMMA RolesKept == Spec => []RolesInv
<1>1. Init => TypeInv /\ RolesInv
  <2>1. Init => RolesInv
    BY DEF Init, RolesInv
  <2>2. QED
    BY <2>1, TypeInvInit
<1>2. TypeInv /\ RolesInv /\ [Next]_vars => (TypeInv /\ RolesInv)'
  BY TypeInvStep, RolesStep
<1>3. QED
  BY <1>1, <1>2, PTL DEF Spec

(* With one call of push at a time each board has one delivery of a push.     *)
THEOREM OneDelivery ==
  ASSUME \A c, d \in Callers : c = d
  PROVE  Spec => []OneDeliveryPerBoard
<1>1. RolesInv => CreatesApart
  BY DEF RolesInv, CreatesApart, Creates
<1>2. QED
  BY <1>1, RolesKept, OneDeliveryUnlessRaced, PTL

------------------------------------------------------------------------------
(* Who acts on a delivery, and what its row says meanwhile.                   *)

(* No two retries of the same dead letter have read it and not yet reset it.  *)
(* Nothing in the code prevents it.                                           *)
ResetsApart == \A c, b \in Clients, d \in Deliveries : Resets(c, d) /\ Resets(b, d) => c = b

(* A delivery has one task at a time. *)
AloneInv == \A t, u \in TaskIds : Running(t) /\ Running(u) /\ t[1] = u[1] => t = u

(* What the row says at each place of its task. *)
Stage(l) ==
  IF l = "mark" THEN {"pending", "retrying"}
  ELSE IF l = "backoff" THEN {"retrying"} ELSE {"processing"}

StageInv == \A t \in TaskIds : Running(t) => status[t[1]] \in Stage(task[t].pc)

(* A delivery that is about to be reset is a dead letter still. *)
ResetInv == \A c \in Clients, d \in Deliveries : Resets(c, d) => status[d] = "dead_letter"

LifeInv == AloneInv /\ StageInv /\ ResetInv

LEMMA StageUnsettled ==
  ASSUME NEW l
  PROVE  Stage(l) \subseteq Unsettled
BY DEF Stage, Unsettled

(* A step that starts no task and leaves the rows of the others alone. *)
LEMMA TasksStay ==
  ASSUME TypeInv, AloneInv, StageInv, UNCHANGED task,
         \A t \in TaskIds : Running(t) => status'[t[1]] = status[t[1]]
  PROVE  AloneInv' /\ StageInv'
BY DEF AloneInv, StageInv, Running

(* A task starts for a delivery that has none. *)
LEMMA TaskStarts ==
  ASSUME TypeInv, AloneInv, StageInv, NEW t \in TaskIds, task' = [task EXCEPT ![t] = NewTask],
         \A u \in TaskIds : u[1] = t[1] => ~Running(u),
         status'[t[1]] = "pending",
         \A e \in Deliveries : e # t[1] => status'[e] = status[e]
  PROVE  AloneInv' /\ StageInv'
<1>1. task'[t] = NewTask /\ \A u \in TaskIds : u # t => task'[u] = task[u]
  BY Constants, SetTask
<1>2. AloneInv'
  BY <1>1 DEF AloneInv, Running
<1>3. ASSUME NEW u \in TaskIds, Running(u)' PROVE status'[u[1]] \in Stage(task'[u].pc)
  <2>1. CASE u = t
    BY <1>1, <2>1 DEF NewTask, Stage
  <2>2. CASE u # t
    <3>1. task'[u] = task[u] /\ Running(u)
      BY <1>1, <1>3, <2>2 DEF Running
    <3>2. u[1] # t[1] /\ u[1] \in Deliveries
      BY <3>1, TaskIdParts
    <3>3. QED
      BY <3>1, <3>2 DEF StageInv
  <2>3. QED
    BY <2>1, <2>2
<1>4. QED
  BY <1>2, <1>3 DEF StageInv

(* A task goes on or ends. *)
LEMMA TaskGoes ==
  ASSUME TypeInv, AloneInv, StageInv, NEW t \in TaskIds, Running(t),
         NEW r \in TaskRecord \cup {NoTask}, task' = [task EXCEPT ![t] = r],
         r # NoTask => status'[t[1]] \in Stage(r.pc),
         \A e \in Deliveries : e # t[1] => status'[e] = status[e]
  PROVE  AloneInv' /\ StageInv'
<1>1. task'[t] = r /\ \A u \in TaskIds : u # t => task'[u] = task[u]
  BY SetTask
<1>2. AloneInv'
  BY <1>1 DEF AloneInv, Running
<1>3. ASSUME NEW u \in TaskIds, Running(u)' PROVE status'[u[1]] \in Stage(task'[u].pc)
  <2>1. CASE u = t
    BY <1>1, <1>3, <2>1 DEF Running, NoTask
  <2>2. CASE u # t
    <3>1. task'[u] = task[u] /\ Running(u)
      BY <1>1, <1>3, <2>2 DEF Running
    <3>2. u[1] # t[1] /\ u[1] \in Deliveries
      BY <2>2, <3>1, TaskIdParts DEF AloneInv
    <3>3. QED
      BY <3>1, <3>2 DEF StageInv
  <2>3. QED
    BY <2>1, <2>2
<1>4. QED
  BY <1>2, <1>3 DEF StageInv

(* The row and the board after a step of a task, by what the step does.       *)
Marks(t, from, to) ==
  /\ status[t[1]] \in from
  /\ status' = [status EXCEPT ![t[1]] = to]
  /\ UNCHANGED displayed

LEMMA TaskFlow ==
  ASSUME TypeInv, StageInv, NEW t \in TaskIds, TaskAct(t)
  PROVE  /\ Running(t) /\ UNCHANGED clientVars
         /\ \E r \in TaskRecord \cup {NoTask} :
              /\ task' = [task EXCEPT ![t] = r]
              /\ \/ /\ Marks(t, {"pending", "retrying"}, "processing")
                    /\ task[t].pc # "ok" /\ r # NoTask /\ r.pc = "post" /\ UNCHANGED faults
                 \/ /\ UNCHANGED <<status, displayed>> /\ status[t[1]] = "processing"
                    /\ task[t].pc = "post" /\ r # NoTask /\ r.pc = "fail" /\ UNCHANGED faults
                 \/ /\ displayed' = [displayed EXCEPT ![t[1]] = @ + 1]
                    /\ UNCHANGED status /\ status[t[1]] = "processing"
                    /\ task[t].pc = "post" /\ r # NoTask /\ r.pc = "ok" /\ UNCHANGED faults
                 \/ /\ Marks(t, {"processing"}, "delivered") /\ r = NoTask /\ UNCHANGED faults
                 \/ /\ Marks(t, {"processing"}, "retrying")
                    /\ task[t].pc # "ok" /\ r # NoTask /\ r.pc = "backoff" /\ UNCHANGED faults
                 \/ /\ Marks(t, {"processing"}, "dead_letter")
                    /\ task[t].pc # "ok" /\ r = NoTask /\ UNCHANGED faults
                 \/ /\ UNCHANGED <<status, displayed>> /\ status[t[1]] = "retrying"
                    /\ task[t].pc # "ok" /\ r # NoTask /\ r.pc = "mark" /\ UNCHANGED faults
                 \/ /\ UNCHANGED <<status, displayed>> /\ status[t[1]] = "processing"
                    /\ r # NoTask /\ r.pc = "exc" /\ faults' = faults + 1
                 \/ /\ UNCHANGED <<status, displayed>> /\ r = NoTask /\ faults' = faults + 1
<1>1. /\ Running(t) /\ UNCHANGED clientVars /\ task[t].pc \in TaskPc
      /\ status[t[1]] \in Stage(task[t].pc)
      /\ NoTask \in TaskRecord \cup {NoTask} /\ NoTask \notin TaskRecord
  BY TaskActOthers, TaskType, Constants DEF StageInv
<1>2. ASSUME NEW l \in TaskPc, GoTo(t, l)
      PROVE  \E r \in TaskRecord \cup {NoTask} :
               task' = [task EXCEPT ![t] = r] /\ r # NoTask /\ r.pc = l
  BY <1>1, <1>2, GoToSetsTask
<1>3. {"mark", "post", "ok", "fail", "exc", "backoff"} \subseteq TaskPc
  BY DEF TaskPc
<1>4. CASE MarkProcessing(t)
  <2>1. /\ Marks(t, {"pending", "retrying"}, "processing")
        /\ task[t].pc # "ok" /\ GoTo(t, "post") /\ UNCHANGED faults
    BY <1>1, <1>4 DEF MarkProcessing, UpdateRow, Stage, Marks, countVars
  <2>2. QED
    BY <1>1, <1>2, <1>3, <2>1
<1>5. CASE BoardAnswers(t)
  <2>1. /\ UNCHANGED status /\ status[t[1]] = "processing"
        /\ task[t].pc = "post" /\ UNCHANGED faults
    BY <1>1, <1>5 DEF BoardAnswers, Stage, rowVars, countVars
  <2>2. CASE GoTo(t, "ok") /\ displayed' = [displayed EXCEPT ![t[1]] = @ + 1]
    BY <1>1, <1>2, <1>3, <2>1, <2>2
  <2>3. CASE GoTo(t, "fail") /\ UNCHANGED displayed
    BY <1>1, <1>2, <1>3, <2>1, <2>3
  <2>4. QED
    BY <1>5, <2>2, <2>3 DEF BoardAnswers
<1>6. CASE MarkDelivered(t)
  BY <1>1, <1>6 DEF MarkDelivered, UpdateRow, Stage, Marks, End, countVars
<1>7. CASE MarkRetrying(t)
  <2>1. /\ Marks(t, {"processing"}, "retrying")
        /\ task[t].pc # "ok" /\ GoTo(t, "backoff") /\ UNCHANGED faults
    BY <1>1, <1>7 DEF MarkRetrying, UpdateRow, Stage, Marks, countVars
  <2>2. QED
    BY <1>1, <1>2, <1>3, <2>1
<1>8. CASE MarkDeadLetter(t)
  BY <1>1, <1>8 DEF MarkDeadLetter, UpdateRow, Stage, Marks, End, countVars
<1>9. CASE NextAttempt(t)
  <2>1. PICK r \in TaskRecord \cup {NoTask} : task' = [task EXCEPT ![t] = r]
    BY TaskActTask
  <2>2. task'[t].pc = "mark" /\ task'[t] = r
    BY <1>9, <2>1, SetTask DEF NextAttempt, TypeInv, TypeOK
  <2>3. r # NoTask /\ r.pc = "mark"
    BY <2>2 DEF NoTask
  <2>4. /\ UNCHANGED <<status, displayed>> /\ status[t[1]] = "retrying"
        /\ task[t].pc # "ok" /\ UNCHANGED faults
    BY <1>1, <1>9 DEF NextAttempt, Stage, rowVars, countVars
  <2>5. QED
    BY <1>1, <2>1, <2>3, <2>4
<1>10. CASE CatchException(t)
  <2>1. /\ UNCHANGED <<status, displayed>> /\ status[t[1]] = "processing"
        /\ GoTo(t, "exc") /\ faults' = faults + 1
    BY <1>1, <1>10 DEF CatchException, Raise, Stage, rowVars
  <2>2. QED
    BY <1>1, <1>2, <1>3, <2>1
<1>11. CASE TaskDies(t)
  BY <1>1, <1>11 DEF TaskDies, Raise, End, rowVars
<1>12. QED
  BY <1>4, <1>5, <1>6, <1>7, <1>8, <1>9, <1>10, <1>11 DEF TaskAct, TaskStep

LEMMA LifeStep ==
  ASSUME TypeInv, LifeInv, ResetsApart, [Next]_vars
  PROVE  LifeInv'
<1>1. ASSUME NEW c \in Callers, NEW p \in Pushes, Submit(c, p) PROVE LifeInv'
  <2>1. AloneInv' /\ StageInv'
    BY <1>1, SubmitFlow, TasksStay DEF LifeInv, rowVars
  <2>2. ResetInv'
    BY <1>1, SubmitFlow DEF LifeInv, ResetInv, Resets, OthersKept, rowVars
  <2>3. QED
    BY <2>1, <2>2 DEF LifeInv
<1>2. ASSUME NEW c \in Operators, NEW d \in Deliveries, RetryRead(c, d) PROVE LifeInv'
  <2>1. AloneInv' /\ StageInv'
    BY <1>2, RetryReadFlow, TasksStay DEF LifeInv, rowVars
  <2>2. ResetInv'
    BY <1>2, RetryReadFlow DEF LifeInv, ResetInv, Resets, OthersKept, rowVars
  <2>3. QED
    BY <2>1, <2>2 DEF LifeInv
<1>3. ASSUME NEW c \in Clients, Lookup(c) PROVE LifeInv'
  <2>1. AloneInv' /\ StageInv'
    BY <1>3, LookupFlow, TasksStay DEF LifeInv, rowVars
  <2>2. ResetInv'
    BY <1>3, LookupFlow DEF LifeInv, ResetInv, Resets, OthersKept, rowVars
  <2>3. QED
    BY <2>1, <2>2 DEF LifeInv
<1>4. ASSUME NEW c \in Clients, Create(c) PROVE LifeInv'
  <2>1. PICK d \in Deliveries, p \in Pushes, n \in Boards :
          /\ Creates(c, p) /\ status[d] = "absent" /\ CreateRow(d, <<p, n>>)
          /\ task' = [task EXCEPT ![<<d, 0>>] = NewTask] /\ OthersKept(c)
          /\ pc'[c] # "reset"
    BY <1>4, CreateFlow
  <2>2. /\ status'[d] = "pending"
        /\ \A e \in Deliveries : e # d => status'[e] = status[e]
    BY <2>1 DEF CreateRow, TypeInv, TypeOK
  <2>3. <<d, 0>> \in TaskIds /\ <<d, 0>>[1] = d
    BY Constants DEF TaskIds
  <2>4. \A u \in TaskIds : u[1] = d => ~Running(u)
    BY <2>1 DEF TypeInv, TaskInv
  <2>5. AloneInv' /\ StageInv'
    BY <2>1, <2>2, <2>3, <2>4, TaskStarts DEF LifeInv
  <2>6. ResetInv'
    BY <2>1, <2>2 DEF LifeInv, ResetInv, Resets, OthersKept
  <2>7. QED
    BY <2>5, <2>6 DEF LifeInv
<1>5. ASSUME NEW c \in Clients, RetryReset(c) PROVE LifeInv'
  <2>1. PICK d \in Deliveries, t \in TaskIds :
          /\ Resets(c, d) /\ t[1] = d
          /\ status' = [status EXCEPT ![d] = "pending"]
          /\ task' = [task EXCEPT ![t] = NewTask]
          /\ pc'[c] = "idle" /\ OthersKept(c)
    BY <1>5, RetryResetFlow
  <2>2. /\ status'[d] = "pending"
        /\ \A e \in Deliveries : e # d => status'[e] = status[e]
    BY <2>1 DEF TypeInv, TypeOK
  <2>3. \A u \in TaskIds : u[1] = d => ~Running(u)
    BY <2>1, StageUnsettled DEF LifeInv, StageInv, ResetInv, Unsettled
  <2>4. AloneInv' /\ StageInv'
    BY <2>1, <2>2, <2>3, TaskStarts DEF LifeInv
  <2>5. ResetInv'
    BY <2>1, <2>2 DEF LifeInv, ResetInv, ResetsApart, Resets, OthersKept
  <2>6. QED
    BY <2>4, <2>5 DEF LifeInv
<1>6. ASSUME NEW c \in Clients, PushFault(c) PROVE LifeInv'
  <2>1. UNCHANGED task /\ pc'[c] = "idle" /\ OthersKept(c)
    BY <1>6, PushFaultFlow
  <2>2. \A d \in Deliveries : status[d] # "absent" => status'[d] = status[d]
    <3>1. CASE UNCHANGED rowVars
      BY <3>1 DEF rowVars
    <3>2. CASE \E d \in Deliveries, p \in Pushes, n \in Boards :
                 status[d] = "absent" /\ CreateRow(d, <<p, n>>)
      BY <3>2 DEF CreateRow, TypeInv, TypeOK
    <3>3. QED
      BY <1>6, <3>1, <3>2, PushFaultFlow
  <2>3. AloneInv' /\ StageInv'
    BY <2>1, <2>2, TaskIdParts, TasksStay DEF LifeInv, TypeInv, TaskInv
  <2>4. ResetInv'
    BY <2>1, <2>2 DEF LifeInv, ResetInv, Resets, OthersKept
  <2>5. QED
    BY <2>3, <2>4 DEF LifeInv
<1>7. ASSUME NEW c \in Clients, RetryFault(c) PROVE LifeInv'
  <2>1. AloneInv' /\ StageInv'
    BY <1>7, RetryFaultFlow, TasksStay DEF LifeInv, rowVars
  <2>2. ResetInv'
    BY <1>7, RetryFaultFlow DEF LifeInv, ResetInv, Resets, OthersKept, rowVars
  <2>3. QED
    BY <2>1, <2>2 DEF LifeInv
<1>8. ASSUME NEW t \in TaskIds, TaskAct(t) PROVE LifeInv'
  <2>1. Running(t) /\ UNCHANGED clientVars /\ t[1] \in Deliveries
    BY <1>8, TaskFlow, TaskIdParts DEF LifeInv
  <2>2. \A e \in Deliveries : e # t[1] => status'[e] = status[e]
    BY <1>8, TaskActRows
  <2>3. PICK r \in TaskRecord \cup {NoTask} :
          /\ task' = [task EXCEPT ![t] = r]
          /\ r # NoTask => status'[t[1]] \in Stage(r.pc)
    <3>1. status \in [Deliveries -> Status]
      BY DEF TypeInv, TypeOK
    <3>2. QED
      BY <1>8, <2>1, <3>1, TaskFlow DEF LifeInv, Marks, Stage
  <2>4. AloneInv' /\ StageInv'
    BY <2>1, <2>2, <2>3, TaskGoes DEF LifeInv
  <2>5. status[t[1]] # "dead_letter"
    BY <2>1, StageUnsettled DEF LifeInv, StageInv, Unsettled
  <2>6. ResetInv'
    BY <2>1, <2>2, <2>5 DEF LifeInv, ResetInv, Resets, clientVars
  <2>7. QED
    BY <2>4, <2>6 DEF LifeInv
<1>9. CASE Lose
  <2>1. \A t \in TaskIds : ~Running(t)'
    BY <1>9, LoseFlow DEF Running, NoTask
  <2>2. QED
    BY <1>9, <2>1, LoseFlow DEF LifeInv, AloneInv, StageInv, ResetInv, Resets
<1>10. CASE SetShadow \/ Start \/ UNCHANGED vars
  <2>1. UNCHANGED <<rowVars, task, clientVars>>
    BY <1>10, QuietFlow
  <2>2. AloneInv' /\ StageInv'
    BY <2>1, TasksStay DEF LifeInv, rowVars
  <2>3. ResetInv'
    BY <2>1 DEF LifeInv, ResetInv, Resets, rowVars, clientVars
  <2>4. QED
    BY <2>2, <2>3 DEF LifeInv
<1>11. QED
  BY <1>1, <1>2, <1>3, <1>4, <1>5, <1>6, <1>7, <1>8, <1>9, <1>10, NextCases

LEMMA LifeInit ==
  ASSUME Init
  PROVE  TypeInv /\ LifeInv
<1>1. \A t \in TaskIds : ~Running(t)
  BY DEF Init, Running, NoTask
<1>2. \A c \in Clients : pc[c] # "reset"
  BY DEF Init
<1>3. QED
  BY <1>1, <1>2, TypeInvInit DEF LifeInv, AloneInv, StageInv, ResetInv, Resets

------------------------------------------------------------------------------
(* The lifecycle of a delivery.                                               *)

(* The status a delivery has as a command of CommandLifecycle. *)
Said(s) == IF s = "delivered" THEN "acknowledged" ELSE s
AbstractStatus == [d \in Deliveries |-> Said(status[d])]

LEMMA SaidOfRow ==
  ASSUME NEW d \in Deliveries
  PROVE  /\ AbstractStatus[d] = Said(status[d])
         /\ status[d] # "delivered" => AbstractStatus[d] = status[d]
BY DEF AbstractStatus, Said

LEMMA SaidAfter ==
  ASSUME status \in [Deliveries -> Status], NEW d \in Deliveries, NEW s,
         status' = [status EXCEPT ![d] = s]
  PROVE  AbstractStatus' = [AbstractStatus EXCEPT ![d] = Said(s)]
BY DEF AbstractStatus, Said

(* The abstract actions, written out over the rows. *)
LEMMA Abstractly ==
  ASSUME NEW d \in Deliveries, NEW to,
         AbstractStatus' = [AbstractStatus EXCEPT ![d] = to], UNCHANGED displayed,
         \/ AbstractStatus[d] \in {"absent"} /\ to = "pending"
         \/ AbstractStatus[d] \in {"pending", "retrying", "processing"} /\ to = "processing"
         \/ AbstractStatus[d] \in {"processing"} /\ to \in {"acknowledged", "retrying", "dead_letter"}
         \/ AbstractStatus[d] \in {"dead_letter"} /\ to = "pending"
  PROVE  Abstract!LifecycleNext
<1>1. CASE AbstractStatus[d] \in {"absent"} /\ to = "pending"
  <2>1. Abstract!Create(d)
    BY <1>1 DEF Abstract!Create, Abstract!Move, AbstractStatus, Said
  <2>2. QED
    BY <2>1 DEF Abstract!LifecycleNext
<1>2. CASE AbstractStatus[d] \in {"pending", "retrying", "processing"} /\ to = "processing"
  <2>1. Abstract!Attempt(d)
    BY <1>2 DEF Abstract!Attempt, Abstract!Move, AbstractStatus, Said
  <2>2. QED
    BY <2>1 DEF Abstract!LifecycleNext
<1>3. CASE AbstractStatus[d] \in {"processing"} /\ to = "acknowledged"
  <2>1. Abstract!Acknowledge(d)
    BY <1>3 DEF Abstract!Acknowledge, Abstract!Move, AbstractStatus, Said
  <2>2. QED
    BY <2>1 DEF Abstract!LifecycleNext
<1>4. CASE AbstractStatus[d] \in {"processing"} /\ to = "retrying"
  <2>1. Abstract!Postpone(d)
    BY <1>4 DEF Abstract!Postpone, Abstract!Move, AbstractStatus, Said
  <2>2. QED
    BY <2>1 DEF Abstract!LifecycleNext
<1>5. CASE AbstractStatus[d] \in {"processing"} /\ to = "dead_letter"
  <2>1. Abstract!GiveUp(d)
    BY <1>5 DEF Abstract!GiveUp, Abstract!Move, AbstractStatus, Said
  <2>2. QED
    BY <2>1 DEF Abstract!LifecycleNext
<1>6. CASE AbstractStatus[d] \in {"dead_letter"} /\ to = "pending"
  <2>1. Abstract!Reopen(d)
    BY <1>6 DEF Abstract!Reopen, Abstract!Move, AbstractStatus, Said
  <2>2. QED
    BY <2>1 DEF Abstract!LifecycleNext
<1>7. QED
  BY <1>1, <1>2, <1>3, <1>4, <1>5, <1>6

LEMMA StepRefines ==
  ASSUME TypeInv, LifeInv, [Next]_vars
  PROVE  Abstract!LifecycleNext \/ UNCHANGED <<status, displayed>>
<1>0. status \in [Deliveries -> Status]
  BY DEF TypeInv, TypeOK
<1>1. ASSUME NEW d \in Deliveries, status[d] = "absent", UNCHANGED displayed,
             status' = [status EXCEPT ![d] = "pending"]
      PROVE  Abstract!LifecycleNext
  <2>1. /\ AbstractStatus' = [AbstractStatus EXCEPT ![d] = "pending"]
        /\ AbstractStatus[d] \in {"absent"}
    BY <1>0, <1>1, SaidAfter, SaidOfRow DEF Said
  <2>2. QED
    BY <1>1, <2>1, Abstractly
<1>2. ASSUME NEW c \in Callers, NEW p \in Pushes, Submit(c, p) PROVE UNCHANGED <<status, displayed>>
  BY <1>2, SubmitFlow DEF rowVars
<1>3. ASSUME NEW c \in Operators, NEW d \in Deliveries, RetryRead(c, d)
      PROVE  UNCHANGED <<status, displayed>>
  BY <1>3, RetryReadFlow DEF rowVars
<1>4. ASSUME NEW c \in Clients, Lookup(c) \/ RetryFault(c) PROVE UNCHANGED <<status, displayed>>
  BY <1>4, LookupFlow, RetryFaultFlow DEF rowVars
<1>5. ASSUME NEW c \in Clients, Create(c) PROVE Abstract!LifecycleNext
  BY <1>1, <1>5, CreateFlow DEF CreateRow
<1>6. ASSUME NEW c \in Clients, PushFault(c)
      PROVE  Abstract!LifecycleNext \/ UNCHANGED <<status, displayed>>
  BY <1>1, <1>6, PushFaultFlow DEF CreateRow, rowVars
<1>7. ASSUME NEW c \in Clients, RetryReset(c) PROVE Abstract!LifecycleNext
  <2>1. PICK d \in Deliveries :
          Resets(c, d) /\ status' = [status EXCEPT ![d] = "pending"] /\ UNCHANGED displayed
    BY <1>7, RetryResetFlow
  <2>2. status[d] = "dead_letter"
    BY <2>1 DEF LifeInv, ResetInv
  <2>3. /\ AbstractStatus' = [AbstractStatus EXCEPT ![d] = "pending"]
        /\ AbstractStatus[d] \in {"dead_letter"}
    BY <1>0, <2>1, <2>2, SaidAfter, SaidOfRow DEF Said
  <2>4. QED
    BY <2>1, <2>3, Abstractly
<1>8. ASSUME NEW t \in TaskIds, TaskAct(t)
      PROVE  Abstract!LifecycleNext \/ UNCHANGED <<status, displayed>>
  <2>1. t[1] \in Deliveries
    BY TaskIdParts
  <2>2. CASE UNCHANGED <<status, displayed>>
    BY <2>2
  <2>3. CASE /\ displayed' = [displayed EXCEPT ![t[1]] = @ + 1]
             /\ UNCHANGED status /\ status[t[1]] = "processing"
    <3>1. Abstract!Act(t[1])
      BY <2>1, <2>3 DEF Abstract!Act
    <3>2. QED
      BY <2>1, <3>1 DEF Abstract!LifecycleNext
  <2>4. CASE Marks(t, {"pending", "retrying"}, "processing")
    <3>1. /\ AbstractStatus' = [AbstractStatus EXCEPT ![t[1]] = "processing"]
          /\ AbstractStatus[t[1]] \in {"pending", "retrying", "processing"}
          /\ UNCHANGED displayed
      BY <1>0, <2>1, <2>4, SaidAfter, SaidOfRow DEF Said, Marks
    <3>2. QED
      BY <2>1, <3>1, Abstractly
  <2>5. ASSUME NEW s \in {"delivered", "retrying", "dead_letter"}, Marks(t, {"processing"}, s)
        PROVE  Abstract!LifecycleNext
    <3>1. /\ AbstractStatus' = [AbstractStatus EXCEPT ![t[1]] = Said(s)]
          /\ AbstractStatus[t[1]] \in {"processing"}
          /\ Said(s) \in {"acknowledged", "retrying", "dead_letter"}
          /\ UNCHANGED displayed
      BY <1>0, <2>1, <2>5, SaidAfter, SaidOfRow DEF Said, Marks
    <3>2. QED
      BY <2>1, <3>1, Abstractly
  <2>6. QED
    BY <1>8, <2>2, <2>3, <2>4, <2>5, TaskFlow DEF LifeInv
<1>9. CASE Lose
  BY <1>9, LoseFlow DEF rowVars
<1>10. CASE SetShadow \/ Start \/ UNCHANGED vars
  BY <1>10, QuietFlow DEF rowVars
<1>11. QED
  BY <1>2, <1>3, <1>4, <1>5, <1>6, <1>7, <1>8, <1>9, <1>10, NextCases

(* The router implements the lifecycle of a delivery, with the same acts of   *)
(* its board, for any number of pushes, tasks, retries, failures and stops,   *)
(* as long as no two retries of one dead letter race between reading it and   *)
(* resetting it (service.py:37-137, 227-269).                                 *)
THEOREM LifecycleUnlessRaced == Spec /\ []ResetsApart => ImplementsLifecycle
<1>1. Init => TypeInv /\ LifeInv
  BY LifeInit
<1>2. TypeInv /\ LifeInv /\ ResetsApart /\ [Next]_vars => (TypeInv /\ LifeInv)'
  BY TypeInvStep, LifeStep
<1>3. Init => Abstract!LifecycleInit
  BY DEF Init, Abstract!LifecycleInit
<1>4. TypeInv /\ LifeInv /\ [Next]_vars => [Abstract!LifecycleNext]_(Abstract!Vars)
  BY StepRefines DEF Abstract!Vars
<1>5. QED
  BY <1>1, <1>2, <1>3, <1>4, PTL DEF Spec, ImplementsLifecycle, Abstract!Lifecycle

(* The lifecycle itself never touches what is acknowledged. *)
LEMMA LifecycleLeaves == Abstract!Lifecycle => Abstract!AcknowledgedUntouched
<1> DEFINE typed == DOMAIN displayed = Deliveries
           untouched == \A e \in Deliveries :
             [d \in Deliveries |-> IF status[d] = "delivered" THEN "acknowledged" ELSE status[d]][e]
               = "acknowledged" =>
             ([d \in Deliveries |-> IF status[d] = "delivered" THEN "acknowledged" ELSE status[d]]')[e]
               = "acknowledged" /\ displayed'[e] = displayed[e]
<1>1. Abstract!LifecycleInit => typed
  BY DEF Abstract!LifecycleInit
<1>2. ASSUME typed, Abstract!LifecycleNext
      PROVE  typed' /\ untouched
  <2>1. \/ /\ UNCHANGED displayed
           /\ \E d \in Deliveries : \E s :
                AbstractStatus[d] # "acknowledged" /\ AbstractStatus' = [AbstractStatus EXCEPT ![d] = s]
        \/ /\ UNCHANGED AbstractStatus
           /\ \E d \in Deliveries :
                AbstractStatus[d] # "acknowledged" /\ displayed' = [displayed EXCEPT ![d] = @ + 1]
    BY <1>2 DEF Abstract!LifecycleNext, Abstract!Create, Abstract!Attempt, Abstract!Act,
       Abstract!Acknowledge, Abstract!Postpone, Abstract!GiveUp, Abstract!Reopen, Abstract!Move,
       AbstractStatus, Said
  <2>2. DOMAIN AbstractStatus = Deliveries
    BY DEF AbstractStatus
  <2>3. \A d \in Deliveries : AbstractStatus[d] = "acknowledged" =>
          AbstractStatus'[d] = "acknowledged" /\ displayed'[d] = displayed[d]
    BY <1>2, <2>1, <2>2
  <2>4. typed'
    BY <1>2, <2>1
  <2>5. QED
    BY <2>3, <2>4 DEF AbstractStatus, Said
<1>3. UNCHANGED Abstract!Vars => (typed => typed')
  BY DEF Abstract!Vars
<1>4. typed /\ [Abstract!LifecycleNext]_(Abstract!Vars) => typed' /\ [untouched]_(Abstract!Vars)
  BY <1>2, <1>3
<1> HIDE DEF typed, untouched
<1>5. Abstract!Lifecycle => [][untouched]_(Abstract!Vars)
  BY <1>1, <1>4, PTL DEF Abstract!Lifecycle
<1>6. QED
  BY <1>5 DEF Abstract!AcknowledgedUntouched, untouched

(* Where retries do not race, a board that has accepted the text of a         *)
(* delivery is not sent it again, and nothing reopens its row, whatever       *)
(* tasks, faults and stops follow (service.py:66-136, 227-269).               *)
THEOREM UntouchedUnlessRaced == Spec /\ []ResetsApart => Abstract!AcknowledgedUntouched
BY LifecycleUnlessRaced, LifecycleLeaves DEF ImplementsLifecycle

(* One operator does not race with another.                                   *)
LEMMA OneOperator ==
  ASSUME \A c, d \in Operators : c = d
  PROVE  Spec => []ResetsApart
<1>1. RolesInv => ResetsApart
  BY DEF RolesInv, ResetsApart, Resets
<1>2. QED
  BY <1>1, RolesKept, PTL

(* With one operator at a time the router implements the lifecycle of a       *)
(* delivery.                                                                  *)
THEOREM LifecycleImplemented ==
  ASSUME \A c, d \in Operators : c = d
  PROVE  Spec => ImplementsLifecycle
BY OneOperator, LifecycleUnlessRaced, PTL

------------------------------------------------------------------------------
(* A board accepts a text once.                                               *)

(* A delivery whose text may still be sent has not been displayed, but for    *)
(* the failed database calls after which it is sent again.                    *)
ActsInv ==
  /\ \A d \in Deliveries : displayed[d] <= 1 + faults
  /\ \A d \in Deliveries : status[d] \notin {"processing", "delivered"} => displayed[d] <= faults
  /\ \A t \in TaskIds : Running(t) /\ task[t].pc # "ok" => displayed[t[1]] <= faults

(* No display, and nothing becomes a delivery that may be sent but what might *)
(* have been sent before, or what a failed call makes be sent again.          *)
LEMMA ActsKept ==
  ASSUME TypeInv, ActsInv, UNCHANGED displayed,
         \/ faults' = faults + 1
         \/ /\ faults' = faults
            /\ \A d \in Deliveries : status'[d] \notin {"processing", "delivered"} =>
                 status[d] \notin {"processing", "delivered"} \/ displayed[d] <= faults
            /\ \A t \in TaskIds : Running(t)' /\ task'[t].pc # "ok" =>
                 displayed[t[1]] <= faults
  PROVE  ActsInv'
<1>1. /\ displayed \in [Deliveries -> Nat] /\ faults \in Nat
      /\ \A t \in TaskIds : t[1] \in Deliveries
  BY TaskIdParts DEF TypeInv, TypeOK
<1>2. CASE faults' = faults + 1
  <2>1. \A d \in Deliveries : displayed[d] <= faults'
    BY <1>1, <1>2 DEF ActsInv
  <2>2. \A d \in Deliveries : displayed[d] <= 1 + faults'
    BY <1>1, <1>2, <2>1
  <2>3. QED
    BY <1>1, <2>1, <2>2 DEF ActsInv
<1>3. CASE faults' = faults
  BY <1>1, <1>3 DEF ActsInv
<1>4. QED
  BY <1>2, <1>3

LEMMA ActsStep ==
  ASSUME TypeInv, LifeInv, ActsInv, [Next]_vars
  PROVE  ActsInv'
<1>0. /\ displayed \in [Deliveries -> Nat] /\ status \in [Deliveries -> Status]
      /\ \A t \in TaskIds : t[1] \in Deliveries
  BY TaskIdParts DEF TypeInv, TypeOK
<1>1. CASE UNCHANGED <<rowVars, displayed, task, faults>>
  BY <1>1, ActsKept DEF ActsInv, Running, rowVars
<1>2. ASSUME NEW c \in Clients, PushFault(c) \/ RetryFault(c) PROVE ActsInv'
  BY <1>2, PushFaultFlow, RetryFaultFlow, ActsKept
<1>3. ASSUME NEW d \in Deliveries, NEW t \in TaskIds, t[1] = d,
             status[d] \in {"absent", "dead_letter"},
             status' = [status EXCEPT ![d] = "pending"],
             task' = [task EXCEPT ![t] = NewTask], UNCHANGED <<displayed, faults>>
      PROVE  ActsInv'
  <2>1. task'[t] = NewTask /\ \A u \in TaskIds : u # t => task'[u] = task[u]
    BY <1>3, Constants, SetTask
  <2>2. displayed[d] <= faults
    BY <1>3 DEF ActsInv
  <2>3. \A u \in TaskIds : Running(u)' /\ task'[u].pc # "ok" => displayed[u[1]] <= faults
    BY <1>3, <2>1, <2>2 DEF ActsInv, Running
  <2>4. QED
    BY <1>0, <1>3, <2>2, <2>3, ActsKept
<1>4. ASSUME NEW c \in Clients, Create(c) PROVE ActsInv'
  <2>1. PICK d \in Deliveries :
          /\ status[d] = "absent" /\ status' = [status EXCEPT ![d] = "pending"]
          /\ task' = [task EXCEPT ![<<d, 0>>] = NewTask] /\ UNCHANGED <<displayed, faults>>
    BY <1>4, CreateFlow DEF CreateRow
  <2>2. <<d, 0>> \in TaskIds /\ <<d, 0>>[1] = d
    BY Constants DEF TaskIds
  <2>3. QED
    BY <1>3, <2>1, <2>2
<1>5. ASSUME NEW c \in Clients, RetryReset(c) PROVE ActsInv'
  BY <1>3, <1>5, RetryResetFlow DEF LifeInv, ResetInv
<1>6. ASSUME NEW t \in TaskIds, TaskAct(t) PROVE ActsInv'
  <2>1. PICK r \in TaskRecord \cup {NoTask} :
        /\ task' = [task EXCEPT ![t] = r]
        /\ \/ /\ UNCHANGED displayed /\ faults' = faults + 1
           \/ /\ displayed' = [displayed EXCEPT ![t[1]] = @ + 1]
              /\ UNCHANGED status /\ status[t[1]] = "processing"
              /\ task[t].pc = "post" /\ r.pc = "ok" /\ UNCHANGED faults
           \/ /\ Marks(t, {"processing"}, "delivered") /\ r = NoTask /\ UNCHANGED faults
           \/ /\ UNCHANGED <<displayed, faults>> /\ task[t].pc # "ok"
              /\ \/ UNCHANGED status
                 \/ \E s : status' = [status EXCEPT ![t[1]] = s]
    BY <1>6, TaskFlow DEF LifeInv, Marks
  <2>2. /\ task'[t] = r /\ Running(t)
        /\ \A u \in TaskIds : u # t => task'[u] = task[u]
    BY <1>6, <2>1, SetTask, TaskFlow DEF LifeInv
  <2>3. CASE UNCHANGED displayed /\ faults' = faults + 1
    BY <2>3, ActsKept
  <2>4. CASE /\ displayed' = [displayed EXCEPT ![t[1]] = @ + 1]
             /\ UNCHANGED status /\ status[t[1]] = "processing"
             /\ task[t].pc = "post" /\ r.pc = "ok" /\ UNCHANGED faults
    <3>1. displayed[t[1]] <= faults /\ faults \in Nat /\ displayed[t[1]] \in Nat
      BY <1>0, <2>2, <2>4 DEF ActsInv, TypeInv, TypeOK
    <3>2. /\ displayed'[t[1]] <= 1 + faults
          /\ \A d \in Deliveries : d # t[1] => displayed'[d] = displayed[d]
      BY <1>0, <2>4, <3>1
    <3>3. \A u \in TaskIds : Running(u)' /\ u # t => u[1] # t[1] /\ Running(u)
      BY <2>2 DEF LifeInv, AloneInv, Running
    <3>4. \A u \in TaskIds : Running(u)' /\ task'[u].pc # "ok" => displayed'[u[1]] <= faults
      BY <1>0, <2>2, <2>4, <3>2, <3>3 DEF ActsInv
    <3>5. QED
      BY <1>0, <2>4, <3>2, <3>4 DEF ActsInv
  <2>5. CASE Marks(t, {"processing"}, "delivered") /\ r = NoTask /\ UNCHANGED faults
    <3>1. \A u \in TaskIds : Running(u)' => u # t
      BY <2>2, <2>5 DEF Running, NoTask
    <3>2. \A u \in TaskIds : Running(u)' /\ task'[u].pc # "ok" => displayed[u[1]] <= faults
      BY <2>2, <3>1 DEF ActsInv, Running
    <3>3. \A d \in Deliveries : status'[d] \notin {"processing", "delivered"} => status'[d] = status[d]
      BY <1>0, <2>5 DEF Marks
    <3>4. QED
      BY <2>5, <3>2, <3>3, ActsKept DEF Marks
  <2>6. CASE /\ UNCHANGED <<displayed, faults>> /\ task[t].pc # "ok"
             /\ \/ UNCHANGED status
                \/ \E s : status' = [status EXCEPT ![t[1]] = s]
    <3>1. displayed[t[1]] <= faults
      BY <2>2, <2>6 DEF ActsInv
    <3>2. \A u \in TaskIds : Running(u)' /\ task'[u].pc # "ok" => displayed[u[1]] <= faults
      BY <2>2, <3>1 DEF ActsInv, Running
    <3>3. \A d \in Deliveries : d # t[1] => status'[d] = status[d]
      BY <1>0, <2>6
    <3>4. QED
      BY <2>6, <3>1, <3>2, <3>3, ActsKept
  <2>7. QED
    BY <2>1, <2>3, <2>4, <2>5, <2>6
<1>7. CASE Lose
  <2>1. UNCHANGED <<rowVars, displayed, faults>> /\ \A t \in TaskIds : ~Running(t)'
    BY <1>7, LoseFlow DEF Running, NoTask
  <2>2. QED
    BY <2>1, ActsKept DEF rowVars
<1>8. QED
  BY <1>1, <1>2, <1>4, <1>5, <1>6, <1>7, SubmitFlow, RetryReadFlow, LookupFlow, QuietFlow, NextCases

(* A board accepts the text of a delivery at most once, but for once more for *)
(* each failed database call, whatever tasks, retries and stops interleave;   *)
(* with the proviso on retries (service.py:69-127, 244-266).                  *)
THEOREM DisplayedOnceUnlessRaced == Spec /\ []ResetsApart => []DisplayedOnce
<1>1. Init => TypeInv /\ LifeInv /\ ActsInv
  <2>1. Init => ActsInv
    BY TaskIdParts DEF Init, ActsInv, Running, NoTask
  <2>2. QED
    BY <2>1, LifeInit
<1>2. TypeInv /\ LifeInv /\ ActsInv /\ ResetsApart /\ [Next]_vars
        => (TypeInv /\ LifeInv /\ ActsInv)'
  BY TypeInvStep, LifeStep, ActsStep
<1>3. ActsInv => DisplayedOnce
  BY DEF ActsInv, DisplayedOnce
<1>4. QED
  BY <1>1, <1>2, <1>3, PTL DEF Spec

(* With one operator at a time a board accepts the text of a delivery once,   *)
(* and once more at most for each failed database call.                       *)
THEOREM BoardDisplaysOnce ==
  ASSUME \A c, d \in Operators : c = d
  PROVE  Spec => []DisplayedOnce
BY OneOperator, DisplayedOnceUnlessRaced, PTL
==============================================================================
