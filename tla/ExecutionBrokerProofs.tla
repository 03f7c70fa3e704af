------------------------ MODULE ExecutionBrokerProofs ------------------------
(***************************************************************************)
(* Proofs about ExecutionBroker, for every value of its constants: the     *)
(* type invariant, and the agreement of the two tables and of the audit    *)
(* with what the stations did; that it loses no command while the database *)
(* answers and the process lives; and that, where the races the code       *)
(* leaves open do not happen, an approval has one row, a command follows   *)
(* its lifecycle and the station acts once.                                *)
(***************************************************************************)
EXTENDS ExecutionBroker, SequenceTheorems, TLAPS

------------------------------------------------------------------------------
(* Records. *)

(* A command built from its two fields is a command. *)
LEMMA CommandIntro ==
  ASSUME NEW e \in Execs, NEW b \in BOOLEAN
  PROVE  [exec |-> e, barricades |-> b] \in Command
BY DEF Command

(* The worker, when it is not idle, holds a command and an attempt number. *)
BusyWorker == [pc : WorkerPc, cmd : Command, attempt : 1..MaxAttempts]

(* Moving a busy worker to another place of the code keeps it a busy worker. *)
LEMMA GoToType ==
  ASSUME worker \in BusyWorker, NEW l \in WorkerPc, GoTo(l)
  PROVE  /\ worker' \in BusyWorker
         /\ worker'.cmd = worker.cmd
         /\ worker'.attempt = worker.attempt
         /\ worker'.pc = l
BY DEF BusyWorker, GoTo

(* Outside its idle state the worker is a BusyWorker. *)
LEMMA BusyWorkerType ==
  ASSUME TypeOK, worker.pc # "idle"
  PROVE  /\ worker \in BusyWorker
         /\ Exec \in Execs
         /\ worker.attempt \in 1..MaxAttempts
BY DEF TypeOK, BusyWorker, IdleWorker, Exec, Command

------------------------------------------------------------------------------
(* The type invariant, part by part. *)

(* update_queue_status keeps the types of the rows. *)
LEMMA UpdateRowType ==
  ASSUME TypeOK, NEW e \in Execs, NEW s \in Status, NEW n \in 0..MaxAttempts,
         UpdateRow(e, s, n)
  PROVE  /\ status' \in [Execs -> Status]
         /\ key' \in [Execs -> Key \cup {NoKey}]
         /\ attempts' \in [Execs -> 0..MaxAttempts]
<1>1. status' \in [Execs -> Status]
  BY DEF TypeOK, UpdateRow
<1>2. attempts' \in [Execs -> 0..MaxAttempts]
  BY DEF TypeOK, UpdateRow
<1>3. key' \in [Execs -> Key \cup {NoKey}]
  BY DEF TypeOK, UpdateRow
<1>4. QED
  BY <1>1, <1>2, <1>3

(* create_queue_row keeps the types of the rows. *)
LEMMA CreateRowType ==
  ASSUME TypeOK, NEW e \in Execs, NEW k \in Key \cup {NoKey}, CreateRow(e, k)
  PROVE  /\ status' \in [Execs -> Status]
         /\ key' \in [Execs -> Key \cup {NoKey}]
         /\ attempts' \in [Execs -> 0..MaxAttempts]
<1>1. status' \in [Execs -> Status]
  BY DEF TypeOK, CreateRow, Status, Unsettled
<1>2. attempts' \in [Execs -> 0..MaxAttempts]
  BY BrokerAssumption DEF TypeOK, CreateRow
<1>3. key' \in [Execs -> Key \cup {NoKey}]
  BY DEF TypeOK, CreateRow
<1>4. QED
  BY <1>1, <1>2, <1>3

(* append_audit adds one to one counter of one command. *)
LEMMA AppendAuditType ==
  ASSUME TypeOK, NEW e \in Execs, NEW o \in Outcome, AppendAudit(e, o)
  PROVE  /\ audit' \in [Execs -> [Outcome -> Nat]]
         /\ \A f \in Execs, p \in Outcome :
              audit'[f][p] = IF f = e /\ p = o THEN audit[f][p] + 1 ELSE audit[f][p]
<1> DEFINE row == [audit[e] EXCEPT ![o] = @ + 1]
<1>1. audit \in [Execs -> [Outcome -> Nat]]
  BY DEF TypeOK
<1>2. audit[e] \in [Outcome -> Nat]
  BY <1>1
<1>3. row \in [Outcome -> Nat] /\ \A p \in Outcome :
        row[p] = IF p = o THEN audit[e][p] + 1 ELSE audit[e][p]
  BY <1>2
<1>4. audit' = [audit EXCEPT ![e] = row]
  BY DEF AppendAudit
<1> HIDE DEF row
<1>5. audit' \in [Execs -> [Outcome -> Nat]]
  BY <1>1, <1>3, <1>4
<1>6. \A f \in Execs : audit'[f] = IF f = e THEN row ELSE audit[f]
  BY <1>1, <1>4
<1>7. \A f \in Execs, p \in Outcome :
        audit'[f][p] = IF f = e /\ p = o THEN audit[f][p] + 1 ELSE audit[f][p]
  BY <1>3, <1>6
<1>8. QED
  BY <1>5, <1>7

(* The three variables of the requests. *)
ClientTypes ==
  /\ pc \in [Clients -> ClientPc]
  /\ req \in [Clients -> [key : Key \cup {NoKey}, exec : Execs \cup {NoExec}]]
  /\ cmds \in [Clients -> Seq(Command)]

LEMMA ReturnType ==
  ASSUME ClientTypes, NEW c \in Clients, Return(c)
  PROVE  ClientTypes'
<1>1. NoRequest \in [key : Key \cup {NoKey}, exec : Execs \cup {NoExec}]
  BY DEF NoRequest
<1>2. req' \in [Clients -> [key : Key \cup {NoKey}, exec : Execs \cup {NoExec}]]
  BY <1>1 DEF ClientTypes, Return
<1>3. pc' \in [Clients -> ClientPc]
  BY DEF ClientTypes, Return, ClientPc
<1>4. <<>> \in Seq(Command)
  OBVIOUS
<1>5. cmds' \in [Clients -> Seq(Command)]
  BY <1>4 DEF ClientTypes, Return
<1>6. QED
  BY <1>2, <1>3, <1>5 DEF ClientTypes

(* Setting one field of a request's locals. *)
LEMMA SetKeyType ==
  ASSUME ClientTypes, NEW c \in Clients, NEW k \in Key \cup {NoKey},
         req' = [req EXCEPT ![c].key = k]
  PROVE  /\ req' \in [Clients -> [key : Key \cup {NoKey}, exec : Execs \cup {NoExec}]]
         /\ req'[c].key = k
         /\ \A d \in Clients : req'[d].exec = req[d].exec
         /\ \A d \in Clients : d # c => req'[d] = req[d]
<1> DEFINE R == [key : Key \cup {NoKey}, exec : Execs \cup {NoExec}]
           r == [req[c] EXCEPT !.key = k]
<1>1. req \in [Clients -> R]
  BY DEF ClientTypes
<1>2. req[c] \in R
  BY <1>1
<1>3. r \in R /\ r.key = k /\ r.exec = req[c].exec
  BY <1>2
<1>4. req' = [req EXCEPT ![c] = r]
  OBVIOUS
<1> HIDE DEF r
<1>5. QED
  BY <1>1, <1>3, <1>4

LEMMA SetExecType ==
  ASSUME ClientTypes, NEW c \in Clients, NEW e \in Execs,
         req' = [req EXCEPT ![c].exec = e]
  PROVE  /\ req' \in [Clients -> [key : Key \cup {NoKey}, exec : Execs \cup {NoExec}]]
         /\ req'[c].exec = e
         /\ \A d \in Clients : req'[d].key = req[d].key
         /\ \A d \in Clients : d # c => req'[d] = req[d]
<1> DEFINE R == [key : Key \cup {NoKey}, exec : Execs \cup {NoExec}]
           r == [req[c] EXCEPT !.exec = e]
<1>1. req \in [Clients -> R]
  BY DEF ClientTypes
<1>2. req[c] \in R
  BY <1>1
<1>3. r \in R /\ r.exec = e /\ r.key = req[c].key
  BY <1>2
<1>4. req' = [req EXCEPT ![c] = r]
  OBVIOUS
<1> HIDE DEF r
<1>5. QED
  BY <1>1, <1>3, <1>4

------------------------------------------------------------------------------
(* What the type invariant needs to be inductive. *)

(* A request that is about to reset a row knows which one. *)
ClientInv ==
  /\ ClientTypes
  /\ \A c \in Clients : pc[c] = "reset" => req[c].exec \in Execs

(* The worker only waits for another attempt while it has one left. *)
WorkerInv ==
  /\ worker \in BusyWorker \cup {IdleWorker}
  /\ worker.pc = "backoff" => ~IsFinal

RowTypes ==
  /\ status \in [Execs -> Status]
  /\ key \in [Execs -> Key \cup {NoKey}]
  /\ attempts \in [Execs -> 0..MaxAttempts]

TypeInv == TypeOK /\ ClientInv /\ WorkerInv

(* What a step has to re-establish, part by part, to keep TypeInv. *)
LEMMA TypeInvParts ==
  ASSUME RowTypes', ClientInv', WorkerInv',
         audit' \in [Execs -> [Outcome -> Nat]],
         effects' \in [Execs -> Nat],
         queue' \in Seq(Command), Len(queue') <= QueueCap,
         gate' \in {"open", "closed"},
         phase' \in {"up", "stopping", "down"},
         retries' \in Nat, faults' \in Nat, losses' \in Nat
  PROVE  TypeInv'
BY DEF TypeInv, TypeOK, RowTypes, ClientInv, ClientTypes, WorkerInv, BusyWorker

(* The types a step may start from. *)
LEMMA Types ==
  ASSUME TypeInv
  PROVE  /\ audit \in [Execs -> [Outcome -> Nat]]
         /\ effects \in [Execs -> Nat]
         /\ queue \in Seq(Command) /\ Len(queue) <= QueueCap
         /\ gate \in {"open", "closed"}
         /\ phase \in {"up", "stopping", "down"}
         /\ retries \in Nat /\ faults \in Nat /\ losses \in Nat
BY DEF TypeInv, TypeOK

(* Ending a request keeps the invariant of the requests. *)
LEMMA ReturnInv ==
  ASSUME ClientInv, NEW c \in Clients, Return(c)
  PROVE  ClientInv'
<1>1. ClientTypes'
  BY ReturnType DEF ClientInv
<1>2. \A d \in Clients : pc'[d] = "reset" => pc[d] = "reset" /\ req'[d] = req[d]
  BY DEF ClientInv, ClientTypes, Return
<1>3. QED
  BY <1>1, <1>2 DEF ClientInv

(* Going on with the next command of a request keeps it too. *)
LEMMA NextCommandInv ==
  ASSUME ClientInv, NEW c \in Clients, NEW todo \in Seq(Command), NextCommand(c, todo)
  PROVE  ClientInv'
<1> DEFINE token == req[c].key[1]
           more == req[c].key[2] = "dispatch" /\ token \in BarricadeTokens
<1> USE DEF ClientInv
<1>1. CASE more /\ pc' = [pc EXCEPT ![c] = "lookup"]
                /\ req' = [req EXCEPT ![c].key = <<token, "barricade">>]
                /\ cmds' = [cmds EXCEPT ![c] = todo]
  <2>1. <<token, "barricade">> \in Key
    BY <1>1, BrokerAssumption DEF Key, CommandType
  <2>2. /\ req' \in [Clients -> [key : Key \cup {NoKey}, exec : Execs \cup {NoExec}]]
        /\ \A d \in Clients : d # c => req'[d] = req[d]
    BY <1>1, <2>1, SetKeyType
  <2>3. pc' \in [Clients -> ClientPc] /\ pc'[c] = "lookup"
        /\ \A d \in Clients : d # c => pc'[d] = pc[d]
    BY <1>1 DEF ClientTypes, ClientPc
  <2>4. cmds' \in [Clients -> Seq(Command)]
    BY <1>1 DEF ClientTypes
  <2>5. QED
    BY <2>2, <2>3, <2>4 DEF ClientTypes
<1>2. CASE pc' = [pc EXCEPT ![c] = "put"] /\ cmds' = [cmds EXCEPT ![c] = todo]
           /\ UNCHANGED req
  <2>1. pc' \in [Clients -> ClientPc] /\ pc'[c] = "put"
        /\ \A d \in Clients : d # c => pc'[d] = pc[d]
    BY <1>2 DEF ClientTypes, ClientPc
  <2>2. cmds' \in [Clients -> Seq(Command)]
    BY <1>2 DEF ClientTypes
  <2>3. QED
    BY <1>2, <2>1, <2>2 DEF ClientTypes
<1>3. CASE Return(c)
  BY <1>3, ReturnInv
<1>4. QED
  BY <1>1, <1>2, <1>3 DEF NextCommand

(* What does not touch the requests, the worker or the rows keeps their part. *)
LEMMA Kept ==
  ASSUME TypeInv
  PROVE  /\ UNCHANGED clientVars => ClientInv'
         /\ UNCHANGED worker => WorkerInv'
         /\ UNCHANGED rowVars => RowTypes'
         /\ RowTypes /\ ClientInv /\ WorkerInv
<1>1. UNCHANGED clientVars => ClientInv'
  BY DEF TypeInv, ClientInv, ClientTypes, clientVars
<1>2. UNCHANGED worker => WorkerInv'
  BY DEF TypeInv, WorkerInv, IsFinal
<1>3. RowTypes /\ (UNCHANGED rowVars => RowTypes')
  BY DEF TypeInv, TypeOK, RowTypes, rowVars
<1>4. QED
  BY <1>1, <1>2, <1>3 DEF TypeInv

(* The worker, gone idle or moved along in the same attempt. *)
LEMMA WorkerMoves ==
  ASSUME TypeInv
  PROVE  /\ worker' = IdleWorker => WorkerInv'
         /\ \A l \in WorkerPc : worker.pc # "idle" /\ GoTo(l) /\ (l = "backoff" => ~IsFinal)
                                => WorkerInv'
<1>1. ASSUME worker' = IdleWorker PROVE WorkerInv'
  BY <1>1 DEF WorkerInv, IdleWorker
<1>2. ASSUME NEW l \in WorkerPc, worker.pc # "idle", GoTo(l), l = "backoff" => ~IsFinal
      PROVE  WorkerInv'
  <2>1. worker \in BusyWorker
    BY <1>2, BusyWorkerType DEF TypeInv
  <2>2. worker' \in BusyWorker /\ worker'.pc = l /\ worker'.attempt = worker.attempt
    BY <1>2, <2>1, GoToType
  <2>3. QED
    BY <1>2, <2>2 DEF WorkerInv, IsFinal
<1>3. QED
  BY <1>1, <1>2

(* The steps of a request. *)
LEMMA SubmitInv ==
  ASSUME TypeInv, NEW c \in Approvers, NEW t \in Tokens, Submit(c, t)
  PROVE  TypeInv'
<1> c \in Clients
  BY DEF Clients
<1>1. ClientInv'
  <2> USE DEF TypeInv, ClientInv
  <2>1. <<t, "dispatch">> \in Key
    BY DEF Key, CommandType
  <2>2. /\ req' \in [Clients -> [key : Key \cup {NoKey}, exec : Execs \cup {NoExec}]]
        /\ \A d \in Clients : d # c => req'[d] = req[d]
    BY <2>1, SetKeyType DEF Submit
  <2>3. pc' \in [Clients -> ClientPc] /\ pc'[c] = "lookup"
        /\ \A d \in Clients : d # c => pc'[d] = pc[d]
    BY DEF Submit, ClientTypes, ClientPc
  <2>4. cmds' \in [Clients -> Seq(Command)]
    BY DEF Submit, ClientTypes
  <2>5. QED
    BY <2>2, <2>3, <2>4 DEF ClientTypes
<1>2. RowTypes' /\ WorkerInv'
  BY Kept DEF Submit, dbVars
<1>3. UNCHANGED <<audit, effects, queue, gate, phase, retries, faults, losses>>
  BY DEF Submit, dbVars, countVars
<1>4. QED
  BY <1>1, <1>2, <1>3, Types, TypeInvParts

LEMMA LookupInv ==
  ASSUME TypeInv, NEW c \in Clients, Lookup(c)
  PROVE  TypeInv'
<1>1. ClientInv'
  <2>1. CASE NextCommand(c, cmds[c])
    <3>1. cmds[c] \in Seq(Command)
      BY DEF TypeInv, ClientInv, ClientTypes
    <3>2. QED
      BY <2>1, <3>1, NextCommandInv DEF TypeInv
  <2>2. CASE pc' = [pc EXCEPT ![c] = "insert"] /\ UNCHANGED <<req, cmds>>
    BY <2>2 DEF TypeInv, ClientInv, ClientTypes, ClientPc
  <2>3. QED
    BY <2>1, <2>2 DEF Lookup
<1>2. RowTypes' /\ WorkerInv'
  BY Kept DEF Lookup, dbVars
<1>3. UNCHANGED <<audit, effects, queue, gate, phase, retries, faults, losses>>
  BY DEF Lookup, dbVars, countVars
<1>4. QED
  BY <1>1, <1>2, <1>3, Types, TypeInvParts

LEMMA InsertInv ==
  ASSUME TypeInv, NEW c \in Clients, Insert(c)
  PROVE  TypeInv'
<1> DEFINE k == req[c].key
           b == k[1] \in BarricadeTokens
<1>1. PICK e \in Execs :
        CreateRow(e, k) /\ NextCommand(c, Append(cmds[c], [exec |-> e, barricades |-> b]))
  BY DEF Insert
<1>2. k \in Key \cup {NoKey} /\ cmds[c] \in Seq(Command)
  BY DEF TypeInv, ClientInv, ClientTypes
<1>3. RowTypes'
  BY <1>1, <1>2, CreateRowType DEF TypeInv, RowTypes
<1>4. ClientInv'
  <2>1. [exec |-> e, barricades |-> b] \in Command
    <3>1. b \in BOOLEAN
      OBVIOUS
    <3> HIDE DEF b
    <3>2. QED
      BY <3>1, CommandIntro
  <2>2. Append(cmds[c], [exec |-> e, barricades |-> b]) \in Seq(Command)
    BY <1>2, <2>1, AppendProperties
  <2>3. QED
    BY <1>1, <2>2, NextCommandInv DEF TypeInv
<1>5. WorkerInv'
  BY Kept DEF Insert
<1>6. UNCHANGED <<audit, effects, queue, gate, phase, retries, faults, losses>>
  BY DEF Insert, countVars
<1>7. QED
  BY <1>3, <1>4, <1>5, <1>6, Types, TypeInvParts

LEMMA EnqueueFaultInv ==
  ASSUME TypeInv, NEW c \in Clients, EnqueueFault(c)
  PROVE  TypeInv'
<1>1. ClientInv'
  BY ReturnInv DEF TypeInv, EnqueueFault
<1>2. RowTypes'
  <2>1. CASE UNCHANGED rowVars
    BY <2>1, Kept
  <2>2. CASE \E e \in Execs : CreateRow(e, req[c].key)
    <3>1. req[c].key \in Key \cup {NoKey}
      BY DEF TypeInv, ClientInv, ClientTypes
    <3>2. QED
      BY <2>2, <3>1, CreateRowType DEF TypeInv, RowTypes
  <2>3. QED
    BY <2>1, <2>2 DEF EnqueueFault
<1>3. WorkerInv'
  BY Kept DEF EnqueueFault
<1>4. UNCHANGED <<audit, effects, queue, gate, phase, retries, losses>> /\ faults' = faults + 1
  BY DEF EnqueueFault, Raise
<1>5. QED
  BY <1>1, <1>2, <1>3, <1>4, Types, TypeInvParts

(* What Put moves into the queue fits. *)
LEMMA PutInv ==
  ASSUME TypeInv, NEW c \in Clients, Put(c)
  PROVE  TypeInv'
<1> DEFINE room == QueueCap - Len(queue)
           todo == cmds[c]
<1>1. /\ room \in Nat /\ room > 0 /\ QueueCap \in Nat
      /\ todo \in Seq(Command) /\ Len(todo) \in Nat
      /\ queue \in Seq(Command) /\ Len(queue) \in Nat /\ Len(queue) + room = QueueCap
  <2>1. todo \in Seq(Command) /\ Len(todo) \in Nat
    BY LenProperties DEF TypeInv, ClientInv, ClientTypes
  <2>2. queue \in Seq(Command) /\ Len(queue) \in Nat
    BY Types, LenProperties
  <2>3. QED
    BY <2>1, <2>2, BrokerAssumption DEF Put
<1>2. queue' \in Seq(Command) /\ Len(queue') <= QueueCap /\ ClientInv'
  <2>1. CASE Len(todo) <= room /\ queue' = queue \o todo /\ Return(c)
    <3>1. queue' \in Seq(Command) /\ Len(queue') = Len(queue) + Len(todo)
      BY <1>1, <2>1, ConcatProperties
    <3>2. ClientInv'
      BY <2>1, ReturnInv DEF TypeInv
    <3>3. QED
      BY <1>1, <2>1, <3>1, <3>2
  <2>2. CASE /\ Len(todo) > room
             /\ queue' = queue \o SubSeq(todo, 1, room)
             /\ cmds' = [cmds EXCEPT ![c] = SubSeq(todo, room + 1, Len(todo))]
             /\ UNCHANGED <<pc, req>>
    <3>1. SubSeq(todo, 1, room) \in Seq(Command) /\ Len(SubSeq(todo, 1, room)) = room
      BY <1>1, <2>2, SubSeqProperties
    <3>2. SubSeq(todo, room + 1, Len(todo)) \in Seq(Command)
      BY <1>1, <2>2, SubSeqProperties
    <3>3. queue' \in Seq(Command) /\ Len(queue') = Len(queue) + room
      BY <1>1, <2>2, <3>1, ConcatProperties
    <3>4. ClientInv'
      BY <2>2, <3>2 DEF TypeInv, ClientInv, ClientTypes
    <3>5. QED
      BY <1>1, <3>3, <3>4
  <2>3. QED
    BY <2>1, <2>2 DEF Put
<1>3. RowTypes' /\ WorkerInv'
  BY Kept DEF Put, dbVars
<1>4. UNCHANGED <<audit, effects, gate, phase, retries, faults, losses>>
  BY DEF Put, dbVars, countVars
<1>5. QED
  BY <1>2, <1>3, <1>4, Types, TypeInvParts

LEMMA RetryReadInv ==
  ASSUME TypeInv, NEW c \in Operators, NEW e \in Execs, RetryRead(c, e)
  PROVE  TypeInv'
<1> c \in Clients
  BY DEF Clients
<1>1. ClientInv'
  <2> USE DEF TypeInv, ClientInv
  <2>1. /\ req' \in [Clients -> [key : Key \cup {NoKey}, exec : Execs \cup {NoExec}]]
        /\ req'[c].exec = e
        /\ \A d \in Clients : d # c => req'[d] = req[d]
    BY SetExecType DEF RetryRead
  <2>2. pc' \in [Clients -> ClientPc] /\ \A d \in Clients : d # c => pc'[d] = pc[d]
    BY DEF RetryRead, ClientTypes, ClientPc
  <2>3. cmds' \in [Clients -> Seq(Command)]
    BY DEF RetryRead, ClientTypes
  <2>4. QED
    BY <2>1, <2>2, <2>3 DEF ClientTypes
<1>2. RowTypes' /\ WorkerInv'
  BY Kept DEF RetryRead, dbVars
<1>3. UNCHANGED <<audit, effects, queue, gate, phase, faults, losses>> /\ retries' = retries + 1
  BY DEF RetryRead, dbVars
<1>4. QED
  BY <1>1, <1>2, <1>3, Types, TypeInvParts

LEMMA RetryResetInv ==
  ASSUME TypeInv, NEW c \in Clients, RetryReset(c)
  PROVE  TypeInv'
<1> DEFINE e == req[c].exec
<1>1. e \in Execs
  BY DEF RetryReset, TypeInv, ClientInv
<1>2. RowTypes'
  BY <1>1, UpdateRowType, BrokerAssumption DEF TypeInv, RowTypes, RetryReset, Status, Unsettled
<1>3. ClientInv'
  <2> USE DEF TypeInv, ClientInv
  <2> DEFINE retried == [exec |-> e, barricades |-> FALSE]
  <2>1. <<retried>> \in Seq(Command)
    <3>1. retried \in Command
      BY <1>1, CommandIntro
    <3> HIDE DEF retried
    <3>2. QED
      BY <3>1
  <2>2. cmds' \in [Clients -> Seq(Command)]
    BY <2>1 DEF RetryReset, ClientTypes
  <2>3. pc' \in [Clients -> ClientPc] /\ pc'[c] = "put"
        /\ \A d \in Clients : d # c => pc'[d] = pc[d]
    BY DEF RetryReset, ClientTypes, ClientPc
  <2>4. QED
    BY <2>2, <2>3 DEF RetryReset, ClientTypes
<1>4. WorkerInv'
  BY Kept DEF RetryReset
<1>5. UNCHANGED <<audit, effects, queue, gate, phase, retries, faults, losses>>
  BY DEF RetryReset, countVars
<1>6. QED
  BY <1>2, <1>3, <1>4, <1>5, Types, TypeInvParts

LEMMA RetryFaultInv ==
  ASSUME TypeInv, NEW c \in Clients, RetryFault(c)
  PROVE  TypeInv'
<1>1. ClientInv'
  BY ReturnInv DEF TypeInv, RetryFault
<1>2. RowTypes' /\ WorkerInv'
  BY Kept DEF RetryFault, dbVars
<1>3. UNCHANGED <<audit, effects, queue, gate, phase, retries, losses>> /\ faults' = faults + 1
  BY DEF RetryFault, dbVars, Raise
<1>4. QED
  BY <1>1, <1>2, <1>3, Types, TypeInvParts

(* The steps of the worker. *)
LEMMA TakeInv ==
  ASSUME TypeInv, Take
  PROVE  TypeInv'
<1>1. queue \in Seq(Command) /\ queue # <<>>
  BY Types DEF Take
<1>2. /\ Head(queue) \in Command
      /\ Tail(queue) \in Seq(Command)
      /\ Len(Tail(queue)) = Len(queue) - 1
  BY <1>1, HeadTailProperties
<1>3. queue' \in Seq(Command) /\ Len(queue') <= QueueCap
  <2>1. Len(queue) \in Nat /\ Len(queue) <= QueueCap /\ QueueCap \in Nat
    BY <1>1, Types, LenProperties, BrokerAssumption
  <2>2. QED
    BY <1>2, <2>1 DEF Take
<1>4. WorkerInv'
  <2>1. 1 \in 1..MaxAttempts
    BY BrokerAssumption
  <2>2. QED
    BY <1>2, <2>1 DEF Take, WorkerInv, BusyWorker, WorkerPc
<1>5. RowTypes' /\ ClientInv'
  BY Kept DEF Take, dbVars
<1>6. UNCHANGED <<audit, effects, gate, phase, retries, faults, losses>>
  BY DEF Take, dbVars, countVars
<1>7. QED
  BY <1>3, <1>4, <1>5, <1>6, Types, TypeInvParts

LEMMA MarkProcessingInv ==
  ASSUME TypeInv, MarkProcessing
  PROVE  TypeInv'
<1>1. Exec \in Execs /\ worker.attempt \in 0..MaxAttempts
  BY BusyWorkerType, BrokerAssumption DEF TypeInv, MarkProcessing
<1>2. RowTypes'
  BY <1>1, UpdateRowType DEF TypeInv, RowTypes, MarkProcessing, Status, Unsettled
<1>3. WorkerInv' /\ ClientInv'
  BY WorkerMoves, Kept DEF MarkProcessing, WorkerPc
<1>4. UNCHANGED <<audit, effects, queue, gate, phase, retries, faults, losses>>
  BY DEF MarkProcessing, countVars
<1>5. QED
  BY <1>2, <1>3, <1>4, Types, TypeInvParts

LEMMA StationAnswersInv ==
  ASSUME TypeInv, StationAnswers
  PROVE  TypeInv'
<1>1. Exec \in Execs
  BY BusyWorkerType DEF TypeInv, StationAnswers
<1>2. effects' \in [Execs -> Nat]
  <2>1. effects[Exec] + 1 \in Nat
    BY <1>1, Types
  <2>2. effects' = effects \/ effects' = [effects EXCEPT ![Exec] = effects[Exec] + 1]
    BY DEF StationAnswers
  <2>3. QED
    BY <2>1, <2>2, Types
<1>3. WorkerInv' /\ ClientInv' /\ RowTypes'
  BY WorkerMoves, Kept DEF StationAnswers, WorkerPc, dbVars
<1>4. UNCHANGED <<audit, queue, gate, phase, retries, faults, losses>>
  BY DEF StationAnswers, dbVars, countVars
<1>5. QED
  BY <1>2, <1>3, <1>4, Types, TypeInvParts

LEMMA RecordAckInv ==
  ASSUME TypeInv, RecordAck
  PROVE  TypeInv'
<1>1. Exec \in Execs
  BY BusyWorkerType DEF TypeInv, RecordAck
<1>2. audit' \in [Execs -> [Outcome -> Nat]]
  BY <1>1, AppendAuditType DEF TypeInv, RecordAck, Outcome
<1>3. WorkerInv' /\ ClientInv' /\ RowTypes'
  BY WorkerMoves, Kept DEF RecordAck, WorkerPc
<1>4. UNCHANGED <<effects, queue, gate, phase, retries, faults, losses>>
  BY DEF RecordAck, countVars
<1>5. QED
  BY <1>2, <1>3, <1>4, Types, TypeInvParts

LEMMA MarkAcknowledgedInv ==
  ASSUME TypeInv, MarkAcknowledged
  PROVE  TypeInv'
<1>1. Exec \in Execs /\ worker.attempt \in 0..MaxAttempts
  BY BusyWorkerType, BrokerAssumption DEF TypeInv, MarkAcknowledged
<1>2. RowTypes'
  BY <1>1, UpdateRowType DEF TypeInv, RowTypes, MarkAcknowledged, Status, Settled
<1>3. WorkerInv' /\ ClientInv'
  BY WorkerMoves, Kept DEF MarkAcknowledged
<1>4. UNCHANGED <<audit, effects, queue, gate, phase, retries, faults, losses>>
  BY DEF MarkAcknowledged, countVars
<1>5. QED
  BY <1>2, <1>3, <1>4, Types, TypeInvParts

LEMMA RecordFailureInv ==
  ASSUME TypeInv, RecordFailure
  PROVE  TypeInv'
<1>1. Exec \in Execs /\ FailureOutcome \in Outcome
  BY BusyWorkerType DEF TypeInv, RecordFailure, FailureOutcome, Outcome
<1>2. audit' \in [Execs -> [Outcome -> Nat]]
  BY <1>1, AppendAuditType DEF TypeInv, RecordFailure
<1>3. WorkerInv'
  <2> DEFINE l == IF worker.pc = "fail_audit" THEN "fail_row"
                  ELSE IF IsFinal THEN "exc_row" ELSE "backoff"
  <2>1. l \in WorkerPc /\ (l = "backoff" => ~IsFinal) /\ GoTo(l) /\ worker.pc # "idle"
    BY DEF RecordFailure, WorkerPc
  <2> HIDE DEF l
  <2>2. QED
    BY <2>1, WorkerMoves
<1>4. ClientInv' /\ RowTypes'
  BY Kept DEF RecordFailure
<1>5. UNCHANGED <<effects, queue, gate, phase, retries, faults, losses>>
  BY DEF RecordFailure, countVars
<1>6. QED
  BY <1>2, <1>3, <1>4, <1>5, Types, TypeInvParts

LEMMA MarkRetryingInv ==
  ASSUME TypeInv, MarkRetrying
  PROVE  TypeInv'
<1>1. Exec \in Execs /\ worker.attempt \in 0..MaxAttempts
  BY BusyWorkerType, BrokerAssumption DEF TypeInv, MarkRetrying
<1>2. RowTypes'
  BY <1>1, UpdateRowType DEF TypeInv, RowTypes, MarkRetrying, Status, Unsettled
<1>3. WorkerInv' /\ ClientInv'
  BY WorkerMoves, Kept DEF MarkRetrying, WorkerPc
<1>4. UNCHANGED <<audit, effects, queue, gate, phase, retries, faults, losses>>
  BY DEF MarkRetrying, countVars
<1>5. QED
  BY <1>2, <1>3, <1>4, Types, TypeInvParts

LEMMA MarkDeadLetterInv ==
  ASSUME TypeInv, MarkDeadLetter
  PROVE  TypeInv'
<1>1. Exec \in Execs /\ worker.attempt \in 0..MaxAttempts
  BY BusyWorkerType, BrokerAssumption DEF TypeInv, MarkDeadLetter
<1>2. RowTypes'
  BY <1>1, UpdateRowType DEF TypeInv, RowTypes, MarkDeadLetter, Status, Settled
<1>3. WorkerInv' /\ ClientInv'
  BY WorkerMoves, Kept DEF MarkDeadLetter
<1>4. UNCHANGED <<audit, effects, queue, gate, phase, retries, faults, losses>>
  BY DEF MarkDeadLetter, countVars
<1>5. QED
  BY <1>2, <1>3, <1>4, Types, TypeInvParts

(* The next attempt is one of the MaxAttempts: the worker had one left. *)
LEMMA NextAttemptInv ==
  ASSUME TypeInv, NextAttempt
  PROVE  TypeInv'
<1>1. WorkerInv'
  <2>1. worker \in BusyWorker
    BY BusyWorkerType DEF TypeInv, NextAttempt
  <2>2. worker.attempt + 1 \in 1..MaxAttempts
    BY <2>1, BrokerAssumption DEF TypeInv, WorkerInv, NextAttempt, IsFinal, BusyWorker
  <2>3. worker' \in BusyWorker /\ worker'.pc = "start"
    BY <2>1, <2>2 DEF NextAttempt, BusyWorker, WorkerPc
  <2>4. QED
    BY <2>3 DEF WorkerInv
<1>2. ClientInv' /\ RowTypes'
  BY Kept DEF NextAttempt, dbVars
<1>3. UNCHANGED <<audit, effects, queue, gate, phase, retries, faults, losses>>
  BY DEF NextAttempt, dbVars, countVars
<1>4. QED
  BY <1>1, <1>2, <1>3, Types, TypeInvParts

LEMMA DropCommandInv ==
  ASSUME TypeInv, DropCommand
  PROVE  TypeInv'
<1>1. Exec \in Execs /\ FailureOutcome \in Outcome
  BY BusyWorkerType DEF TypeInv, DropCommand, FailureOutcome, Outcome
<1>2. audit' \in [Execs -> [Outcome -> Nat]]
  BY <1>1, AppendAuditType, Types DEF TypeInv, DropCommand
<1>3. WorkerInv' /\ ClientInv' /\ RowTypes'
  BY WorkerMoves, Kept DEF DropCommand
<1>4. UNCHANGED <<effects, queue, gate, phase, retries, losses>> /\ faults' = faults + 1
  BY DEF DropCommand, Raise
<1>5. QED
  BY <1>2, <1>3, <1>4, Types, TypeInvParts

LEMMA CatchExceptionInv ==
  ASSUME TypeInv, CatchException
  PROVE  TypeInv'
<1>1. Exec \in Execs /\ FailureOutcome \in Outcome /\ "acknowledged" \in Outcome
  BY BusyWorkerType DEF TypeInv, CatchException, FailureOutcome, Outcome
<1>2. audit' \in [Execs -> [Outcome -> Nat]]
  BY <1>1, AppendAuditType, Types DEF TypeInv, CatchException
<1>3. WorkerInv' /\ ClientInv' /\ RowTypes'
  BY WorkerMoves, Kept DEF CatchException, WorkerPc
<1>4. UNCHANGED <<effects, queue, gate, phase, retries, losses>> /\ faults' = faults + 1
  BY DEF CatchException, Raise
<1>5. QED
  BY <1>2, <1>3, <1>4, Types, TypeInvParts

(* Losing the process leaves the tables, and nothing else. *)
LEMMA LoseInv ==
  ASSUME TypeInv, Lose
  PROVE  TypeInv'
<1>1. ClientInv'
  <2>1. NoRequest \in [key : Key \cup {NoKey}, exec : Execs \cup {NoExec}]
    BY DEF NoRequest
  <2>2. <<>> \in Seq(Command)
    OBVIOUS
  <2>3. pc' \in [Clients -> ClientPc] /\ \A c \in Clients : pc'[c] = "idle"
    BY DEF Lose, ClientPc
  <2>4. /\ req' \in [Clients -> [key : Key \cup {NoKey}, exec : Execs \cup {NoExec}]]
        /\ cmds' \in [Clients -> Seq(Command)]
    BY <2>1, <2>2 DEF Lose
  <2>5. QED
    BY <2>3, <2>4 DEF ClientInv, ClientTypes
<1>2. WorkerInv' /\ RowTypes'
  BY WorkerMoves, Kept DEF Lose, dbVars
<1>3. queue' \in Seq(Command) /\ Len(queue') <= QueueCap
  BY BrokerAssumption DEF Lose
<1>4. UNCHANGED <<audit, effects, gate, retries, faults>> /\ losses' = losses + 1 /\ phase' = "down"
  BY DEF Lose, dbVars
<1>5. QED
  BY <1>1, <1>2, <1>3, <1>4, Types, TypeInvParts

(* The steps of governance and of an orderly process. *)
LEMMA ProcessInv ==
  ASSUME TypeInv, (\E g \in {"open", "closed"} : SetGate(g)) \/ Stop \/ Stopped \/ Start
  PROVE  TypeInv'
<1>1. /\ UNCHANGED <<rowVars, audit, effects, queue, worker, clientVars>>
      /\ UNCHANGED <<retries, faults, losses>>
      /\ gate' \in {"open", "closed"} /\ phase' \in {"up", "stopping", "down"}
  BY Types DEF SetGate, Stop, Stopped, Start, dbVars, countVars
<1>2. QED
  BY <1>1, Kept, Types, TypeInvParts

LEMMA StutterInv ==
  ASSUME TypeInv, UNCHANGED vars
  PROVE  TypeInv'
<1>1. /\ UNCHANGED <<rowVars, audit, effects, queue, worker, clientVars>>
      /\ UNCHANGED <<gate, phase, retries, faults, losses>>
  BY DEF vars, dbVars, countVars
<1>2. QED
  BY <1>1, Kept, Types, TypeInvParts

LEMMA InitInv ==
  ASSUME Init
  PROVE  TypeInv
<1>1. ClientInv
  <2>1. NoRequest \in [key : Key \cup {NoKey}, exec : Execs \cup {NoExec}]
    BY DEF NoRequest
  <2>2. QED
    BY <2>1 DEF Init, ClientInv, ClientTypes, ClientPc
<1>2. WorkerInv
  BY DEF Init, WorkerInv, IdleWorker
<1>3. RowTypes /\ audit \in [Execs -> [Outcome -> Nat]]
  BY BrokerAssumption DEF Init, RowTypes, Status
<1>4. queue \in Seq(Command) /\ Len(queue) <= QueueCap
  BY BrokerAssumption DEF Init
<1>5. QED
  BY <1>1, <1>2, <1>3, <1>4
  DEF Init, TypeInv, TypeOK, RowTypes, ClientInv, ClientTypes, WorkerInv, BusyWorker

LEMMA TypeInvStep ==
  ASSUME TypeInv, [Next]_vars
  PROVE  TypeInv'
<1>1. CASE \E c \in Approvers, t \in Tokens : Submit(c, t)
  BY <1>1, SubmitInv
<1>2. CASE \E c \in Operators, e \in Execs : RetryRead(c, e)
  BY <1>2, RetryReadInv
<1>3. CASE \E c \in Clients : RequestStep(c)
  BY <1>3, LookupInv, InsertInv, PutInv, RetryResetInv DEF RequestStep
<1>4. CASE \E c \in Clients : EnqueueFault(c) \/ RetryFault(c)
  BY <1>4, EnqueueFaultInv, RetryFaultInv
<1>5. CASE WorkerStep
  BY <1>5, TakeInv, MarkProcessingInv, StationAnswersInv, RecordAckInv, MarkAcknowledgedInv,
     RecordFailureInv, MarkRetryingInv, MarkDeadLetterInv, NextAttemptInv DEF WorkerStep
<1>6. CASE DropCommand \/ CatchException
  BY <1>6, DropCommandInv, CatchExceptionInv
<1>7. CASE (\E g \in {"open", "closed"} : SetGate(g)) \/ Stop \/ Stopped \/ Start
  BY <1>7, ProcessInv
<1>8. CASE Lose
  BY <1>8, LoseInv
<1>9. CASE UNCHANGED vars
  BY <1>9, StutterInv
<1>10. QED
  BY <1>1, <1>2, <1>3, <1>4, <1>5, <1>6, <1>7, <1>8, <1>9 DEF Next

(* Every variable has its type in every reachable state: the queue never      *)
(* grows past its bound, no attempt is past the last one, and a busy worker   *)
(* always holds a command (queue.py:49-88, service.py:74-212).                *)
THEOREM TypeInvariant == Spec => []TypeOK
<1>1. Init => TypeInv
  BY InitInv
<1>2. TypeInv /\ [Next]_vars => TypeInv'
  BY TypeInvStep
<1>3. TypeInv => TypeOK
  BY DEF TypeInv
<1>4. QED
  BY <1>1, <1>2, <1>3, PTL DEF Spec

------------------------------------------------------------------------------
(* The rows and the audit agree. *)

(* Between the commit of an audit row and the commit of the status it speaks *)
(* of, the worker stands at one of these places.                             *)
AuditedBeforeRow ==
  /\ worker.pc = "ack_row" => audit[Exec]["acknowledged"] > 0
  /\ worker.pc \in {"fail_row", "exc_row"} /\ IsFinal => audit[Exec]["dead_letter"] > 0

AuditInv == SettledRowsAreAudited /\ AuditedBeforeRow

(* A row is created or moved to a status that is not settled. *)
LEMMA UnsettledRow ==
  ASSUME TypeInv, SettledRowsAreAudited, UNCHANGED audit,
         NEW e \in Execs, NEW s \in Status \ Settled,
         status' = [status EXCEPT ![e] = s]
  PROVE  SettledRowsAreAudited'
BY DEF TypeInv, TypeOK, SettledRowsAreAudited

(* Audit rows are only added. *)
LEMMA GrowingAudit ==
  ASSUME TypeInv, SettledRowsAreAudited, UNCHANGED status,
         NEW e \in Execs, NEW o \in Outcome, AppendAudit(e, o)
  PROVE  SettledRowsAreAudited'
<1>1. \A f \in Execs, p \in Outcome : audit'[f][p] \in Nat /\ audit'[f][p] >= audit[f][p]
                                      /\ audit[f][p] \in Nat
  BY AppendAuditType, Types DEF TypeInv
<1>2. Settled \subseteq Outcome
  BY DEF Settled, Outcome
<1>3. QED
  BY <1>1, <1>2 DEF SettledRowsAreAudited

LEMMA AuditInvStep ==
  ASSUME TypeInv, AuditInv, [Next]_vars
  PROVE  AuditInv'
<1> USE DEF AuditInv
<1> DEFINE quiet == UNCHANGED <<status, audit>> => SettledRowsAreAudited'
           still == UNCHANGED <<worker, audit>> => AuditedBeforeRow'
<1>a. quiet /\ still
  BY DEF SettledRowsAreAudited, AuditedBeforeRow, Exec, IsFinal
<1>b. ASSUME worker'.pc \notin {"ack_row", "fail_row", "exc_row"} PROVE AuditedBeforeRow'
  BY <1>b DEF AuditedBeforeRow
<1>c. ASSUME worker' = IdleWorker PROVE AuditedBeforeRow'
  BY <1>c, <1>b DEF IdleWorker
<1>d. ASSUME worker.pc # "idle", NEW l \in WorkerPc, GoTo(l)
      PROVE  Exec' = Exec /\ (IsFinal' <=> IsFinal) /\ worker'.pc = l
  BY <1>d, BusyWorkerType, GoToType DEF TypeInv, Exec, IsFinal
<1>e. "pending" \in Status \ Settled /\ "processing" \in Status \ Settled
      /\ "retrying" \in Status \ Settled
  BY DEF Status, Settled, Unsettled
<1> HIDE DEF quiet, still
<1>1. CASE \E c \in Approvers, t \in Tokens : Submit(c, t)
  BY <1>1, <1>a DEF Submit, dbVars, rowVars, quiet, still
<1>2. CASE \E c \in Operators, e \in Execs : RetryRead(c, e)
  BY <1>2, <1>a DEF RetryRead, dbVars, rowVars, quiet, still
<1>3. ASSUME NEW c \in Clients, Lookup(c) \/ Put(c) \/ RetryFault(c)
      PROVE  AuditInv'
  BY <1>3, <1>a DEF Lookup, Put, RetryFault, dbVars, rowVars, quiet, still
<1>4. ASSUME NEW c \in Clients, Insert(c) PROVE AuditInv'
  BY <1>4, <1>a, <1>e, UnsettledRow DEF Insert, CreateRow, still
<1>5. ASSUME NEW c \in Clients, EnqueueFault(c) PROVE AuditInv'
  BY <1>5, <1>a, <1>e, UnsettledRow DEF EnqueueFault, CreateRow, rowVars, quiet, still
<1>6. ASSUME NEW c \in Clients, RetryReset(c) PROVE AuditInv'
  <2>1. req[c].exec \in Execs
    BY <1>6 DEF RetryReset, TypeInv, ClientInv
  <2>2. QED
    BY <1>6, <2>1, <1>a, <1>e, UnsettledRow DEF RetryReset, UpdateRow, still
<1>7. CASE Take
  BY <1>7, <1>a, <1>b DEF Take, dbVars, rowVars, quiet
<1>8. CASE MarkProcessing
  <2>1. Exec \in Execs /\ worker'.pc = "call"
    BY <1>8, <1>d, BusyWorkerType DEF MarkProcessing, TypeInv, WorkerPc
  <2>2. QED
    BY <1>8, <2>1, <1>b, <1>e, UnsettledRow DEF MarkProcessing, UpdateRow
<1>9. CASE StationAnswers
  <2>1. worker'.pc \in {"ack_audit", "fail_audit"}
    BY <1>9, <1>d DEF StationAnswers, WorkerPc
  <2>2. QED
    BY <1>9, <2>1, <1>a, <1>b DEF StationAnswers, dbVars, rowVars, quiet
<1>10. CASE RecordAck
  <2>1. Exec \in Execs /\ Exec' = Exec /\ worker'.pc = "ack_row"
    BY <1>10, <1>d, BusyWorkerType DEF RecordAck, TypeInv, WorkerPc
  <2>2. "acknowledged" \in Outcome
    BY DEF Outcome
  <2>3. audit'[Exec]["acknowledged"] = audit[Exec]["acknowledged"] + 1
        /\ audit[Exec]["acknowledged"] \in Nat
    BY <1>10, <2>1, <2>2, AppendAuditType, Types DEF RecordAck, TypeInv
  <2>4. SettledRowsAreAudited'
    BY <1>10, <2>1, <2>2, GrowingAudit DEF RecordAck, rowVars
  <2>5. QED
    BY <2>1, <2>3, <2>4 DEF AuditedBeforeRow
<1>11. CASE MarkAcknowledged
  <2>1. Exec \in Execs /\ audit[Exec]["acknowledged"] > 0
    BY <1>11, BusyWorkerType DEF MarkAcknowledged, TypeInv, AuditedBeforeRow
  <2>2. SettledRowsAreAudited'
    BY <1>11, <2>1 DEF MarkAcknowledged, UpdateRow, SettledRowsAreAudited, TypeInv, TypeOK
  <2>3. QED
    BY <1>11, <2>2, <1>c DEF MarkAcknowledged
<1>12. CASE RecordFailure
  <2> DEFINE l == IF worker.pc = "fail_audit" THEN "fail_row"
                  ELSE IF IsFinal THEN "exc_row" ELSE "backoff"
  <2>1. l \in {"fail_row", "exc_row", "backoff"} /\ GoTo(l)
    BY <1>12 DEF RecordFailure
  <2> HIDE DEF l
  <2>2. Exec \in Execs /\ Exec' = Exec /\ (IsFinal' <=> IsFinal) /\ worker'.pc = l
    BY <1>12, <2>1, <1>d, BusyWorkerType DEF RecordFailure, TypeInv, WorkerPc
  <2>3. FailureOutcome \in Outcome /\ (IsFinal => FailureOutcome = "dead_letter")
    BY DEF FailureOutcome, Outcome
  <2>4. IsFinal => /\ audit'[Exec]["dead_letter"] = audit[Exec]["dead_letter"] + 1
                   /\ audit[Exec]["dead_letter"] \in Nat
    BY <1>12, <2>2, <2>3, AppendAuditType, Types DEF RecordFailure, TypeInv
  <2>5. SettledRowsAreAudited'
    BY <1>12, <2>2, <2>3, GrowingAudit DEF RecordFailure, rowVars
  <2>6. QED
    BY <2>1, <2>2, <2>4, <2>5 DEF AuditedBeforeRow
<1>13. CASE MarkRetrying
  <2>1. Exec \in Execs /\ worker'.pc = "backoff"
    BY <1>13, <1>d, BusyWorkerType DEF MarkRetrying, TypeInv, WorkerPc
  <2>2. QED
    BY <1>13, <2>1, <1>b, <1>e, UnsettledRow DEF MarkRetrying, UpdateRow
<1>14. CASE MarkDeadLetter
  <2>1. Exec \in Execs /\ audit[Exec]["dead_letter"] > 0
    BY <1>14, BusyWorkerType DEF MarkDeadLetter, TypeInv, AuditedBeforeRow
  <2>2. SettledRowsAreAudited'
    BY <1>14, <2>1 DEF MarkDeadLetter, UpdateRow, SettledRowsAreAudited, TypeInv, TypeOK
  <2>3. QED
    BY <1>14, <2>2, <1>c DEF MarkDeadLetter
<1>15. CASE NextAttempt
  <2>1. worker'.pc = "start"
    BY <1>15, BusyWorkerType DEF NextAttempt, TypeInv, BusyWorker
  <2>2. QED
    BY <1>15, <2>1, <1>a, <1>b DEF NextAttempt, dbVars, rowVars, quiet
<1>16. CASE DropCommand
  <2>1. Exec \in Execs /\ FailureOutcome \in Outcome
    BY <1>16, BusyWorkerType DEF DropCommand, TypeInv, FailureOutcome, Outcome
  <2>2. SettledRowsAreAudited'
    BY <1>16, <2>1, <1>a, GrowingAudit DEF DropCommand, rowVars, quiet
  <2>3. QED
    BY <1>16, <2>2, <1>c DEF DropCommand
<1>17. CASE CatchException
  <2>1. /\ Exec \in Execs /\ FailureOutcome \in Outcome /\ "acknowledged" \in Outcome
        /\ worker'.pc = "exc_audit"
    BY <1>17, <1>d, BusyWorkerType
    DEF CatchException, TypeInv, FailureOutcome, Outcome, WorkerPc
  <2>2. SettledRowsAreAudited'
    BY <1>17, <2>1, <1>a, GrowingAudit DEF CatchException, rowVars, quiet
  <2>3. QED
    BY <2>1, <2>2, <1>b
<1>18. CASE Lose
  BY <1>18, <1>a, <1>c DEF Lose, dbVars, rowVars, quiet
<1>19. CASE (\E g \in {"open", "closed"} : SetGate(g)) \/ Stop \/ Stopped \/ Start
  BY <1>19, <1>a DEF SetGate, Stop, Stopped, Start, dbVars, rowVars, quiet, still
<1>20. CASE UNCHANGED vars
  BY <1>20, <1>a DEF vars, dbVars, rowVars, quiet, still
<1>21. QED
  BY <1>1, <1>2, <1>3, <1>4, <1>5, <1>6, <1>7, <1>8, <1>9, <1>10, <1>11, <1>12, <1>13,
     <1>14, <1>15, <1>16, <1>17, <1>18, <1>19, <1>20 DEF Next, RequestStep, WorkerStep

(* A row says acknowledged or dead_letter only if the audit has a row with    *)
(* that outcome, however commits, failures, retries and losses of the process *)
(* interleave: the audit is committed first (service.py:105-126, 137-167).    *)
THEOREM SettledRowsAudited == Spec => []SettledRowsAreAudited
<1>1. Init => TypeInv /\ AuditInv
  <2>1. Init => SettledRowsAreAudited
    BY DEF Init, SettledRowsAreAudited, Settled
  <2>2. Init => AuditedBeforeRow
    BY DEF Init, AuditedBeforeRow, IdleWorker
  <2>3. QED
    BY <2>1, <2>2, InitInv DEF AuditInv
<1>2. TypeInv /\ AuditInv /\ [Next]_vars => (TypeInv /\ AuditInv)'
  BY TypeInvStep, AuditInvStep
<1>3. AuditInv => SettledRowsAreAudited
  BY DEF AuditInv
<1>4. QED
  BY <1>1, <1>2, <1>3, PTL DEF Spec

------------------------------------------------------------------------------
(* The audit and the stations agree. *)

(* Arithmetic: effects stay covered when what covers them grows and an        *)
(* acknowledgement in flight is lost only to one more fault or loss.          *)
LEMMA StillCovered ==
  ASSUME NEW e \in Nat, NEW a \in Nat, NEW b \in Nat, NEW i \in {0, 1}, NEW j \in {0, 1},
         NEW f \in Nat, NEW g \in Nat, NEW l \in Nat, NEW m \in Nat,
         e <= a + i + f + l, b >= a, g >= f, m >= l,
         j = i \/ i = 0 \/ g + m > f + l
  PROVE  e <= b + j + g + m
OBVIOUS

(* A step that lets the audit and the counters only grow, and loses an        *)
(* acknowledgement in flight only to one more fault or loss.                  *)
LEMMA EffectsKept ==
  ASSUME TypeInv, TypeInv', EffectsAreAudited, UNCHANGED effects,
         \A e \in Execs : audit'[e]["acknowledged"] >= audit[e]["acknowledged"],
         faults' >= faults, losses' >= losses,
         \/ UNCHANGED worker
         \/ worker.pc # "ack_audit"
         \/ faults' + losses' > faults + losses
  PROVE  EffectsAreAudited'
<1> SUFFICES ASSUME NEW e \in Execs
             PROVE  effects'[e] <= audit'[e]["acknowledged"] + InFlight(e)' + faults' + losses'
  BY DEF EffectsAreAudited
<1>1. /\ effects[e] \in Nat /\ audit[e]["acknowledged"] \in Nat
      /\ audit'[e]["acknowledged"] \in Nat
      /\ faults \in Nat /\ losses \in Nat /\ faults' \in Nat /\ losses' \in Nat
  BY DEF TypeInv, TypeOK, Outcome
<1>2. effects[e] <= audit[e]["acknowledged"] + InFlight(e) + faults + losses
  BY DEF EffectsAreAudited
<1>3. /\ InFlight(e) \in {0, 1} /\ InFlight(e)' \in {0, 1}
      /\ UNCHANGED worker => InFlight(e)' = InFlight(e)
      /\ worker.pc # "ack_audit" => InFlight(e) = 0
  BY DEF InFlight, Exec
<1>4. effects'[e] = effects[e] /\ audit'[e]["acknowledged"] >= audit[e]["acknowledged"]
  OBVIOUS
<1>5. \/ InFlight(e)' = InFlight(e)
      \/ InFlight(e) = 0
      \/ faults' + losses' > faults + losses
  BY <1>3
<1>6. effects[e] <= audit'[e]["acknowledged"] + InFlight(e)' + faults' + losses'
  BY <1>1, <1>2, <1>3, <1>4, <1>5, StillCovered
<1>7. QED
  BY <1>4, <1>6

LEMMA EffectsStep ==
  ASSUME TypeInv, TypeInv', EffectsAreAudited, [Next]_vars
  PROVE  EffectsAreAudited'
<1>a. /\ effects \in [Execs -> Nat]
      /\ audit \in [Execs -> [Outcome -> Nat]]
      /\ faults \in Nat /\ losses \in Nat
      /\ \A e \in Execs : audit[e]["acknowledged"] \in Nat
  BY Types DEF Outcome
<1>b. UNCHANGED audit => \A e \in Execs : audit'[e]["acknowledged"] >= audit[e]["acknowledged"]
  BY <1>a
<1>c. ASSUME NEW e \in Execs, NEW o \in Outcome, AppendAudit(e, o)
      PROVE  \A f \in Execs : audit'[f]["acknowledged"] >= audit[f]["acknowledged"]
  BY <1>c, <1>a, AppendAuditType DEF TypeInv, Outcome
<1>1. CASE \/ \E c \in Approvers, t \in Tokens : Submit(c, t)
           \/ \E c \in Operators, e \in Execs : RetryRead(c, e)
           \/ \E c \in Clients : RequestStep(c)
  <2>1. UNCHANGED <<audit, effects, worker, faults, losses>>
    BY <1>1 DEF Submit, RetryRead, RequestStep, Lookup, Insert, Put, RetryReset, dbVars, countVars
  <2>2. QED
    BY <2>1, <1>a, <1>b, EffectsKept
<1>2. CASE \E c \in Clients : EnqueueFault(c) \/ RetryFault(c)
  <2>1. UNCHANGED <<audit, effects, worker, losses>> /\ faults' = faults + 1
    BY <1>2 DEF EnqueueFault, RetryFault, Raise, dbVars
  <2>2. QED
    BY <2>1, <1>a, <1>b, EffectsKept
<1>3. CASE Take \/ MarkProcessing \/ MarkAcknowledged \/ MarkRetrying \/ MarkDeadLetter \/ NextAttempt
  <2>1. UNCHANGED <<audit, effects, faults, losses>> /\ worker.pc # "ack_audit"
    BY <1>3 DEF Take, MarkProcessing, MarkAcknowledged, MarkRetrying, MarkDeadLetter,
                NextAttempt, dbVars, countVars
  <2>2. QED
    BY <2>1, <1>a, <1>b, EffectsKept
<1>4. CASE StationAnswers
  <2>1. /\ Exec \in Execs /\ worker.pc = "call"
        /\ UNCHANGED <<audit, faults, losses>>
    BY <1>4, BusyWorkerType DEF StationAnswers, TypeInv, dbVars, countVars
  <2>2. CASE UNCHANGED effects
    BY <2>1, <2>2, <1>a, <1>b, EffectsKept
  <2>3. CASE GoTo("ack_audit") /\ effects' = [effects EXCEPT ![Exec] = @ + 1]
    <3>1. worker'.pc = "ack_audit" /\ Exec' = Exec
      BY <2>1, <2>3, BusyWorkerType, GoToType DEF TypeInv, WorkerPc, Exec
    <3> SUFFICES ASSUME NEW e \in Execs
                 PROVE  effects'[e] <= audit'[e]["acknowledged"] + InFlight(e)' + faults' + losses'
      BY DEF EffectsAreAudited
    <3>2. effects[e] <= audit[e]["acknowledged"] + InFlight(e) + faults + losses
      BY DEF EffectsAreAudited
    <3>3. InFlight(e) = 0 /\ InFlight(e)' = IF e = Exec THEN 1 ELSE 0
      BY <2>1, <3>1 DEF InFlight
    <3>4. effects'[e] = (IF e = Exec THEN effects[e] + 1 ELSE effects[e]) /\ effects[e] \in Nat
      BY <2>1, <2>3, <1>a
    <3>5. audit'[e]["acknowledged"] = audit[e]["acknowledged"]
          /\ audit[e]["acknowledged"] \in Nat
      BY <2>1, <1>a
    <3>6. QED
      BY <2>1, <3>2, <3>3, <3>4, <3>5, <1>a
  <2>4. QED
    BY <1>4, <2>2, <2>3 DEF StationAnswers
<1>5. CASE RecordAck
  <2>1. /\ Exec \in Execs /\ worker.pc = "ack_audit" /\ worker'.pc = "ack_row"
        /\ UNCHANGED <<effects, faults, losses>>
    BY <1>5, BusyWorkerType, GoToType DEF RecordAck, TypeInv, WorkerPc, countVars
  <2> SUFFICES ASSUME NEW e \in Execs
               PROVE  effects'[e] <= audit'[e]["acknowledged"] + InFlight(e)' + faults' + losses'
    BY DEF EffectsAreAudited
  <2>2. effects[e] <= audit[e]["acknowledged"] + InFlight(e) + faults + losses
    BY DEF EffectsAreAudited
  <2>3. InFlight(e) = (IF e = Exec THEN 1 ELSE 0) /\ InFlight(e)' = 0
    BY <2>1 DEF InFlight
  <2>4. audit'[e]["acknowledged"] = IF e = Exec THEN audit[e]["acknowledged"] + 1
                                    ELSE audit[e]["acknowledged"]
    BY <1>5, <2>1, AppendAuditType DEF RecordAck, TypeInv, Outcome
  <2>5. audit[e]["acknowledged"] \in Nat /\ effects[e] \in Nat
    BY <1>a
  <2>6. QED
    BY <2>1, <2>2, <2>3, <2>4, <2>5, <1>a
<1>6. CASE RecordFailure
  <2>1. /\ Exec \in Execs /\ FailureOutcome \in Outcome /\ worker.pc # "ack_audit"
        /\ AppendAudit(Exec, FailureOutcome)
        /\ UNCHANGED <<effects, faults, losses>>
    BY <1>6, BusyWorkerType DEF RecordFailure, TypeInv, FailureOutcome, Outcome, countVars
  <2>2. QED
    BY <2>1, <1>a, <1>c, EffectsKept
<1>7. CASE DropCommand \/ CatchException
  <2>1. /\ Exec \in Execs /\ FailureOutcome \in Outcome /\ "acknowledged" \in Outcome
        /\ UNCHANGED <<effects, losses>> /\ faults' = faults + 1
    BY <1>7, BusyWorkerType
    DEF DropCommand, CatchException, Raise, TypeInv, FailureOutcome, Outcome
  <2>2. UNCHANGED audit \/ AppendAudit(Exec, FailureOutcome) \/ AppendAudit(Exec, "acknowledged")
    BY <1>7 DEF DropCommand, CatchException
  <2>3. QED
    BY <2>1, <2>2, <1>a, <1>b, <1>c, EffectsKept
<1>8. CASE Lose
  <2>1. UNCHANGED <<audit, effects, faults>> /\ losses' = losses + 1
    BY <1>8 DEF Lose, dbVars
  <2>2. QED
    BY <2>1, <1>a, <1>b, EffectsKept
<1>9. CASE (\E g \in {"open", "closed"} : SetGate(g)) \/ Stop \/ Stopped \/ Start \/ UNCHANGED vars
  <2>1. UNCHANGED <<audit, effects, worker, faults, losses>>
    BY <1>9 DEF SetGate, Stop, Stopped, Start, vars, dbVars, countVars
  <2>2. QED
    BY <2>1, <1>a, <1>b, EffectsKept
<1>10. QED
  BY <1>1, <1>2, <1>3, <1>4, <1>5, <1>6, <1>7, <1>8, <1>9 DEF Next, WorkerStep

(* Whatever a station did for a command is in the audit as acknowledged, or   *)
(* about to be, but for one act for each failed database call and each loss   *)
(* of the process (service.py:87-121).                                        *)
THEOREM EffectsAudited == Spec => []EffectsAreAudited
<1>1. Init => TypeInv /\ EffectsAreAudited
  <2>1. Init => EffectsAreAudited
    BY DEF Init, EffectsAreAudited, InFlight, IdleWorker, Outcome
  <2>2. QED
    BY <2>1, InitInv
<1>2. TypeInv /\ EffectsAreAudited /\ [Next]_vars => (TypeInv /\ EffectsAreAudited)'
  BY TypeInvStep, EffectsStep
<1>3. QED
  BY <1>1, <1>2, PTL DEF Spec


------------------------------------------------------------------------------
(* Sequences of commands. *)

Has(s, e) == \E i \in DOMAIN s : s[i].exec = e

(* A concatenation has what its parts have. *)
LEMMA HasConcat ==
  ASSUME NEW s \in Seq(Command), NEW t \in Seq(Command), NEW e,
         Has(s, e) \/ Has(t, e)
  PROVE  Has(s \o t, e)
<1>1. /\ s \o t \in Seq(Command) /\ Len(s \o t) = Len(s) + Len(t)
      /\ Len(s) \in Nat /\ Len(t) \in Nat
      /\ DOMAIN s = 1..Len(s) /\ DOMAIN t = 1..Len(t)
      /\ DOMAIN (s \o t) = 1..(Len(s) + Len(t))
      /\ \A i \in 1..Len(s) : (s \o t)[i] = s[i]
      /\ \A i \in 1..Len(t) : (s \o t)[Len(s) + i] = t[i]
  OBVIOUS
<1>2. CASE Has(s, e)
  <2>1. PICK i \in 1..Len(s) : s[i].exec = e
    BY <1>1, <1>2 DEF Has
  <2>2. i \in DOMAIN (s \o t) /\ (s \o t)[i].exec = e
    BY <1>1, <2>1
  <2>3. QED
    BY <2>2 DEF Has
<1>3. CASE Has(t, e)
  <2>1. PICK i \in 1..Len(t) : t[i].exec = e
    BY <1>1, <1>3 DEF Has
  <2>2. Len(s) + i \in DOMAIN (s \o t) /\ (s \o t)[Len(s) + i].exec = e
    BY <1>1, <2>1
  <2>3. QED
    BY <2>2 DEF Has
<1>4. QED
  BY <1>2, <1>3

(* Appending a command keeps what was there and adds the command. *)
LEMMA HasAppend ==
  ASSUME NEW s \in Seq(Command), NEW x \in Command, NEW e,
         Has(s, e) \/ x.exec = e
  PROVE  Has(Append(s, x), e)
<1> DEFINE t == Append(s, x)
<1>1. /\ Len(s) \in Nat /\ DOMAIN s = 1..Len(s) /\ DOMAIN t = 1..(Len(s) + 1)
      /\ \A i \in 1..Len(s) : t[i] = s[i]
      /\ t[Len(s) + 1] = x
  OBVIOUS
<1> HIDE DEF t
<1>2. CASE Has(s, e)
  <2>1. PICK i \in 1..Len(s) : s[i].exec = e
    BY <1>1, <1>2 DEF Has
  <2>2. i \in DOMAIN t /\ t[i].exec = e
    BY <1>1, <2>1
  <2>3. QED
    BY <2>2 DEF Has, t
<1>3. CASE x.exec = e
  <2>1. Len(s) + 1 \in DOMAIN t /\ t[Len(s) + 1].exec = e
    BY <1>1, <1>3
  <2>2. QED
    BY <2>1 DEF Has, t
<1>4. QED
  BY <1>2, <1>3

(* What a sequence has is in its first n commands or in the others. *)
LEMMA HasSplit ==
  ASSUME NEW s \in Seq(Command), NEW n \in Nat, n <= Len(s), NEW e, Has(s, e)
  PROVE  Has(SubSeq(s, 1, n), e) \/ Has(SubSeq(s, n + 1, Len(s)), e)
<1> DEFINE a == SubSeq(s, 1, n)
           b == SubSeq(s, n + 1, Len(s))
<1>1. Len(s) \in Nat /\ DOMAIN s = 1..Len(s)
  OBVIOUS
<1>2. DOMAIN a = 1..n /\ \A i \in 1..n : a[i] = s[i]
  BY <1>1
<1>3. DOMAIN b = 1..(Len(s) - n) /\ \A i \in 1..(Len(s) - n) : b[i] = s[n + i]
  BY <1>1
<1> HIDE DEF a, b
<1>4. PICK i \in 1..Len(s) : s[i].exec = e
  BY <1>1 DEF Has
<1>5. CASE i <= n
  <2>1. i \in DOMAIN a /\ a[i].exec = e
    BY <1>1, <1>2, <1>4, <1>5
  <2>2. QED
    BY <2>1 DEF Has, a
<1>6. CASE i > n
  <2>1. i - n \in 1..(Len(s) - n) /\ n + (i - n) = i
    BY <1>1, <1>4, <1>6
  <2>2. i - n \in DOMAIN b /\ b[i - n].exec = e
    BY <1>3, <1>4, <2>1
  <2>3. QED
    BY <2>2 DEF Has, b
<1>7. QED
  BY <1>1, <1>4, <1>5, <1>6

(* What a queue has is at its head or behind it. *)
LEMMA HasTail ==
  ASSUME NEW s \in Seq(Command), s # <<>>, NEW e, Has(s, e)
  PROVE  Head(s).exec = e \/ Has(Tail(s), e)
<1> DEFINE t == Tail(s)
<1>1. /\ Len(s) \in Nat /\ Len(s) > 0 /\ DOMAIN s = 1..Len(s) /\ Head(s) = s[1]
      /\ DOMAIN t = 1..(Len(s) - 1)
      /\ \A i \in 1..(Len(s) - 1) : t[i] = s[i + 1]
  OBVIOUS
<1> HIDE DEF t
<1>2. PICK i \in 1..Len(s) : s[i].exec = e
  BY <1>1 DEF Has
<1>3. CASE i = 1
  BY <1>1, <1>2, <1>3
<1>4. CASE i # 1
  <2>1. i - 1 \in DOMAIN t /\ t[i - 1] = s[(i - 1) + 1] /\ (i - 1) + 1 = i
    BY <1>1, <1>2, <1>4
  <2>2. i - 1 \in DOMAIN t /\ t[i - 1].exec = e
    BY <1>2, <2>1
  <2>3. QED
    BY <2>2 DEF Has, t
<1>5. QED
  BY <1>3, <1>4

------------------------------------------------------------------------------
(* Whose hands are empty. *)

(* A request that has not started, or that is about to reset a row, has no    *)
(* commands to enqueue, and an idle worker has none to process: neither can   *)
(* overwrite one.                                                             *)
HandsInv ==
  /\ worker.pc = "idle" => worker = IdleWorker
  /\ \A c \in Clients : pc[c] \in {"idle", "reset"} => cmds[c] = <<>>

LEMMA ReturnHands ==
  ASSUME TypeInv, HandsInv, NEW c \in Clients, Return(c), UNCHANGED worker
  PROVE  HandsInv'
BY DEF TypeInv, TypeOK, HandsInv, Return

LEMMA NextCommandHands ==
  ASSUME TypeInv, HandsInv, NEW c \in Clients, NEW todo, NextCommand(c, todo), UNCHANGED worker
  PROVE  HandsInv'
<1>1. CASE Return(c)
  BY <1>1, ReturnHands
<1>2. CASE /\ pc' = [pc EXCEPT ![c] = "lookup"] \/ pc' = [pc EXCEPT ![c] = "put"]
           /\ cmds' = [cmds EXCEPT ![c] = todo]
  BY <1>2 DEF TypeInv, TypeOK, HandsInv
<1>3. QED
  BY <1>1, <1>2 DEF NextCommand

(* A busy worker that goes on stays busy, with the same command. *)
LEMMA WorkerGoesOn ==
  ASSUME TypeInv, HandsInv, worker.pc # "idle", NEW l \in WorkerPc \ {"idle"}, GoTo(l)
  PROVE  worker'.pc # "idle" /\ worker'.cmd = worker.cmd
BY BusyWorkerType, GoToType DEF TypeInv

LEMMA HandsStep ==
  ASSUME TypeInv, HandsInv, [Next]_vars
  PROVE  HandsInv'
<1> DEFINE clients == \A c \in Clients : pc[c] \in {"idle", "reset"} => cmds[c] = <<>>
           works == worker.pc = "idle" => worker = IdleWorker
<1>a. /\ UNCHANGED clientVars => clients'
      /\ UNCHANGED worker => works'
      /\ worker' = IdleWorker => works'
      /\ HandsInv' <=> works' /\ clients'
  BY DEF HandsInv, clientVars
<1>b. ASSUME worker.pc # "idle", NEW l \in WorkerPc \ {"idle"}, GoTo(l)
      PROVE  works'
  BY <1>b, WorkerGoesOn
<1> HIDE DEF clients, works
<1>1. ASSUME NEW c \in Approvers, NEW t \in Tokens, Submit(c, t) PROVE HandsInv'
  <2>1. c \in Clients /\ pc' = [pc EXCEPT ![c] = "lookup"] /\ UNCHANGED <<worker, cmds>>
    BY <1>1 DEF Submit, Clients
  <2>2. QED
    BY <2>1 DEF TypeInv, TypeOK, HandsInv
<1>2. ASSUME NEW c \in Operators, NEW e \in Execs, RetryRead(c, e) PROVE HandsInv'
  <2>1. /\ c \in Clients /\ pc[c] = "idle" /\ pc' = [pc EXCEPT ![c] = "reset"]
        /\ UNCHANGED <<worker, cmds>>
    BY <1>2 DEF RetryRead, Clients
  <2>2. QED
    BY <2>1 DEF TypeInv, TypeOK, HandsInv
<1>3. ASSUME NEW c \in Clients, Lookup(c) PROVE HandsInv'
  <2>1. CASE NextCommand(c, cmds[c])
    BY <1>3, <2>1, NextCommandHands DEF Lookup
  <2>2. CASE pc' = [pc EXCEPT ![c] = "insert"] /\ UNCHANGED <<req, cmds>>
    <3>1. UNCHANGED worker
      BY <1>3 DEF Lookup
    <3>2. QED
      BY <2>2, <3>1 DEF TypeInv, TypeOK, HandsInv
  <2>3. QED
    BY <1>3, <2>1, <2>2 DEF Lookup
<1>4. ASSUME NEW c \in Clients, Insert(c) PROVE HandsInv'
  <2>1. UNCHANGED worker /\ \E todo : NextCommand(c, todo)
    BY <1>4 DEF Insert
  <2>2. QED
    BY <2>1, NextCommandHands
<1>5. ASSUME NEW c \in Clients, EnqueueFault(c) \/ RetryFault(c) PROVE HandsInv'
  BY <1>5, ReturnHands DEF EnqueueFault, RetryFault
<1>6. ASSUME NEW c \in Clients, Put(c) PROVE HandsInv'
  <2>1. CASE Return(c)
    BY <1>6, <2>1, ReturnHands DEF Put
  <2>2. CASE UNCHANGED <<pc, req>>
    <3>1. /\ pc[c] = "put" /\ UNCHANGED <<worker, pc>>
          /\ \E t : cmds' = [cmds EXCEPT ![c] = t] \/ Return(c)
      BY <1>6, <2>2 DEF Put
    <3>2. QED
      BY <3>1, ReturnHands DEF TypeInv, TypeOK, HandsInv
  <2>3. QED
    BY <1>6, <2>1, <2>2 DEF Put
<1>7. ASSUME NEW c \in Clients, RetryReset(c) PROVE HandsInv'
  <2>1. /\ UNCHANGED worker /\ pc' = [pc EXCEPT ![c] = "put"]
        /\ \E t : cmds' = [cmds EXCEPT ![c] = t]
    BY <1>7 DEF RetryReset
  <2>2. QED
    BY <2>1 DEF TypeInv, TypeOK, HandsInv
<1>8. CASE Take
  <2>1. worker'.pc = "start" /\ UNCHANGED clientVars
    BY <1>8 DEF Take
  <2>2. QED
    BY <2>1, <1>a DEF works
<1>9. CASE MarkProcessing \/ StationAnswers \/ RecordAck \/ RecordFailure \/ MarkRetrying \/ CatchException
  <2>1. worker.pc # "idle" /\ UNCHANGED clientVars /\ \E l \in WorkerPc \ {"idle"} : GoTo(l)
    BY <1>9 DEF MarkProcessing, StationAnswers, RecordAck, RecordFailure, MarkRetrying,
                CatchException, WorkerPc
  <2>2. QED
    BY <2>1, <1>a, <1>b
<1>10. CASE MarkAcknowledged \/ MarkDeadLetter \/ DropCommand
  BY <1>10, <1>a DEF MarkAcknowledged, MarkDeadLetter, DropCommand
<1>11. CASE NextAttempt
  <2>1. worker'.pc = "start" /\ UNCHANGED clientVars
    BY <1>11, BusyWorkerType DEF NextAttempt, TypeInv, BusyWorker
  <2>2. QED
    BY <2>1, <1>a DEF works
<1>12. CASE Lose
  BY <1>12, <1>a DEF Lose, clients
<1>13. CASE (\E g \in {"open", "closed"} : SetGate(g)) \/ Stop \/ Stopped \/ Start \/ UNCHANGED vars
  BY <1>13, <1>a DEF SetGate, Stop, Stopped, Start, vars, clientVars
<1>14. QED
  BY <1>1, <1>2, <1>3, <1>4, <1>5, <1>6, <1>7, <1>8, <1>9, <1>10, <1>11, <1>12, <1>13
  DEF Next, RequestStep, WorkerStep

------------------------------------------------------------------------------
(* Who carries a command. *)

LEMMA CarriedBy ==
  ASSUME NEW e
  PROVE  Carried(e) <=> \/ Has(queue, e)
                        \/ worker.cmd.exec = e
                        \/ \E c \in Clients : Has(cmds[c], e)
BY DEF Carried, Has

(* It is enough that a step carries on with what was carried, except what it  *)
(* settles, and carries what it makes unsettled.                              *)
LEMMA CarryOn ==
  ASSUME NoCommandLost,
         faults' + losses' = 0 => faults + losses = 0,
         faults' + losses' = 0 =>
           \A e \in Execs : status'[e] \in Unsettled =>
             \/ Carried(e)'
             \/ status[e] \in Unsettled /\ (Carried(e) => Carried(e)')
  PROVE  NoCommandLost'
BY DEF NoCommandLost

(* A failure, or the loss of the process, is what the property excepts. *)
LEMMA Excepted ==
  ASSUME TypeInv,
         \/ faults' = faults + 1 /\ losses' = losses
         \/ losses' = losses + 1 /\ faults' = faults
  PROVE  NoCommandLost'
<1>1. faults \in Nat /\ losses \in Nat
  BY Types
<1>2. faults' + losses' # 0
  BY <1>1
<1>3. QED
  BY <1>2 DEF NoCommandLost

(* Nothing that carries a command changes, and no row becomes unsettled. *)
LEMMA CarriersKept ==
  ASSUME NoCommandLost, UNCHANGED <<status, queue, worker, cmds, faults, losses>>
  PROVE  NoCommandLost'
BY DEF NoCommandLost, Carried

(* Going on with the next command of a request drops none of them. *)
LEMMA NextCommandCarries ==
  ASSUME TypeInv, NEW c \in Clients, NEW todo, NextCommand(c, todo), NEW e, Has(todo, e)
  PROVE  /\ Has(cmds'[c], e)
         /\ \A d \in Clients : d # c => cmds'[d] = cmds[d]
<1>1. todo # <<>>
  BY DEF Has
<1>2. cmds' = [cmds EXCEPT ![c] = todo]
  BY <1>1 DEF NextCommand
<1>3. QED
  BY <1>2 DEF TypeInv, TypeOK

(* The other requests keep theirs, whatever this one does. *)
LEMMA OthersKeep ==
  ASSUME TypeInv, NEW c \in Clients, NEW todo, NextCommand(c, todo)
  PROVE  \A d \in Clients : d # c => cmds'[d] = cmds[d]
BY DEF TypeInv, TypeOK, NextCommand, Return

LEMMA LookupCarries ==
  ASSUME TypeInv, NoCommandLost, NEW c \in Clients, Lookup(c)
  PROVE  NoCommandLost'
<1>1. UNCHANGED <<status, queue, worker, faults, losses>>
  BY DEF Lookup, dbVars, rowVars, countVars
<1>2. CASE UNCHANGED cmds
  BY <1>1, <1>2, CarriersKept
<1>3. CASE NextCommand(c, cmds[c])
  <2>1. ASSUME NEW e \in Execs, NEW d \in Clients, Has(cmds[d], e)
        PROVE  Has(cmds'[d], e)
    BY <1>3, <2>1, NextCommandCarries, OthersKeep
  <2>2. \A e \in Execs : Carried(e) => Carried(e)'
    BY <1>1, <2>1, CarriedBy DEF Carried, Has
  <2>3. QED
    BY <1>1, <2>2, CarryOn
<1>4. QED
  BY <1>2, <1>3 DEF Lookup

(* A new row goes to the hands of its request. *)
LEMMA InsertCarries ==
  ASSUME TypeInv, NoCommandLost, NEW c \in Clients, Insert(c)
  PROVE  NoCommandLost'
<1> DEFINE b == req[c].key[1] \in BarricadeTokens
<1>1. PICK f \in Execs :
        /\ CreateRow(f, req[c].key)
        /\ NextCommand(c, Append(cmds[c], [exec |-> f, barricades |-> b]))
  BY DEF Insert
<1> DEFINE x == [exec |-> f, barricades |-> b]
<1>2. UNCHANGED <<queue, worker, faults, losses>>
  BY DEF Insert, countVars
<1>3. x \in Command /\ x.exec = f
  <2>1. b \in BOOLEAN
    OBVIOUS
  <2> HIDE DEF b
  <2>2. QED
    BY <2>1, CommandIntro
<1>4. cmds[c] \in Seq(Command)
  BY DEF TypeInv, TypeOK
<1>5. NextCommand(c, Append(cmds[c], x))
  BY <1>1
<1> HIDE DEF x
<1>6. ASSUME NEW e \in Execs, NEW d \in Clients, Has(cmds[d], e)
      PROVE  Has(cmds'[d], e)
  <2>1. CASE d = c
    BY <1>3, <1>4, <1>5, <1>6, <2>1, HasAppend, NextCommandCarries
  <2>2. CASE d # c
    BY <1>5, <1>6, <2>2, OthersKeep
  <2>3. QED
    BY <2>1, <2>2
<1>7. Has(cmds'[c], f)
  BY <1>3, <1>4, <1>5, HasAppend, NextCommandCarries
<1>8. \A e \in Execs : Carried(e) => Carried(e)'
  BY <1>2, <1>6, CarriedBy DEF Carried, Has
<1>9. Carried(f)'
  BY <1>7 DEF Carried, Has
<1>10. \A e \in Execs : e # f => status'[e] = status[e]
  BY <1>1 DEF TypeInv, TypeOK, CreateRow
<1>11. QED
  BY <1>2, <1>8, <1>9, <1>10, CarryOn

(* What leaves the hands of a request is in the queue, whether all of it fits *)
(* or only some.                                                              *)
LEMMA PutCarries ==
  ASSUME TypeInv, NoCommandLost, NEW c \in Clients, Put(c)
  PROVE  NoCommandLost'
<1> DEFINE room == QueueCap - Len(queue)
           todo == cmds[c]
<1>1. UNCHANGED <<status, worker, faults, losses>>
  BY DEF Put, dbVars, rowVars, countVars
<1>2. /\ cmds \in [Clients -> Seq(Command)] /\ todo \in Seq(Command) /\ Len(todo) \in Nat
      /\ queue \in Seq(Command) /\ room \in Nat
  <2>1. cmds \in [Clients -> Seq(Command)] /\ todo \in Seq(Command) /\ Len(todo) \in Nat
    BY LenProperties DEF TypeInv, TypeOK
  <2>2. queue \in Seq(Command) /\ Len(queue) \in Nat /\ Len(queue) <= QueueCap
    BY Types, LenProperties
  <2>3. QED
    BY <2>1, <2>2, BrokerAssumption
<1>3. CASE Len(todo) <= room /\ queue' = queue \o todo /\ Return(c)
  <2>1. \A d \in Clients : d # c => cmds'[d] = cmds[d]
    BY <1>2, <1>3 DEF Return
  <2>2. \A e \in Execs : Has(queue, e) \/ Has(todo, e) => Has(queue', e)
    BY <1>2, <1>3, HasConcat
  <2> HIDE DEF todo
  <2>3. \A e \in Execs : Carried(e) => Carried(e)'
    <3> SUFFICES ASSUME NEW e \in Execs, Carried(e) PROVE Carried(e)'
      OBVIOUS
    <3>1. CASE Has(queue, e) \/ Has(todo, e)
      BY <2>2, <3>1 DEF Carried, Has
    <3>2. CASE worker.cmd.exec = e
      BY <1>1, <3>2 DEF Carried
    <3>3. CASE \E d \in Clients : d # c /\ Has(cmds[d], e)
      BY <2>1, <3>3 DEF Carried, Has
    <3>4. QED
      BY <3>1, <3>2, <3>3, CarriedBy DEF todo
  <2>4. QED
    BY <1>1, <2>3, CarryOn
<1>4. CASE /\ Len(todo) > room
           /\ queue' = queue \o SubSeq(todo, 1, room)
           /\ cmds' = [cmds EXCEPT ![c] = SubSeq(todo, room + 1, Len(todo))]
  <2> DEFINE s == SubSeq(todo, 1, room)
             t == SubSeq(todo, room + 1, Len(todo))
  <2>1. cmds'[c] = t /\ \A d \in Clients : d # c => cmds'[d] = cmds[d]
    BY <1>2, <1>4
  <2>2. s \in Seq(Command) /\ \A e \in Execs : Has(todo, e) => Has(s, e) \/ Has(t, e)
    <3>1. room <= Len(todo)
      BY <1>2, <1>4
    <3>2. s \in Seq(Command)
      BY <1>2, <3>1, SubSeqProperties
    <3> HIDE DEF todo, room
    <3>3. \A e \in Execs : Has(todo, e) => Has(s, e) \/ Has(t, e)
      BY <1>2, <3>1, HasSplit
    <3>4. QED
      BY <3>2, <3>3
  <2>3. \A e \in Execs : Has(queue, e) \/ Has(s, e) => Has(queue', e)
    BY <1>2, <1>4, <2>2, HasConcat
  <2> HIDE DEF s, t, todo
  <2>4. \A e \in Execs : Carried(e) => Carried(e)'
    <3> SUFFICES ASSUME NEW e \in Execs, Carried(e) PROVE Carried(e)'
      OBVIOUS
    <3>1. CASE Has(queue, e) \/ Has(s, e)
      BY <2>3, <3>1 DEF Carried, Has
    <3>2. CASE worker.cmd.exec = e
      BY <1>1, <3>2 DEF Carried
    <3>3. CASE \E d \in Clients : d # c /\ Has(cmds[d], e)
      BY <2>1, <3>3 DEF Carried, Has
    <3>4. CASE Has(t, e)
      BY <2>1, <3>4 DEF Carried, Has
    <3>5. QED
      BY <2>2, <3>1, <3>2, <3>3, <3>4, CarriedBy DEF todo
  <2>5. QED
    BY <1>1, <2>4, CarryOn
<1>5. QED
  BY <1>3, <1>4 DEF Put

(* The hands of the request that resets a row are empty, so the command it    *)
(* takes in them replaces none.                                               *)
LEMMA RetryResetCarries ==
  ASSUME TypeInv, HandsInv, NoCommandLost, NEW c \in Clients, RetryReset(c)
  PROVE  NoCommandLost'
<1>0. PICK f \in Execs : f = req[c].exec
  BY DEF RetryReset, TypeInv, ClientInv
<1> DEFINE x == [exec |-> f, barricades |-> FALSE]
<1>1. cmds[c] = <<>> /\ UNCHANGED <<queue, worker, faults, losses>>
  BY DEF RetryReset, HandsInv, countVars
<1>2. cmds'[c] = <<x>> /\ \A d \in Clients : d # c => cmds'[d] = cmds[d]
  BY <1>0 DEF RetryReset, TypeInv, TypeOK
<1>3. \A e \in Execs : e # f => status'[e] = status[e]
  BY <1>0 DEF RetryReset, UpdateRow, TypeInv, TypeOK
<1>4. Has(cmds'[c], f)
  <2>1. 1 \in DOMAIN <<x>> /\ <<x>>[1] = x /\ x.exec = f
    OBVIOUS
  <2>2. QED
    BY <1>2, <2>1 DEF Has
<1> HIDE DEF x
<1>5. \A e : ~Has(cmds[c], e)
  BY <1>1 DEF Has
<1>6. \A e \in Execs : Carried(e) => Carried(e)'
  <2> SUFFICES ASSUME NEW e \in Execs, Carried(e) PROVE Carried(e)'
    OBVIOUS
  <2>1. CASE Has(queue, e) \/ worker.cmd.exec = e
    BY <1>1, <2>1 DEF Carried, Has
  <2>2. CASE \E d \in Clients : d # c /\ Has(cmds[d], e)
    BY <1>2, <2>2 DEF Carried, Has
  <2>3. QED
    BY <1>5, <2>1, <2>2, CarriedBy
<1>7. Carried(f)'
  BY <1>4 DEF Carried, Has
<1>8. QED
  BY <1>1, <1>3, <1>6, <1>7, CarryOn

(* The worker takes a command only when it has none. *)
LEMMA TakeCarries ==
  ASSUME TypeInv, HandsInv, NoCommandLost, Take
  PROVE  NoCommandLost'
<1>1. UNCHANGED <<status, cmds, faults, losses>>
  BY DEF Take, dbVars, rowVars, clientVars, countVars
<1>2. worker.cmd.exec = NoExec
  BY DEF Take, HandsInv, IdleWorker, NoCommand
<1>3. queue \in Seq(Command) /\ queue # <<>>
  BY Types DEF Take
<1>4. worker'.cmd = Head(queue) /\ queue' = Tail(queue)
  BY DEF Take
<1>5. \A e \in Execs : Carried(e) => Carried(e)'
  <2> SUFFICES ASSUME NEW e \in Execs, Carried(e) PROVE Carried(e)'
    OBVIOUS
  <2>1. CASE Has(queue, e)
    <3>1. worker'.cmd.exec = e \/ Has(queue', e)
      BY <1>3, <1>4, <2>1, HasTail
    <3>2. QED
      BY <3>1 DEF Carried, Has
  <2>2. CASE \E d \in Clients : Has(cmds[d], e)
    BY <1>1, <2>2 DEF Carried, Has
  <2>3. worker.cmd.exec # e
    BY <1>2, BrokerAssumption
  <2>4. QED
    BY <2>1, <2>2, <2>3, CarriedBy
<1>6. QED
  BY <1>1, <1>5, CarryOn

(* The worker keeps its command until it has settled it. *)
LEMMA WorkerCarries ==
  ASSUME TypeInv, HandsInv, NoCommandLost, worker.pc # "idle",
         UNCHANGED <<queue, cmds, faults, losses>>,
         \A e \in Execs : e # Exec => status'[e] = status[e],
         worker'.cmd = worker.cmd \/ status'[Exec] \in Settled
  PROVE  NoCommandLost'
<1>1. Settled \cap Unsettled = {}
  BY DEF Settled, Unsettled
<1>2. PICK f \in Execs : f = worker.cmd.exec
  BY BusyWorkerType DEF TypeInv, Exec
<1>3. \A e \in Execs : e # f => status'[e] = status[e]
  BY <1>2 DEF Exec
<1>4. \A e \in Execs : e # f /\ Carried(e) => Carried(e)'
  BY <1>2 DEF Carried
<1>5. Carried(f)' \/ status'[f] \in Settled
  BY <1>2 DEF Carried, Exec
<1>6. QED
  BY <1>1, <1>3, <1>4, <1>5, CarryOn

LEMMA NoCommandLostStep ==
  ASSUME TypeInv, HandsInv, NoCommandLost, [Next]_vars
  PROVE  NoCommandLost'
<1>a. status \in [Execs -> Status]
  BY DEF TypeInv, TypeOK
<1>1. CASE \/ \E c \in Approvers, t \in Tokens : Submit(c, t)
           \/ \E c \in Operators, e \in Execs : RetryRead(c, e)
  <2>1. UNCHANGED <<status, queue, worker, cmds, faults, losses>>
    BY <1>1 DEF Submit, RetryRead, dbVars, rowVars, countVars
  <2>2. QED
    BY <2>1, CarriersKept
<1>2. CASE \E c \in Clients : RequestStep(c)
  BY <1>2, LookupCarries, InsertCarries, PutCarries, RetryResetCarries DEF RequestStep
<1>3. CASE (\E c \in Clients : EnqueueFault(c) \/ RetryFault(c)) \/ DropCommand \/ CatchException
  <2>1. faults' = faults + 1 /\ losses' = losses
    BY <1>3 DEF EnqueueFault, RetryFault, DropCommand, CatchException, Raise
  <2>2. QED
    BY <2>1, Excepted
<1>4. CASE Lose
  <2>1. losses' = losses + 1 /\ faults' = faults
    BY <1>4 DEF Lose
  <2>2. QED
    BY <2>1, Excepted
<1>5. CASE Take
  BY <1>5, TakeCarries
<1>6. CASE MarkProcessing \/ MarkRetrying
  <2>1. /\ worker.pc # "idle" /\ UNCHANGED <<queue, cmds, faults, losses>>
        /\ \E s : status' = [status EXCEPT ![Exec] = s]
        /\ \E l \in WorkerPc \ {"idle"} : GoTo(l)
    BY <1>6 DEF MarkProcessing, MarkRetrying, UpdateRow, clientVars, countVars, WorkerPc
  <2>2. worker'.cmd = worker.cmd
    BY <2>1, WorkerGoesOn
  <2>3. \A e \in Execs : e # Exec => status'[e] = status[e]
    BY <2>1, <1>a
  <2>4. QED
    BY <2>1, <2>2, <2>3, WorkerCarries
<1>7. CASE StationAnswers \/ RecordAck \/ RecordFailure
  <2>1. /\ worker.pc # "idle" /\ UNCHANGED <<status, queue, cmds, faults, losses>>
        /\ \E l \in WorkerPc \ {"idle"} : GoTo(l)
    BY <1>7 DEF StationAnswers, RecordAck, RecordFailure, dbVars, rowVars, clientVars, countVars, WorkerPc
  <2>2. worker'.cmd = worker.cmd
    BY <2>1, WorkerGoesOn
  <2>3. QED
    BY <2>1, <2>2, WorkerCarries
<1>8. CASE MarkAcknowledged \/ MarkDeadLetter
  <2>1. /\ worker.pc # "idle" /\ UNCHANGED <<queue, cmds, faults, losses>>
        /\ \E s \in Settled : status' = [status EXCEPT ![Exec] = s]
    BY <1>8 DEF MarkAcknowledged, MarkDeadLetter, UpdateRow, clientVars, countVars, Settled
  <2>2. Exec \in Execs
    BY <2>1, BusyWorkerType DEF TypeInv
  <2>3. status'[Exec] \in Settled /\ \A e \in Execs : e # Exec => status'[e] = status[e]
    BY <2>1, <2>2, <1>a
  <2>4. QED
    BY <2>1, <2>3, WorkerCarries
<1>9. CASE NextAttempt
  <2>1. /\ worker.pc # "idle" /\ UNCHANGED <<status, queue, cmds, faults, losses>>
        /\ worker'.cmd = worker.cmd
    BY <1>9, BusyWorkerType
    DEF NextAttempt, TypeInv, BusyWorker, dbVars, rowVars, clientVars, countVars
  <2>2. QED
    BY <2>1, WorkerCarries
<1>10. CASE (\E g \in {"open", "closed"} : SetGate(g)) \/ Stop \/ Stopped \/ Start \/ UNCHANGED vars
  <2>1. UNCHANGED <<status, queue, worker, cmds, faults, losses>>
    BY <1>10 DEF SetGate, Stop, Stopped, Start, vars, dbVars, rowVars, clientVars, countVars
  <2>2. QED
    BY <2>1, CarriersKept
<1>11. QED
  BY <1>1, <1>2, <1>3, <1>4, <1>5, <1>6, <1>7, <1>8, <1>9, <1>10 DEF Next, WorkerStep

(* A command that is still to be settled is in the queue, with the worker or  *)
(* in the hands of a request, as long as no database call fails and the       *)
(* process does not die: neither a full queue, nor retries that race, nor an  *)
(* orderly shutdown loses one (queue.py:63-88, service.py:258-260, 371-385).  *)
THEOREM NoCommandIsLost == Spec => []NoCommandLost
<1>1. Init => TypeInv /\ HandsInv /\ NoCommandLost
  <2>1. Init => HandsInv
    BY DEF Init, HandsInv
  <2>2. Init => NoCommandLost
    BY DEF Init, NoCommandLost, Unsettled
  <2>3. QED
    BY <2>1, <2>2, InitInv
<1>2. TypeInv /\ HandsInv /\ NoCommandLost /\ [Next]_vars
        => (TypeInv /\ HandsInv /\ NoCommandLost)'
  BY TypeInvStep, HandsStep, NoCommandLostStep
<1>3. QED
  BY <1>1, <1>2, PTL DEF Spec

------------------------------------------------------------------------------
(* Sequences of commands again: what is in them, and that it is there once.   *)

Once(s) == \A i, j \in DOMAIN s : s[i].exec = s[j].exec => i = j

(* A concatenation has nothing its parts do not have.                         *)
LEMMA HasOfConcat ==
  ASSUME NEW s \in Seq(Command), NEW t \in Seq(Command), NEW e, Has(s \o t, e)
  PROVE  Has(s, e) \/ Has(t, e)
<1>1. /\ Len(s) \in Nat /\ Len(t) \in Nat
      /\ DOMAIN s = 1..Len(s) /\ DOMAIN t = 1..Len(t)
      /\ DOMAIN (s \o t) = 1..(Len(s) + Len(t))
      /\ \A i \in 1..Len(s) : (s \o t)[i] = s[i]
      /\ \A i \in 1..Len(t) : (s \o t)[Len(s) + i] = t[i]
  OBVIOUS
<1>2. PICK i \in 1..(Len(s) + Len(t)) : (s \o t)[i].exec = e
  BY <1>1 DEF Has
<1>3. CASE i <= Len(s)
  <2>1. i \in DOMAIN s /\ s[i].exec = e
    BY <1>1, <1>2, <1>3
  <2>2. QED
    BY <2>1 DEF Has
<1>4. CASE i > Len(s)
  <2>1. i - Len(s) \in 1..Len(t) /\ Len(s) + (i - Len(s)) = i
    BY <1>1, <1>2, <1>4
  <2>2. i - Len(s) \in DOMAIN t /\ t[i - Len(s)].exec = e
    BY <1>1, <1>2, <2>1
  <2>3. QED
    BY <2>2 DEF Has
<1>5. QED
  BY <1>1, <1>2, <1>3, <1>4

(* Two parts without a command in common, each having its own once.           *)
LEMMA OnceConcat ==
  ASSUME NEW s \in Seq(Command), NEW t \in Seq(Command), Once(s), Once(t),
         \A e \in Execs : ~(Has(s, e) /\ Has(t, e))
  PROVE  Once(s \o t)
<1> DEFINE u == s \o t
<1>1. /\ Len(s) \in Nat /\ Len(t) \in Nat
      /\ DOMAIN s = 1..Len(s) /\ DOMAIN t = 1..Len(t)
      /\ DOMAIN u = 1..(Len(s) + Len(t))
      /\ \A i \in 1..Len(s) : u[i] = s[i]
      /\ \A i \in 1..Len(t) : u[Len(s) + i] = t[i]
  OBVIOUS
<1>2. \A i \in DOMAIN s : s[i].exec \in Execs
  <2>1. \A i \in DOMAIN s : s[i] \in Command
    BY <1>1
  <2>2. QED
    BY <2>1 DEF Command
<1> HIDE DEF u
<1>3. \A i \in DOMAIN u : i > Len(s) =>
        i - Len(s) \in DOMAIN t /\ u[i] = t[i - Len(s)]
  <2>1. \A i \in DOMAIN u : i > Len(s) =>
          i - Len(s) \in 1..Len(t) /\ Len(s) + (i - Len(s)) = i
    BY <1>1
  <2>2. QED
    BY <1>1, <2>1
<1>4. \A i \in DOMAIN u : i <= Len(s) => i \in DOMAIN s /\ u[i] = s[i]
  BY <1>1
<1>5. ASSUME NEW i \in DOMAIN u, NEW j \in DOMAIN u, u[i].exec = u[j].exec
      PROVE  i = j
  <2>1. CASE i <= Len(s) /\ j <= Len(s)
    BY <1>4, <1>5, <2>1 DEF Once
  <2>2. CASE i > Len(s) /\ j > Len(s)
    <3>1. i - Len(s) = j - Len(s)
      BY <1>3, <1>5, <2>2 DEF Once
    <3>2. QED
      BY <1>1, <3>1
  <2>3. CASE i <= Len(s) /\ j > Len(s)
    BY <1>2, <1>3, <1>4, <1>5, <2>3 DEF Has
  <2>4. CASE i > Len(s) /\ j <= Len(s)
    BY <1>2, <1>3, <1>4, <1>5, <2>4 DEF Has
  <2>5. QED
    BY <1>1, <2>1, <2>2, <2>3, <2>4
<1>6. QED
  BY <1>5 DEF Once, u

(* One more command, that was not there.                                      *)
LEMMA OnceAppend ==
  ASSUME NEW s \in Seq(Command), NEW x \in Command
  PROVE  /\ \A e : Has(Append(s, x), e) => Has(s, e) \/ x.exec = e
         /\ Once(s) /\ ~Has(s, x.exec) => Once(Append(s, x))
<1> DEFINE t == Append(s, x)
<1>1. /\ Len(s) \in Nat /\ DOMAIN s = 1..Len(s) /\ DOMAIN t = 1..(Len(s) + 1)
      /\ \A i \in 1..Len(s) : t[i] = s[i]
      /\ t[Len(s) + 1] = x
  OBVIOUS
<1> HIDE DEF t
<1>2. \A i \in DOMAIN t : (i \in DOMAIN s /\ t[i] = s[i]) \/ (i = Len(s) + 1 /\ t[i] = x)
  BY <1>1
<1>3. \A e : Has(t, e) => Has(s, e) \/ x.exec = e
  BY <1>2 DEF Has
<1>4. Once(s) /\ ~Has(s, x.exec) => Once(t)
  BY <1>2 DEF Has, Once
<1>5. QED
  BY <1>3, <1>4 DEF t

(* The first n commands and the others have what was there, and nothing of it *)
(* is in both.                                                                *)
LEMMA OnceSplit ==
  ASSUME NEW s \in Seq(Command), NEW n \in Nat, n <= Len(s)
  PROVE  LET a == SubSeq(s, 1, n)
             b == SubSeq(s, n + 1, Len(s))
         IN  /\ \A e : Has(a, e) \/ Has(b, e) => Has(s, e)
             /\ Once(s) => /\ Once(a) /\ Once(b)
                           /\ \A e : ~(Has(a, e) /\ Has(b, e))
<1> DEFINE a == SubSeq(s, 1, n)
           b == SubSeq(s, n + 1, Len(s))
<1>1. Len(s) \in Nat /\ DOMAIN s = 1..Len(s)
  OBVIOUS
<1>2. DOMAIN a = 1..n /\ \A i \in 1..n : a[i] = s[i]
  BY <1>1
<1>3. DOMAIN b = 1..(Len(s) - n) /\ \A i \in 1..(Len(s) - n) : b[i] = s[n + i]
  BY <1>1
<1> HIDE DEF a, b
<1>4. \A i \in DOMAIN a : i \in DOMAIN s /\ i <= n /\ a[i] = s[i]
  BY <1>1, <1>2
<1>5. \A i \in DOMAIN b : i \in Int /\ n + i \in DOMAIN s /\ n + i > n /\ b[i] = s[n + i]
  BY <1>1, <1>3
<1>6. \A e : Has(a, e) \/ Has(b, e) => Has(s, e)
  BY <1>4, <1>5 DEF Has
<1>7. ASSUME Once(s) PROVE Once(a)
  BY <1>4, <1>7 DEF Once
<1>8. ASSUME Once(s) PROVE Once(b)
  <2>1. ASSUME NEW i \in DOMAIN b, NEW j \in DOMAIN b, b[i].exec = b[j].exec
        PROVE  i = j
    <3>1. n + i = n + j
      BY <1>5, <1>8, <2>1 DEF Once
    <3>2. QED
      BY <1>5, <3>1
  <2>2. QED
    BY <2>1 DEF Once
<1>9. ASSUME Once(s), NEW e, Has(a, e), Has(b, e) PROVE FALSE
  <2>1. PICK i \in DOMAIN a : a[i].exec = e
    BY <1>9 DEF Has
  <2>2. PICK j \in DOMAIN b : b[j].exec = e
    BY <1>9 DEF Has
  <2>3. i = n + j
    BY <1>4, <1>5, <1>9, <2>1, <2>2 DEF Once
  <2>4. QED
    BY <1>4, <1>5, <2>3
<1>10. QED
  BY <1>6, <1>7, <1>8, <1>9 DEF a, b

(* The head, and what is behind it.                                           *)
LEMMA OnceTail ==
  ASSUME NEW s \in Seq(Command), s # <<>>
  PROVE  /\ Has(s, Head(s).exec) /\ Head(s) \in Command
         /\ \A e : Has(Tail(s), e) => Has(s, e)
         /\ Once(s) => Once(Tail(s)) /\ ~Has(Tail(s), Head(s).exec)
<1> DEFINE t == Tail(s)
<1>1. /\ Len(s) \in Nat /\ Len(s) > 0 /\ DOMAIN s = 1..Len(s) /\ Head(s) = s[1]
      /\ DOMAIN t = 1..(Len(s) - 1) /\ Head(s) \in Command
      /\ \A i \in 1..(Len(s) - 1) : t[i] = s[i + 1]
  OBVIOUS
<1> HIDE DEF t
<1>2. \A i \in DOMAIN t : i \in Nat \ {0} /\ i + 1 \in DOMAIN s /\ t[i] = s[i + 1]
  BY <1>1
<1>3. 1 \in DOMAIN s
  BY <1>1
<1>4. Has(s, Head(s).exec) /\ \A e : Has(t, e) => Has(s, e)
  BY <1>1, <1>2, <1>3 DEF Has
<1>5. ASSUME Once(s) PROVE Once(t)
  <2>1. ASSUME NEW i \in DOMAIN t, NEW j \in DOMAIN t, t[i].exec = t[j].exec
        PROVE  i = j
    <3>1. i + 1 = j + 1
      BY <1>2, <1>5, <2>1 DEF Once
    <3>2. QED
      BY <1>2, <3>1
  <2>2. QED
    BY <2>1 DEF Once
<1>6. ASSUME Once(s), Has(t, Head(s).exec) PROVE FALSE
  <2>1. PICK i \in DOMAIN t : t[i].exec = s[1].exec
    BY <1>1, <1>6 DEF Has
  <2>2. i + 1 = 1
    BY <1>2, <1>3, <1>6, <2>1 DEF Once
  <2>3. QED
    BY <1>2, <2>2
<1>7. QED
  BY <1>1, <1>4, <1>5, <1>6 DEF t

------------------------------------------------------------------------------
(* Where the commands go in a step.                                           *)

Waits(e) == Has(queue, e) \/ \E c \in Clients : Has(cmds[c], e)
Resets(c, e) == pc[c] = "reset" /\ req[c].exec = e

(* Going on with the next command of a request puts in its hands what it has  *)
(* produced, also when that is nothing and the request returns.               *)
LEMMA NextCommandHolds ==
  ASSUME TypeInv, NEW c \in Clients, NEW todo, NextCommand(c, todo)
  PROVE  /\ cmds'[c] = todo
         /\ \A d \in Clients : d # c => cmds'[d] = cmds[d] /\ pc'[d] = pc[d] /\ req'[d] = req[d]
         /\ pc'[c] # "reset" /\ pc'[c] # "insert"
<1>1. cmds' = [cmds EXCEPT ![c] = todo]
  BY DEF NextCommand, Return
<1>2. /\ pc' = [pc EXCEPT ![c] = "lookup"] \/ pc' = [pc EXCEPT ![c] = "put"]
                                           \/ pc' = [pc EXCEPT ![c] = "idle"]
      /\ \E r : req' = [req EXCEPT ![c] = r] \/ UNCHANGED req
  BY DEF NextCommand, Return
<1>3. QED
  BY <1>1, <1>2 DEF TypeInv, TypeOK

LEMMA LookupFlow ==
  ASSUME TypeInv, NEW c \in Clients, Lookup(c)
  PROVE  /\ UNCHANGED <<status, queue, worker, effects, faults>>
         /\ \A d \in Clients : cmds'[d] = cmds[d]
         /\ \A d \in Clients : pc'[d] = "reset" => pc[d] = "reset" /\ req'[d] = req[d]
<1>1. UNCHANGED <<status, queue, worker, effects, faults>>
  BY DEF Lookup, dbVars, rowVars, countVars
<1>2. CASE NextCommand(c, cmds[c])
  BY <1>1, <1>2, NextCommandHolds
<1>3. CASE pc' = [pc EXCEPT ![c] = "insert"] /\ UNCHANGED <<req, cmds>>
  BY <1>1, <1>3 DEF TypeInv, TypeOK
<1>4. QED
  BY <1>2, <1>3 DEF Lookup

(* A new row, and its command in the hands of its request.                    *)
LEMMA InsertFlow ==
  ASSUME TypeInv, NEW c \in Clients, Insert(c)
  PROVE  \E f \in Execs, x \in Command :
           /\ status[f] = "absent" /\ x.exec = f
           /\ status' = [status EXCEPT ![f] = "pending"]
           /\ UNCHANGED <<queue, worker, effects, faults>>
           /\ cmds'[c] = Append(cmds[c], x)
           /\ \A d \in Clients : d # c => cmds'[d] = cmds[d]
           /\ \A d \in Clients : pc'[d] = "reset" => pc[d] = "reset" /\ req'[d] = req[d]
<1> DEFINE b == req[c].key[1] \in BarricadeTokens
<1>1. PICK f \in Execs :
        /\ status[f] = "absent" /\ CreateRow(f, req[c].key)
        /\ NextCommand(c, Append(cmds[c], [exec |-> f, barricades |-> b]))
  BY DEF Insert
<1> DEFINE x == [exec |-> f, barricades |-> b]
<1>2. UNCHANGED <<queue, worker, effects, faults>>
  BY DEF Insert, countVars
<1>3. x \in Command /\ x.exec = f
  <2>1. b \in BOOLEAN
    OBVIOUS
  <2> HIDE DEF b
  <2>2. QED
    BY <2>1, CommandIntro
<1>4. NextCommand(c, Append(cmds[c], x))
  BY <1>1
<1> HIDE DEF x
<1>5. /\ cmds'[c] = Append(cmds[c], x)
      /\ \A d \in Clients : d # c => cmds'[d] = cmds[d]
      /\ \A d \in Clients : pc'[d] = "reset" => pc[d] = "reset" /\ req'[d] = req[d]
  BY <1>4, NextCommandHolds
<1>6. QED
  BY <1>1, <1>2, <1>3, <1>5 DEF CreateRow

(* A request that fails leaves with what it held, its row written or not.     *)
LEMMA FaultFlow ==
  ASSUME TypeInv, NEW c \in Clients, EnqueueFault(c) \/ RetryFault(c)
  PROVE  /\ \/ UNCHANGED status
            \/ \E f \in Execs : status[f] = "absent" /\ status' = [status EXCEPT ![f] = "pending"]
         /\ UNCHANGED <<queue, worker, effects>> /\ faults' = faults + 1
         /\ cmds'[c] = <<>>
         /\ \A d \in Clients : d # c => cmds'[d] = cmds[d]
         /\ \A d \in Clients : pc'[d] = "reset" => pc[d] = "reset" /\ req'[d] = req[d]
<1>1. Return(c) /\ UNCHANGED <<queue, worker, effects>> /\ faults' = faults + 1
  BY DEF EnqueueFault, RetryFault, Raise
<1>2. \/ UNCHANGED status
      \/ \E f \in Execs : status[f] = "absent" /\ status' = [status EXCEPT ![f] = "pending"]
  BY DEF EnqueueFault, RetryFault, dbVars, rowVars, CreateRow
<1>3. QED
  BY <1>1, <1>2 DEF TypeInv, TypeOK, Return

(* From the hands of a request to the queue, all of it or what fits.          *)
LEMMA PutFlow ==
  ASSUME TypeInv, NEW c \in Clients, Put(c)
  PROVE  /\ UNCHANGED <<status, worker, effects, faults>>
         /\ \E s, t \in Seq(Command) :
              /\ queue' = queue \o s /\ cmds'[c] = t
              /\ \A e : Has(s, e) \/ Has(t, e) => Has(cmds[c], e)
              /\ Once(cmds[c]) => Once(s) /\ Once(t) /\ \A e : ~(Has(s, e) /\ Has(t, e))
         /\ \A d \in Clients : d # c => cmds'[d] = cmds[d]
         /\ \A d \in Clients : pc'[d] = "reset" => pc[d] = "reset" /\ req'[d] = req[d]
<1> DEFINE room == QueueCap - Len(queue)
           todo == cmds[c]
           outcome(s, t) ==
             /\ queue' = queue \o s /\ cmds'[c] = t
             /\ \A e : Has(s, e) \/ Has(t, e) => Has(todo, e)
             /\ Once(todo) => Once(s) /\ Once(t) /\ \A e : ~(Has(s, e) /\ Has(t, e))
<1>1. UNCHANGED <<status, worker, effects, faults>> /\ pc[c] = "put"
  BY DEF Put, dbVars, rowVars, countVars
<1>2. cmds \in [Clients -> Seq(Command)] /\ pc \in [Clients -> ClientPc]
      /\ req \in [Clients -> [key : Key \cup {NoKey}, exec : Execs \cup {NoExec}]]
  BY DEF TypeInv, TypeOK
<1>3. todo \in Seq(Command) /\ Len(todo) \in Nat /\ room \in Nat
  <2>1. todo \in Seq(Command) /\ Len(todo) \in Nat
    BY <1>2, LenProperties
  <2>2. queue \in Seq(Command) /\ Len(queue) \in Nat /\ Len(queue) <= QueueCap
    BY Types, LenProperties
  <2>3. QED
    BY <2>1, <2>2, BrokerAssumption
<1>4. CASE Len(todo) <= room /\ queue' = queue \o todo /\ Return(c)
  <2>1. cmds'[c] = <<>> /\ \A d \in Clients : d # c => cmds'[d] = cmds[d]
    BY <1>2, <1>4 DEF Return
  <2>2. \A d \in Clients : pc'[d] = "reset" => pc[d] = "reset" /\ req'[d] = req[d]
    BY <1>2, <1>4 DEF Return
  <2>3. Once(<<>>) /\ \A e : ~Has(<<>>, e)
    BY DEF Once, Has
  <2> HIDE DEF todo
  <2>4. outcome(todo, <<>>) /\ <<>> \in Seq(Command)
    BY <1>4, <2>1, <2>3
  <2>5. QED
    BY <1>1, <1>3, <2>1, <2>2, <2>4 DEF todo
<1>5. CASE /\ Len(todo) > room
           /\ queue' = queue \o SubSeq(todo, 1, room)
           /\ cmds' = [cmds EXCEPT ![c] = SubSeq(todo, room + 1, Len(todo))]
           /\ UNCHANGED <<pc, req>>
  <2> DEFINE s == SubSeq(todo, 1, room)
             t == SubSeq(todo, room + 1, Len(todo))
  <2>1. cmds'[c] = t /\ \A d \in Clients : d # c => cmds'[d] = cmds[d]
    BY <1>2, <1>5
  <2>2. queue' = queue \o s
    BY <1>5
  <2>3. s \in Seq(Command) /\ t \in Seq(Command)
    <3>1. room <= Len(todo)
      BY <1>3, <1>5
    <3> HIDE DEF todo, room
    <3>2. QED
      BY <1>3, <3>1, SubSeqProperties
  <2>4. /\ \A e : Has(s, e) \/ Has(t, e) => Has(todo, e)
        /\ Once(todo) => Once(s) /\ Once(t) /\ \A e : ~(Has(s, e) /\ Has(t, e))
    <3>1. room <= Len(todo)
      BY <1>3, <1>5
    <3> HIDE DEF todo, room
    <3>2. QED
      BY <1>3, <3>1, OnceSplit
  <2> HIDE DEF s, t, todo
  <2>5. outcome(s, t)
    BY <2>1, <2>2, <2>4
  <2>6. QED
    BY <1>1, <1>5, <2>1, <2>3, <2>5 DEF todo
<1>6. QED
  BY <1>4, <1>5 DEF Put

(* The dead letter is pending again, and in the hands of its request.         *)
LEMMA ResetFlow ==
  ASSUME TypeInv, NEW c \in Clients, RetryReset(c)
  PROVE  \E f \in Execs, x \in Command :
           /\ Resets(c, f) /\ x.exec = f
           /\ status' = [status EXCEPT ![f] = "pending"]
           /\ UNCHANGED <<queue, worker, effects, faults>>
           /\ cmds'[c] = <<x>> /\ pc'[c] # "reset"
           /\ \A d \in Clients : d # c => cmds'[d] = cmds[d] /\ pc'[d] = pc[d]
           /\ UNCHANGED req
<1>1. PICK f \in Execs : f = req[c].exec
  BY DEF RetryReset, TypeInv, ClientInv
<1> DEFINE x == [exec |-> f, barricades |-> FALSE]
<1>2. x \in Command /\ x.exec = f
  BY CommandIntro
<1>3. /\ UNCHANGED <<queue, worker, effects, faults, req>> /\ Resets(c, f)
      /\ status' = [status EXCEPT ![f] = "pending"]
      /\ cmds' = [cmds EXCEPT ![c] = <<x>>] /\ pc' = [pc EXCEPT ![c] = "put"]
  BY <1>1 DEF RetryReset, UpdateRow, countVars, Resets
<1> HIDE DEF x
<1>4. /\ cmds'[c] = <<x>> /\ pc'[c] # "reset"
      /\ \A d \in Clients : d # c => cmds'[d] = cmds[d] /\ pc'[d] = pc[d]
  BY <1>3 DEF TypeInv, TypeOK
<1>5. QED
  BY <1>2, <1>3, <1>4

(* From the queue to the worker.                                              *)
LEMMA TakeFlow ==
  ASSUME TypeInv, Take
  PROVE  /\ UNCHANGED <<status, cmds, pc, req, effects, faults>>
         /\ worker.pc = "idle" /\ worker'.pc = "start"
         /\ worker'.cmd.exec \in Execs /\ Has(queue, worker'.cmd.exec)
         /\ \A e : Has(queue', e) => Has(queue, e)
         /\ Once(queue) => Once(queue') /\ ~Has(queue', worker'.cmd.exec)
<1>1. /\ UNCHANGED <<status, cmds, pc, req, effects, faults>> /\ queue # <<>>
      /\ worker.pc = "idle" /\ worker'.pc = "start"
      /\ worker'.cmd = Head(queue) /\ queue' = Tail(queue)
  BY DEF Take, dbVars, rowVars, clientVars, countVars
<1>2. queue \in Seq(Command)
  BY Types
<1>3. Head(queue) \in Command /\ Head(queue).exec \in Execs
  BY <1>1, <1>2, OnceTail DEF Command
<1>4. QED
  BY <1>1, <1>2, <1>3, OnceTail

(* The worker keeps its command or leaves it, and writes its row or not.      *)
WorkerGoes ==
  \/ MarkProcessing \/ StationAnswers \/ RecordAck \/ MarkAcknowledged \/ RecordFailure
  \/ MarkRetrying \/ MarkDeadLetter \/ NextAttempt \/ DropCommand \/ CatchException

LEMMA WorkerFlow ==
  ASSUME TypeInv, WorkerGoes
  PROVE  /\ worker.pc # "idle" /\ Exec \in Execs
         /\ UNCHANGED <<key, queue, cmds, pc, req>>
         /\ \/ UNCHANGED status
            \/ \E s \in Status \ {"absent"} : status' = [status EXCEPT ![Exec] = s]
         /\ worker' = IdleWorker \/ worker'.cmd = worker.cmd
<1>1. worker.pc # "idle" /\ UNCHANGED <<key, queue, cmds, pc, req>>
  BY DEF WorkerGoes, MarkProcessing, StationAnswers, RecordAck, MarkAcknowledged, RecordFailure,
     MarkRetrying, MarkDeadLetter, NextAttempt, DropCommand, CatchException, UpdateRow,
     dbVars, rowVars, clientVars
<1>2. \/ UNCHANGED status
      \/ \E s \in Status \ {"absent"} : status' = [status EXCEPT ![Exec] = s]
  BY DEF WorkerGoes, MarkProcessing, StationAnswers, RecordAck, MarkAcknowledged, RecordFailure,
     MarkRetrying, MarkDeadLetter, NextAttempt, DropCommand, CatchException, UpdateRow,
     dbVars, rowVars, Status, Settled, Unsettled
<1>3. worker \in BusyWorker /\ Exec \in Execs
  BY <1>1, BusyWorkerType DEF TypeInv
<1>4. worker' = IdleWorker \/ worker'.cmd = worker.cmd
  BY <1>3 DEF WorkerGoes, MarkProcessing, StationAnswers, RecordAck, MarkAcknowledged,
     RecordFailure, MarkRetrying, MarkDeadLetter, NextAttempt, DropCommand, CatchException,
     GoTo, BusyWorker
<1>5. QED
  BY <1>1, <1>2, <1>3, <1>4

(* What a request does before it has anything to enqueue.                     *)
LEMMA AskFlow ==
  ASSUME TypeInv,
         \/ \E c \in Approvers, t \in Tokens : Submit(c, t)
         \/ \E c \in Operators, e \in Execs : RetryRead(c, e)
  PROVE  /\ UNCHANGED <<status, key, queue, worker, cmds, effects, faults>>
         /\ \A d \in Clients, f \in Execs : Resets(d, f)' => Resets(d, f) \/ status[f] = "dead_letter"
<1>1. UNCHANGED <<status, key, queue, worker, cmds, effects, faults>>
  BY DEF Submit, RetryRead, dbVars, rowVars, countVars
<1>2. ASSUME NEW c \in Approvers, NEW t \in Tokens, Submit(c, t)
      PROVE  \A d \in Clients, f \in Execs : Resets(d, f)' => Resets(d, f)
  <2>1. c \in Clients /\ pc' = [pc EXCEPT ![c] = "lookup"]
        /\ \E r : req' = [req EXCEPT ![c] = r]
    BY <1>2 DEF Submit, Clients
  <2>2. QED
    BY <2>1 DEF TypeInv, TypeOK, Resets
<1>3. ASSUME NEW c \in Operators, NEW e \in Execs, RetryRead(c, e)
      PROVE  \A d \in Clients, f \in Execs : Resets(d, f)' => Resets(d, f) \/ status[f] = "dead_letter"
  <2>1. c \in Clients /\ pc' = [pc EXCEPT ![c] = "reset"] /\ status[e] = "dead_letter"
    BY <1>3 DEF RetryRead, Clients
  <2>2. req'[c].exec = e /\ \A d \in Clients : d # c => req'[d] = req[d]
    BY <1>3, <2>1, SetExecType DEF RetryRead, TypeInv, ClientInv
  <2>3. QED
    BY <2>1, <2>2 DEF TypeInv, TypeOK, Resets
<1>4. QED
  BY <1>1, <1>2, <1>3

(* What neither the rows nor the commands notice.                             *)
LEMMA QuietFlow ==
  ASSUME (\E g \in {"open", "closed"} : SetGate(g)) \/ Stop \/ Stopped \/ Start \/ UNCHANGED vars
  PROVE  UNCHANGED <<status, key, queue, worker, cmds, pc, req, effects, faults>>
BY DEF SetGate, Stop, Stopped, Start, vars, dbVars, rowVars, clientVars, countVars

LEMMA LoseFlow ==
  ASSUME Lose
  PROVE  /\ UNCHANGED <<status, key, effects, faults>>
         /\ queue' = <<>> /\ worker' = IdleWorker
         /\ \A c \in Clients : cmds'[c] = <<>> /\ pc'[c] = "idle"
BY DEF Lose, dbVars, rowVars

(* The steps of Next, as the lemmas above divide them.                        *)
LEMMA NextCases ==
  ASSUME [Next]_vars
  PROVE  \/ \E c \in Approvers, t \in Tokens : Submit(c, t)
         \/ \E c \in Operators, e \in Execs : RetryRead(c, e)
         \/ \E c \in Clients : Lookup(c)
         \/ \E c \in Clients : Insert(c)
         \/ \E c \in Clients : Put(c)
         \/ \E c \in Clients : RetryReset(c)
         \/ \E c \in Clients : EnqueueFault(c) \/ RetryFault(c)
         \/ Take
         \/ WorkerGoes
         \/ Lose
         \/ (\E g \in {"open", "closed"} : SetGate(g)) \/ Stop \/ Stopped \/ Start \/ UNCHANGED vars
BY DEF Next, RequestStep, WorkerStep, WorkerGoes

------------------------------------------------------------------------------
(* A command that is waiting, processed or about to be reset has a row.       *)

PresentInv ==
  \A e \in Execs :
    Waits(e) \/ worker.cmd.exec = e \/ (\E c \in Clients : Resets(c, e)) => status[e] # "absent"

(* It is enough to say where a waiting command comes from, and what the       *)
(* worker and the requests turn to.                                           *)
LEMMA PresentKept ==
  ASSUME PresentInv,
         NEW e \in Execs,
         status[e] # "absent" => status'[e] # "absent",
         Waits(e)' => Waits(e) \/ status'[e] # "absent",
         worker'.cmd.exec = e => worker.cmd.exec = e \/ Waits(e),
         \A c \in Clients : Resets(c, e)' => Resets(c, e) \/ status[e] = "dead_letter"
  PROVE  Waits(e)' \/ worker'.cmd.exec = e \/ (\E c \in Clients : Resets(c, e)')
           => status'[e] # "absent"
BY DEF PresentInv

LEMMA PresentStep ==
  ASSUME TypeInv, PresentInv, [Next]_vars
  PROVE  PresentInv'
<1>0. status \in [Execs -> Status]
  BY DEF TypeInv, TypeOK
<1> SUFFICES ASSUME NEW e \in Execs
             PROVE  Waits(e)' \/ worker'.cmd.exec = e \/ (\E c \in Clients : Resets(c, e)')
                      => status'[e] # "absent"
  BY DEF PresentInv
<1>1. CASE \/ \E c \in Approvers, t \in Tokens : Submit(c, t)
           \/ \E f \in Operators, g \in Execs : RetryRead(f, g)
  <2>1. /\ UNCHANGED <<status, queue, worker, cmds>>
        /\ \A c \in Clients : Resets(c, e)' => Resets(c, e) \/ status[e] = "dead_letter"
    BY <1>1, AskFlow
  <2>2. Waits(e)' <=> Waits(e)
    BY <2>1 DEF Waits, Has
  <2>3. QED
    BY <2>1, <2>2, PresentKept
<1>2. ASSUME NEW c \in Clients, Lookup(c)
      PROVE  Waits(e)' \/ worker'.cmd.exec = e \/ (\E d \in Clients : Resets(d, e)')
               => status'[e] # "absent"
  <2>1. /\ UNCHANGED <<status, queue, worker>> /\ \A d \in Clients : cmds'[d] = cmds[d]
        /\ \A d \in Clients : pc'[d] = "reset" => pc[d] = "reset" /\ req'[d] = req[d]
    BY <1>2, LookupFlow
  <2>2. Waits(e)' <=> Waits(e)
    BY <2>1 DEF Waits, Has
  <2>3. \A d \in Clients : Resets(d, e)' => Resets(d, e)
    BY <2>1 DEF Resets
  <2>4. QED
    BY <2>1, <2>2, <2>3, PresentKept
<1>3. ASSUME NEW c \in Clients, Insert(c)
      PROVE  Waits(e)' \/ worker'.cmd.exec = e \/ (\E d \in Clients : Resets(d, e)')
               => status'[e] # "absent"
  <2>1. PICK f \in Execs, x \in Command :
          /\ status[f] = "absent" /\ x.exec = f
          /\ status' = [status EXCEPT ![f] = "pending"]
          /\ UNCHANGED <<queue, worker>>
          /\ cmds'[c] = Append(cmds[c], x)
          /\ \A d \in Clients : d # c => cmds'[d] = cmds[d]
          /\ \A d \in Clients : pc'[d] = "reset" => pc[d] = "reset" /\ req'[d] = req[d]
    BY <1>3, InsertFlow
  <2>2. cmds[c] \in Seq(Command)
    BY DEF TypeInv, TypeOK
  <2>3. Has(cmds'[c], e) => Has(cmds[c], e) \/ e = f
    BY <2>1, <2>2, OnceAppend
  <2>4. status'[e] = IF e = f THEN "pending" ELSE status[e]
    BY <1>0, <2>1
  <2>5. \A d \in Clients : Has(cmds'[d], e) => Has(cmds[d], e) \/ e = f
    BY <2>1, <2>3
  <2>6. Waits(e)' => Waits(e) \/ status'[e] # "absent"
    BY <2>1, <2>4, <2>5 DEF Waits, Has
  <2>7. \A d \in Clients : Resets(d, e)' => Resets(d, e)
    BY <2>1 DEF Resets
  <2>8. QED
    BY <2>1, <2>4, <2>6, <2>7, PresentKept
<1>4. ASSUME NEW c \in Clients, Put(c)
      PROVE  Waits(e)' \/ worker'.cmd.exec = e \/ (\E d \in Clients : Resets(d, e)')
               => status'[e] # "absent"
  <2>1. /\ UNCHANGED <<status, worker>>
        /\ \A d \in Clients : d # c => cmds'[d] = cmds[d]
        /\ \A d \in Clients : pc'[d] = "reset" => pc[d] = "reset" /\ req'[d] = req[d]
    BY <1>4, PutFlow
  <2>2. PICK s \in Seq(Command), t \in Seq(Command) :
          /\ queue' = queue \o s /\ cmds'[c] = t
          /\ \A g : Has(s, g) \/ Has(t, g) => Has(cmds[c], g)
    BY <1>4, PutFlow
  <2>3. queue \in Seq(Command)
    BY Types
  <2>4. Has(queue', e) => Has(queue, e) \/ Has(cmds[c], e)
    BY <2>2, <2>3, HasOfConcat
  <2>5. \A d \in Clients : Has(cmds'[d], e) => Has(cmds[d], e)
    BY <2>1, <2>2
  <2>6. Waits(e)' => Waits(e)
    BY <2>4, <2>5 DEF Waits, Has
  <2>7. \A d \in Clients : Resets(d, e)' => Resets(d, e)
    BY <2>1 DEF Resets
  <2>8. QED
    BY <2>1, <2>6, <2>7, PresentKept
<1>5. ASSUME NEW c \in Clients, RetryReset(c)
      PROVE  Waits(e)' \/ worker'.cmd.exec = e \/ (\E d \in Clients : Resets(d, e)')
               => status'[e] # "absent"
  <2>1. PICK f \in Execs, x \in Command :
          /\ x.exec = f /\ status' = [status EXCEPT ![f] = "pending"]
          /\ UNCHANGED <<queue, worker, req>>
          /\ cmds'[c] = <<x>> /\ pc'[c] # "reset"
          /\ \A d \in Clients : d # c => cmds'[d] = cmds[d] /\ pc'[d] = pc[d]
    BY <1>5, ResetFlow
  <2>2. status'[e] = IF e = f THEN "pending" ELSE status[e]
    BY <1>0, <2>1
  <2>3. Has(<<x>>, e) => e = f
    BY <2>1 DEF Has
  <2>4. \A d \in Clients : Has(cmds'[d], e) => Has(cmds[d], e) \/ e = f
    BY <2>1, <2>3
  <2>5. Waits(e)' => Waits(e) \/ status'[e] # "absent"
    BY <2>1, <2>2, <2>4 DEF Waits, Has
  <2>6. \A d \in Clients : Resets(d, e)' => Resets(d, e)
    BY <2>1 DEF Resets
  <2>7. QED
    BY <2>1, <2>2, <2>5, <2>6, PresentKept
<1>6. ASSUME NEW c \in Clients, EnqueueFault(c) \/ RetryFault(c)
      PROVE  Waits(e)' \/ worker'.cmd.exec = e \/ (\E d \in Clients : Resets(d, e)')
               => status'[e] # "absent"
  <2>1. /\ \/ UNCHANGED status
           \/ \E f \in Execs : status[f] = "absent" /\ status' = [status EXCEPT ![f] = "pending"]
        /\ UNCHANGED <<queue, worker>> /\ cmds'[c] = <<>>
        /\ \A d \in Clients : d # c => cmds'[d] = cmds[d]
        /\ \A d \in Clients : pc'[d] = "reset" => pc[d] = "reset" /\ req'[d] = req[d]
    BY <1>6, FaultFlow
  <2>2. status[e] # "absent" => status'[e] # "absent"
    BY <1>0, <2>1
  <2>3. \A d \in Clients : Has(cmds'[d], e) => Has(cmds[d], e)
    BY <2>1 DEF Has
  <2>4. Waits(e)' => Waits(e)
    BY <2>1, <2>3 DEF Waits, Has
  <2>5. \A d \in Clients : Resets(d, e)' => Resets(d, e)
    BY <2>1 DEF Resets
  <2>6. QED
    BY <2>1, <2>2, <2>4, <2>5, PresentKept
<1>7. CASE Take
  <2>1. /\ UNCHANGED <<status, cmds, pc, req>> /\ Has(queue, worker'.cmd.exec)
        /\ \A g : Has(queue', g) => Has(queue, g)
    BY <1>7, TakeFlow
  <2>2. Has(queue', e) => Has(queue, e)
    BY <2>1
  <2>3. Waits(e)' => Waits(e)
    BY <2>1, <2>2 DEF Waits, Has
  <2>4. worker'.cmd.exec = e => Waits(e)
    BY <2>1 DEF Waits
  <2>5. \A d \in Clients : Resets(d, e)' => Resets(d, e)
    BY <2>1 DEF Resets
  <2>6. QED
    BY <2>1, <2>3, <2>4, <2>5, PresentKept
<1>8. CASE WorkerGoes
  <2>1. /\ Exec \in Execs /\ UNCHANGED <<queue, cmds, pc, req>>
        /\ \/ UNCHANGED status
           \/ \E s \in Status \ {"absent"} : status' = [status EXCEPT ![Exec] = s]
        /\ worker' = IdleWorker \/ worker'.cmd = worker.cmd
    BY <1>8, WorkerFlow
  <2>2. status[e] # "absent" => status'[e] # "absent"
    BY <1>0, <2>1
  <2>3. (Waits(e)' => Waits(e)) /\ \A d \in Clients : Resets(d, e)' => Resets(d, e)
    BY <2>1 DEF Waits, Has, Resets
  <2>4. worker'.cmd.exec = e => worker.cmd.exec = e
    BY <2>1, BrokerAssumption DEF IdleWorker, NoCommand
  <2>5. QED
    BY <2>2, <2>3, <2>4, PresentKept
<1>9. CASE Lose
  <2>1. /\ queue' = <<>> /\ worker' = IdleWorker
        /\ \A c \in Clients : cmds'[c] = <<>> /\ pc'[c] = "idle"
    BY <1>9, LoseFlow
  <2>2. ~Waits(e)' /\ \A c \in Clients : ~Resets(c, e)'
    BY <2>1 DEF Waits, Has, Resets
  <2>3. worker'.cmd.exec # e
    BY <2>1, BrokerAssumption DEF IdleWorker, NoCommand
  <2>4. QED
    BY <2>2, <2>3
<1>10. CASE (\E g \in {"open", "closed"} : SetGate(g)) \/ Stop \/ Stopped \/ Start \/ UNCHANGED vars
  <2>1. UNCHANGED <<status, queue, worker, cmds, pc, req>>
    BY <1>10, QuietFlow
  <2>2. (Waits(e)' => Waits(e)) /\ \A d \in Clients : Resets(d, e)' => Resets(d, e)
    BY <2>1 DEF Waits, Has, Resets
  <2>3. QED
    BY <2>1, <2>2, PresentKept
<1>11. QED
  BY <1>1, <1>2, <1>3, <1>4, <1>5, <1>6, <1>7, <1>8, <1>9, <1>10, NextCases

------------------------------------------------------------------------------
(* One row for each approval and command type.                                *)

(* No two requests are between the idempotency check and the insert for the   *)
(* same approval and command type at once.  Nothing in the code prevents it.  *)
InsertsApart ==
  \A c, d \in Clients :
    pc[c] = "insert" /\ pc[d] = "insert" /\ req[c].key = req[d].key => c = d

(* A request still to insert a row has found none with its key, and none has  *)
(* come since.                                                                *)
RowsInv ==
  /\ \A c \in Clients : pc[c] \in {"lookup", "insert"} => req[c].key \in Key
  /\ \A c \in Clients : pc[c] = "insert" => RowsOf(req[c].key) = {}
  /\ \A e \in Execs : status[e] = "absent" <=> key[e] = NoKey
  /\ SingleExecution

(* The key of a row is a pair.                                                *)
LEMMA KeyIsPair ==
  ASSUME NEW k \in Key
  PROVE  k # NoKey
<1>1. PICK t \in Tokens, type \in CommandType : k = <<t, type>>
  BY DEF Key
<1>2. Len(<<t, type>>) = 2 /\ Len(<<>>) = 0
  OBVIOUS
<1>3. QED
  BY <1>1, <1>2 DEF NoKey

(* Where a request may go without touching the rows.                          *)
Proceeds(c) ==
  \/ pc'[c] \notin {"lookup", "insert"}
  \/ pc'[c] = "lookup" /\ req'[c].key \in Key
  \/ pc'[c] = "insert" /\ req'[c].key \in Key /\ RowsOf(req'[c].key) = {}
  \/ pc'[c] = pc[c] /\ req'[c] = req[c]

(* No row is created and no key changes.                                      *)
RowsStay == UNCHANGED key /\ \A e \in Execs : status'[e] = "absent" <=> status[e] = "absent"

LEMMA RowsStayKept ==
  ASSUME RowsInv, RowsStay, \A c \in Clients : Proceeds(c)
  PROVE  RowsInv'
<1>1. \A k : RowsOf(k)' = RowsOf(k)
  BY DEF RowsStay, RowsOf
<1>2. ASSUME NEW c \in Clients
      PROVE  /\ pc'[c] \in {"lookup", "insert"} => req'[c].key \in Key
             /\ pc'[c] = "insert" => RowsOf(req'[c].key) = {}
  BY <1>2 DEF Proceeds, RowsInv
<1>3. ASSUME NEW c \in Clients, pc'[c] = "insert"
      PROVE  RowsOf(req[c].key)' = {}
  <2>1. RowsOf(req'[c].key) = {}
    BY <1>2, <1>3
  <2>2. QED
    BY <2>1 DEF RowsStay, RowsOf
<1>4. SingleExecution' /\ \A e \in Execs : status'[e] = "absent" <=> key'[e] = NoKey
  BY DEF RowsInv, RowsStay, SingleExecution
<1>5. QED
  BY <1>2, <1>3, <1>4 DEF RowsInv

(* The request that inserts a row leaves; the others are not about to insert  *)
(* one with the same key.                                                     *)
LEMMA RowCreatedKept ==
  ASSUME TypeInv, RowsInv, InsertsApart,
         NEW c \in Clients, pc[c] = "insert", NEW e \in Execs, status[e] = "absent",
         CreateRow(e, req[c].key),
         pc'[c] # "insert", pc'[c] = "lookup" => req'[c].key \in Key,
         \A d \in Clients : d # c => pc'[d] = pc[d] /\ req'[d] = req[d]
  PROVE  RowsInv'
<1> DEFINE k == req[c].key
<1>1. k \in Key /\ k # NoKey /\ RowsOf(k) = {}
  BY KeyIsPair DEF RowsInv
<1>2. status \in [Execs -> Status] /\ key \in [Execs -> Key \cup {NoKey}]
  BY DEF TypeInv, TypeOK
<1>3. /\ status'[e] = "pending" /\ key'[e] = k
      /\ \A f \in Execs : f # e => status'[f] = status[f] /\ key'[f] = key[f]
  BY <1>2 DEF CreateRow
<1> HIDE DEF k
<1>4. \A f \in Execs : status'[f] = "absent" <=> key'[f] = NoKey
  BY <1>1, <1>3 DEF RowsInv
<1>5. \A f \in Execs : f # e => key'[f] # k
  <2>1. ASSUME NEW f \in Execs, f # e, key[f] = k PROVE FALSE
    <3>1. status[f] # "absent"
      BY <1>1, <2>1 DEF RowsInv
    <3>2. QED
      BY <1>1, <2>1, <3>1 DEF RowsOf
  <2>2. QED
    BY <1>3, <2>1
<1>6. SingleExecution'
  BY <1>3, <1>5 DEF RowsInv, SingleExecution
<1>7. ASSUME NEW d \in Clients
      PROVE  pc'[d] \in {"lookup", "insert"} => req'[d].key \in Key
  BY DEF RowsInv
<1>8. ASSUME NEW d \in Clients, pc'[d] = "insert"
      PROVE  RowsOf(req[d].key)' = {}
  <2>1. d # c /\ pc[d] = "insert" /\ req'[d] = req[d]
    BY <1>8
  <2>2. req'[d].key # k
    BY <2>1 DEF InsertsApart, k
  <2>3. \A f \in Execs : status[f] # "absent" => key[f] # req'[d].key
    BY <2>1 DEF RowsInv, RowsOf
  <2>4. \A f \in Execs : status'[f] # "absent" => key'[f] # req'[d].key
    BY <1>3, <2>2, <2>3
  <2>5. QED
    BY <2>4 DEF RowsOf
<1>9. QED
  BY <1>4, <1>6, <1>7, <1>8 DEF RowsInv

(* A request that goes on with its next command looks up another key, or is   *)
(* done with the rows.                                                        *)
LEMMA NextCommandProceeds ==
  ASSUME TypeInv, NEW c \in Clients, NEW todo, NextCommand(c, todo), req[c].key \in Key
  PROVE  /\ pc'[c] # "insert" /\ (pc'[c] = "lookup" => req'[c].key \in Key)
         /\ \A d \in Clients : d # c => pc'[d] = pc[d] /\ req'[d] = req[d]
<1> DEFINE token == req[c].key[1]
           more == req[c].key[2] = "dispatch" /\ token \in BarricadeTokens
<1>1. ClientTypes /\ pc \in [Clients -> ClientPc]
  BY DEF TypeInv, ClientInv, ClientTypes
<1>2. CASE more /\ pc' = [pc EXCEPT ![c] = "lookup"]
                /\ req' = [req EXCEPT ![c].key = <<token, "barricade">>]
  <2>1. <<token, "barricade">> \in Key
    BY <1>2, BrokerAssumption DEF Key, CommandType
  <2>2. req'[c].key \in Key /\ \A d \in Clients : d # c => req'[d] = req[d]
    BY <1>1, <1>2, <2>1, SetKeyType
  <2>3. QED
    BY <1>1, <1>2, <2>2
<1>3. CASE pc' = [pc EXCEPT ![c] = "put"] /\ UNCHANGED req
  BY <1>1, <1>3
<1>4. CASE Return(c)
  BY <1>1, <1>4 DEF ClientTypes, Return
<1>5. QED
  BY <1>2, <1>3, <1>4 DEF NextCommand

LEMMA ReturnProceeds ==
  ASSUME TypeInv, NEW c \in Clients, Return(c)
  PROVE  pc'[c] = "idle" /\ \A d \in Clients : d # c => pc'[d] = pc[d] /\ req'[d] = req[d]
BY DEF TypeInv, TypeOK, Return

(* Changing the status of a row that is there to another creates none.        *)
LEMMA UpdateStays ==
  ASSUME TypeInv, RowsInv, NEW e \in Execs, status[e] # "absent",
         NEW s \in Status \ {"absent"}, NEW n, UpdateRow(e, s, n)
  PROVE  RowsStay
BY DEF TypeInv, TypeOK, UpdateRow, RowsStay

(* The request that moves; the others are where they were.                    *)
LEMMA OneProceeds ==
  ASSUME NEW c \in Clients, Proceeds(c),
         \A d \in Clients : d # c => pc'[d] = pc[d] /\ req'[d] = req[d]
  PROVE  \A d \in Clients : Proceeds(d)
BY DEF Proceeds

LEMMA RowsStep ==
  ASSUME TypeInv, PresentInv, RowsInv, InsertsApart, [Next]_vars
  PROVE  RowsInv'
<1>0. /\ pc \in [Clients -> ClientPc] /\ status \in [Execs -> Status]
      /\ req \in [Clients -> [key : Key \cup {NoKey}, exec : Execs \cup {NoExec}]]
  BY DEF TypeInv, TypeOK
<1>a. UNCHANGED <<status, key>> => RowsStay
  BY DEF RowsStay
<1>1. ASSUME NEW c \in Approvers, NEW t \in Tokens, Submit(c, t) PROVE RowsInv'
  <2>1. c \in Clients /\ UNCHANGED <<status, key>> /\ pc' = [pc EXCEPT ![c] = "lookup"]
        /\ req' = [req EXCEPT ![c].key = <<t, "dispatch">>]
    BY <1>1 DEF Submit, Clients, dbVars, rowVars
  <2>2. <<t, "dispatch">> \in Key
    BY DEF Key, CommandType
  <2>3. req'[c].key \in Key /\ \A d \in Clients : d # c => req'[d] = req[d]
    BY <2>1, <2>2, SetKeyType DEF TypeInv, ClientInv
  <2>4. Proceeds(c) /\ \A d \in Clients : d # c => pc'[d] = pc[d]
    BY <1>0, <2>1, <2>3 DEF Proceeds
  <2>5. QED
    BY <1>a, <2>1, <2>3, <2>4, OneProceeds, RowsStayKept
<1>2. ASSUME NEW c \in Operators, NEW e \in Execs, RetryRead(c, e) PROVE RowsInv'
  <2>1. c \in Clients /\ UNCHANGED <<status, key>> /\ pc' = [pc EXCEPT ![c] = "reset"]
    BY <1>2 DEF RetryRead, Clients, dbVars, rowVars
  <2>2. \A d \in Clients : d # c => req'[d] = req[d]
    BY <1>2, <2>1, SetExecType DEF RetryRead, TypeInv, ClientInv
  <2>3. Proceeds(c) /\ \A d \in Clients : d # c => pc'[d] = pc[d]
    BY <1>0, <2>1 DEF Proceeds
  <2>4. QED
    BY <1>a, <2>1, <2>2, <2>3, OneProceeds, RowsStayKept
<1>3. ASSUME NEW c \in Clients, Lookup(c) PROVE RowsInv'
  <2>1. UNCHANGED <<status, key>> /\ req[c].key \in Key
    BY <1>3 DEF Lookup, dbVars, rowVars, RowsInv
  <2>2. CASE NextCommand(c, cmds[c])
    <3>1. Proceeds(c) /\ \A d \in Clients : d # c => pc'[d] = pc[d] /\ req'[d] = req[d]
      BY <2>1, <2>2, NextCommandProceeds DEF Proceeds
    <3>2. QED
      BY <1>a, <2>1, <3>1, OneProceeds, RowsStayKept
  <2>3. CASE /\ RowsOf(req[c].key) = {}
             /\ pc' = [pc EXCEPT ![c] = "insert"] /\ UNCHANGED <<req, cmds>>
    <3>1. Proceeds(c) /\ \A d \in Clients : d # c => pc'[d] = pc[d] /\ req'[d] = req[d]
      BY <1>0, <2>1, <2>3 DEF Proceeds
    <3>2. QED
      BY <1>a, <2>1, <3>1, OneProceeds, RowsStayKept
  <2>4. QED
    BY <1>3, <2>2, <2>3 DEF Lookup
<1>4. ASSUME NEW c \in Clients, Insert(c) PROVE RowsInv'
  <2>1. pc[c] = "insert" /\ req[c].key \in Key
    BY <1>4 DEF Insert, RowsInv
  <2>2. PICK e \in Execs : status[e] = "absent" /\ CreateRow(e, req[c].key)
    BY <1>4 DEF Insert
  <2>3. \E todo : NextCommand(c, todo)
    BY <1>4 DEF Insert
  <2>4. /\ pc'[c] # "insert" /\ (pc'[c] = "lookup" => req'[c].key \in Key)
        /\ \A d \in Clients : d # c => pc'[d] = pc[d] /\ req'[d] = req[d]
    BY <2>1, <2>3, NextCommandProceeds
  <2>5. QED
    BY <2>1, <2>2, <2>4, RowCreatedKept
<1>5. ASSUME NEW c \in Clients, Put(c) \/ RetryReset(c) PROVE RowsInv'
  <2>1. /\ pc'[c] \notin {"lookup", "insert"}
        /\ \A d \in Clients : d # c => pc'[d] = pc[d] /\ req'[d] = req[d]
    BY <1>0, <1>5, ReturnProceeds DEF Put, RetryReset
  <2>2. \A d \in Clients : Proceeds(d)
    BY <2>1, OneProceeds DEF Proceeds
  <2>3. RowsStay
    <3>1. CASE Put(c)
      BY <1>a, <3>1 DEF Put, dbVars, rowVars
    <3>2. CASE RetryReset(c)
      <4>1. PICK e \in Execs : e = req[c].exec
        BY <3>2 DEF RetryReset, TypeInv, ClientInv
      <4>2. status[e] # "absent"
        BY <3>2, <4>1 DEF RetryReset, PresentInv, Resets
      <4>3. UpdateRow(e, "pending", 0) /\ "pending" \in Status \ {"absent"}
        BY <3>2, <4>1 DEF RetryReset, Status, Unsettled
      <4>4. QED
        BY <4>2, <4>3, UpdateStays
    <3>3. QED
      BY <1>5, <3>1, <3>2
  <2>4. QED
    BY <2>2, <2>3, RowsStayKept
<1>6. ASSUME NEW c \in Clients, EnqueueFault(c) \/ RetryFault(c) PROVE RowsInv'
  <2>1. pc'[c] = "idle" /\ \A d \in Clients : d # c => pc'[d] = pc[d] /\ req'[d] = req[d]
    BY <1>6, ReturnProceeds DEF EnqueueFault, RetryFault
  <2>2. CASE UNCHANGED <<status, key>>
    <3>1. \A d \in Clients : Proceeds(d)
      BY <2>1, OneProceeds DEF Proceeds
    <3>2. QED
      BY <1>a, <2>2, <3>1, RowsStayKept
  <2>3. CASE /\ pc[c] = "insert"
             /\ \E e \in Execs : status[e] = "absent" /\ CreateRow(e, req[c].key)
    BY <2>1, <2>3, RowCreatedKept
  <2>4. QED
    BY <1>6, <2>2, <2>3 DEF EnqueueFault, RetryFault, dbVars, rowVars
<1>7. CASE Take
  <2>1. UNCHANGED <<status, key, pc, req>>
    BY <1>7 DEF Take, dbVars, rowVars, clientVars
  <2>2. QED
    BY <1>a, <2>1, RowsStayKept DEF Proceeds
<1>8. CASE WorkerGoes
  <2>1. /\ Exec \in Execs /\ UNCHANGED <<key, pc, req>>
        /\ \/ UNCHANGED status
           \/ \E s \in Status \ {"absent"} : status' = [status EXCEPT ![Exec] = s]
    BY <1>8, WorkerFlow
  <2>2. status[Exec] # "absent"
    BY <2>1 DEF PresentInv, Exec
  <2>3. RowsStay
    BY <1>0, <2>1, <2>2 DEF RowsStay
  <2>4. QED
    BY <2>1, <2>3, RowsStayKept DEF Proceeds
<1>9. CASE Lose
  <2>1. UNCHANGED <<status, key>> /\ \A c \in Clients : Proceeds(c)
    BY <1>9, LoseFlow DEF Proceeds
  <2>2. QED
    BY <1>a, <2>1, RowsStayKept
<1>10. CASE (\E g \in {"open", "closed"} : SetGate(g)) \/ Stop \/ Stopped \/ Start \/ UNCHANGED vars
  <2>1. UNCHANGED <<status, key, pc, req>>
    BY <1>10, QuietFlow
  <2>2. QED
    BY <1>a, <2>1, RowsStayKept DEF Proceeds
<1>11. QED
  BY <1>1, <1>2, <1>3, <1>4, <1>5, <1>6, <1>7, <1>8, <1>9, <1>10, NextCases

LEMMA PresentInit ==
  ASSUME Init
  PROVE  PresentInv /\ RowsInv
<1>1. PresentInv
  BY BrokerAssumption DEF Init, PresentInv, Waits, Has, Resets, IdleWorker, NoCommand
<1>2. RowsInv
  BY DEF Init, RowsInv, SingleExecution
<1>3. QED
  BY <1>1, <1>2

(* Of any number of requests, for any number of approvals at once, each       *)
(* approval and command type gets one row, whatever fails, is retried or      *)
(* restarted, as long as no two requests for it are between the idempotency   *)
(* check and the insert at the same time (service.py:279-300).                *)
THEOREM OneRowUnlessRaced == Spec /\ []InsertsApart => []SingleExecution
<1>1. Init => TypeInv /\ PresentInv /\ RowsInv
  BY InitInv, PresentInit
<1>2. TypeInv /\ PresentInv /\ RowsInv /\ InsertsApart /\ [Next]_vars
        => (TypeInv /\ PresentInv /\ RowsInv)'
  BY TypeInvStep, PresentStep, RowsStep
<1>3. RowsInv => SingleExecution
  BY DEF RowsInv
<1>4. QED
  BY <1>1, <1>2, <1>3, PTL DEF Spec

(* Only the calls of enqueue_dispatch look for rows and insert them.          *)
AskersInv == \A c \in Clients : pc[c] \in {"lookup", "insert"} => c \in Approvers

LEMMA AskersStep ==
  ASSUME TypeInv, AskersInv, [Next]_vars
  PROVE  AskersInv'
<1>0. pc \in [Clients -> ClientPc]
  BY DEF TypeInv, TypeOK
<1> SUFFICES ASSUME NEW d \in Clients, pc'[d] \in {"lookup", "insert"}
             PROVE  d \in Approvers
  BY DEF AskersInv
<1>1. CASE \/ \E c \in Approvers, t \in Tokens : Submit(c, t)
           \/ \E c \in Operators, e \in Execs : RetryRead(c, e)
  <2>1. CASE \E c \in Approvers : pc' = [pc EXCEPT ![c] = "lookup"]
    BY <1>0, <2>1 DEF AskersInv
  <2>2. CASE \E c \in Operators : pc' = [pc EXCEPT ![c] = "reset"]
    BY <1>0, <2>2 DEF AskersInv
  <2>3. QED
    BY <1>1, <2>1, <2>2 DEF Submit, RetryRead
<1>2. ASSUME NEW c \in Clients, Lookup(c) PROVE d \in Approvers
  <2>1. pc[c] = "lookup" /\ \A b \in Clients : b # c => pc'[b] = pc[b]
    BY <1>0, <1>2, NextCommandHolds DEF Lookup
  <2>2. QED
    BY <2>1 DEF AskersInv
<1>3. ASSUME NEW c \in Clients, Insert(c) PROVE d \in Approvers
  <2>1. pc[c] = "insert" /\ \A b \in Clients : b # c => pc'[b] = pc[b]
    BY <1>3, NextCommandHolds DEF Insert
  <2>2. QED
    BY <2>1 DEF AskersInv
<1>4. ASSUME NEW c \in Clients, Put(c) \/ RetryReset(c) \/ EnqueueFault(c) \/ RetryFault(c)
      PROVE  d \in Approvers
  <2>1. pc'[c] \notin {"lookup", "insert"} /\ \A b \in Clients : b # c => pc'[b] = pc[b]
    BY <1>0, <1>4, ReturnProceeds DEF Put, RetryReset, EnqueueFault, RetryFault
  <2>2. QED
    BY <2>1 DEF AskersInv
<1>5. CASE Take \/ WorkerGoes
  <2>1. UNCHANGED pc
    BY <1>5, WorkerFlow DEF Take, clientVars
  <2>2. QED
    BY <2>1 DEF AskersInv
<1>6. CASE Lose
  BY <1>6, LoseFlow
<1>7. CASE (\E g \in {"open", "closed"} : SetGate(g)) \/ Stop \/ Stopped \/ Start \/ UNCHANGED vars
  <2>1. UNCHANGED pc
    BY <1>7, QuietFlow
  <2>2. QED
    BY <2>1 DEF AskersInv
<1>8. QED
  BY <1>1, <1>2, <1>3, <1>4, <1>5, <1>6, <1>7, NextCases

(* Double approval, one execution (service.py:5), when calls for enqueueing   *)
(* come one after the other.                                                  *)
THEOREM OneRowPerApproval ==
  ASSUME \A a, b \in Approvers : a = b
  PROVE  Spec => []SingleExecution
<1>1. Init => TypeInv /\ AskersInv
  BY InitInv DEF Init, AskersInv
<1>2. TypeInv /\ AskersInv /\ [Next]_vars => (TypeInv /\ AskersInv)'
  BY TypeInvStep, AskersStep
<1>3. AskersInv => InsertsApart
  BY DEF AskersInv, InsertsApart
<1>4. Spec => []InsertsApart
  BY <1>1, <1>2, <1>3, PTL DEF Spec
<1>5. QED
  BY <1>4, OneRowUnlessRaced, PTL

------------------------------------------------------------------------------
(* Who may act on a command, and what its row says meanwhile.                 *)

(* No two retries of the same dead letter have read it and not yet reset it.  *)
(* Nothing in the code prevents it.                                           *)
ResetsApart ==
  \A c, d \in Clients :
    pc[c] = "reset" /\ pc[d] = "reset" /\ req[c].exec = req[d].exec => c = d

(* A command that waits does so in one place, and its row is pending.         *)
WaitingInv ==
  /\ Once(queue)
  /\ \A c \in Clients : Once(cmds[c])
  /\ \A e \in Execs, c \in Clients : ~(Has(queue, e) /\ Has(cmds[c], e))
  /\ \A e \in Execs, c, d \in Clients : Has(cmds[c], e) /\ Has(cmds[d], e) => c = d
  /\ \A e \in Execs : Waits(e) => status[e] = "pending"

(* A command that is about to be reset is a dead letter still.                *)
ResetInv == \A c \in Clients, e \in Execs : Resets(c, e) => status[e] = "dead_letter"

(* What the row of a command says at each place of the worker: a first        *)
(* attempt finds it pending, the next one retrying, or processing after an    *)
(* exception.                                                                 *)
Stage(l) ==
  IF l = "start" THEN Unsettled
  ELSE IF l = "backoff" THEN {"retrying", "processing"} ELSE {"processing"}

ProcessedInv == worker.pc # "idle" => ~Waits(Exec) /\ status[Exec] \in Stage(worker.pc)

LifeInv == WaitingInv /\ ResetInv /\ ProcessedInv

LEMMA StageUnsettled ==
  ASSUME NEW l
  PROVE  Stage(l) \subseteq Unsettled
BY DEF Stage, Unsettled

(* A step that makes no command wait.                                         *)
LEMMA WaitingFewer ==
  ASSUME WaitingInv, Once(queue'), \A c \in Clients : Once(cmds'[c]),
         \A e \in Execs : Has(queue', e) => Has(queue, e),
         \A e \in Execs, c \in Clients : Has(cmds'[c], e) => Has(cmds[c], e),
         \A e \in Execs : Waits(e) => status'[e] = status[e]
  PROVE  WaitingInv' /\ \A e \in Execs : Waits(e)' => Waits(e)
<1>1. \A e \in Execs : Has(queue', e) \/ (\E c \in Clients : Has(cmds'[c], e)) => Waits(e)
  BY DEF Waits
<1>2. \A e \in Execs : Waits(e)' => Waits(e)
  BY <1>1 DEF Waits, Has
<1>3. \A e \in Execs : Waits(e)' => status'[e] = "pending"
  BY <1>2 DEF WaitingInv
<1>4. \A e \in Execs, c \in Clients : ~(Has(queue', e) /\ Has(cmds'[c], e))
  BY DEF WaitingInv
<1>5. \A e \in Execs, c, d \in Clients : Has(cmds'[c], e) /\ Has(cmds'[d], e) => c = d
  BY DEF WaitingInv
<1>6. Once(queue)' /\ \A c \in Clients : Once(cmds[c])'
  BY DEF Once
<1>7. /\ \A e \in Execs, c \in Clients : ~(Has(queue, e)' /\ Has(cmds[c], e)')
      /\ \A e \in Execs, c, d \in Clients : Has(cmds[c], e)' /\ Has(cmds[d], e)' => c = d
  BY <1>4, <1>5 DEF Has
<1>8. QED
  BY <1>2, <1>3, <1>6, <1>7 DEF WaitingInv

(* A step that makes one command wait, in the hands of one request.           *)
LEMMA WaitingMore ==
  ASSUME WaitingInv, NEW c \in Clients, NEW f \in Execs, ~Waits(f),
         queue' = queue, Once(cmds'[c]),
         \A e \in Execs : Has(cmds'[c], e) => Has(cmds[c], e) \/ e = f,
         \A d \in Clients : d # c => cmds'[d] = cmds[d],
         status'[f] = "pending", \A e \in Execs : e # f => status'[e] = status[e]
  PROVE  WaitingInv' /\ \A e \in Execs : Waits(e)' => Waits(e) \/ e = f
<1>1. \A e \in Execs, d \in Clients : Has(cmds'[d], e) => Has(cmds[d], e) \/ (d = c /\ e = f)
  OBVIOUS
<1>2. \A e \in Execs : Waits(e)' => Waits(e) \/ e = f
  BY <1>1 DEF Waits, Has
<1>3. \A e \in Execs : Waits(e)' => status'[e] = "pending"
  BY <1>2 DEF WaitingInv
<1>4. ~Has(queue, f) /\ \A d \in Clients : ~Has(cmds[d], f)
  BY DEF Waits
<1>5. \A e \in Execs, d \in Clients : ~(Has(queue', e) /\ Has(cmds'[d], e))
  BY <1>1, <1>4 DEF WaitingInv
<1>6. \A e \in Execs, d, b \in Clients : Has(cmds'[d], e) /\ Has(cmds'[b], e) => d = b
  BY <1>1, <1>4 DEF WaitingInv
<1>7. Once(queue') /\ \A d \in Clients : Once(cmds'[d])
  BY DEF WaitingInv
<1>8. Once(queue)' /\ \A d \in Clients : Once(cmds[d])'
  BY <1>7 DEF Once
<1>9. /\ \A e \in Execs, d \in Clients : ~(Has(queue, e)' /\ Has(cmds[d], e)')
      /\ \A e \in Execs, d, b \in Clients : Has(cmds[d], e)' /\ Has(cmds[b], e)' => d = b
  BY <1>5, <1>6 DEF Has
<1>10. QED
  BY <1>2, <1>3, <1>8, <1>9 DEF WaitingInv

(* The worker stays where it is, and its row is not written.                  *)
LEMMA ProcessedKept ==
  ASSUME ProcessedInv, UNCHANGED worker,
         worker.pc # "idle" => ~Waits(Exec)' /\ status'[Exec] = status[Exec]
  PROVE  ProcessedInv'
BY DEF ProcessedInv, Exec, Waits, Has, Stage

(* A dead letter is left alone, but for one that is reset.                    *)
LEMMA ResetKept ==
  ASSUME ResetInv,
         \A c \in Clients, e \in Execs :
           Resets(c, e)' => /\ Resets(c, e) \/ status[e] = "dead_letter"
                            /\ status[e] = "dead_letter" => status'[e] = "dead_letter"
  PROVE  ResetInv'
BY DEF ResetInv

LEMMA AskLife ==
  ASSUME TypeInv, LifeInv,
         \/ \E c \in Approvers, t \in Tokens : Submit(c, t)
         \/ \E c \in Operators, e \in Execs : RetryRead(c, e)
  PROVE  LifeInv'
<1>1. /\ UNCHANGED <<status, queue, worker, cmds>>
      /\ \A d \in Clients, f \in Execs : Resets(d, f)' => Resets(d, f) \/ status[f] = "dead_letter"
  BY AskFlow
<1>2. WaitingInv' /\ ProcessedInv'
  BY <1>1 DEF LifeInv, WaitingInv, ProcessedInv, Waits, Has, Once, Exec, Stage
<1>3. ResetInv'
  BY <1>1, ResetKept DEF LifeInv
<1>4. QED
  BY <1>2, <1>3 DEF LifeInv

LEMMA LookupLife ==
  ASSUME TypeInv, LifeInv, NEW c \in Clients, Lookup(c)
  PROVE  LifeInv'
<1>1. /\ UNCHANGED <<status, queue, worker>> /\ \A d \in Clients : cmds'[d] = cmds[d]
      /\ \A d \in Clients : pc'[d] = "reset" => pc[d] = "reset" /\ req'[d] = req[d]
  BY LookupFlow
<1>2. Once(queue') /\ (\A d \in Clients : Once(cmds'[d]))
  BY <1>1 DEF LifeInv, WaitingInv
<1>3. WaitingInv' /\ \A e \in Execs : Waits(e)' => Waits(e)
  BY <1>1, <1>2, WaitingFewer DEF LifeInv
<1>4. worker.pc # "idle" => Exec \in Execs
  BY BusyWorkerType DEF TypeInv
<1>5. ProcessedInv'
  <2>1. worker.pc # "idle" => ~Waits(Exec)'
    BY <1>1, <1>3, <1>4 DEF LifeInv, ProcessedInv, Exec, Waits, Has
  <2>2. QED
    BY <1>1, <2>1, ProcessedKept DEF LifeInv
<1>6. ResetInv'
  BY <1>1, ResetKept DEF LifeInv, Resets
<1>7. QED
  BY <1>3, <1>5, <1>6 DEF LifeInv

LEMMA InsertLife ==
  ASSUME TypeInv, LifeInv, NEW c \in Clients, Insert(c)
  PROVE  LifeInv'
<1>1. PICK f \in Execs, x \in Command :
        /\ status[f] = "absent" /\ x.exec = f
        /\ status' = [status EXCEPT ![f] = "pending"]
        /\ UNCHANGED <<queue, worker>>
        /\ cmds'[c] = Append(cmds[c], x)
        /\ \A d \in Clients : d # c => cmds'[d] = cmds[d]
        /\ \A d \in Clients : pc'[d] = "reset" => pc[d] = "reset" /\ req'[d] = req[d]
  BY InsertFlow
<1>2. cmds[c] \in Seq(Command) /\ status \in [Execs -> Status]
  BY DEF TypeInv, TypeOK
<1>3. ~Waits(f)
  BY <1>1 DEF LifeInv, WaitingInv
<1>4. status'[f] = "pending" /\ \A e \in Execs : e # f => status'[e] = status[e]
  BY <1>1, <1>2
<1>5. /\ Once(cmds'[c])
      /\ \A e \in Execs : Has(cmds'[c], e) => Has(cmds[c], e) \/ e = f
  <2>1. Once(cmds[c]) /\ ~Has(cmds[c], x.exec)
    BY <1>1, <1>3 DEF LifeInv, WaitingInv, Waits
  <2>2. QED
    BY <1>1, <1>2, <2>1, OnceAppend
<1>6. WaitingInv' /\ \A e \in Execs : Waits(e)' => Waits(e) \/ e = f
  BY <1>1, <1>3, <1>4, <1>5, WaitingMore DEF LifeInv
<1>7. ProcessedInv'
  <2>1. ASSUME worker.pc # "idle" PROVE ~Waits(Exec)' /\ status'[Exec] = status[Exec]
    <3>1. PICK g \in Execs : g = Exec
      BY <2>1, BusyWorkerType DEF TypeInv
    <3>2. status[g] \in Unsettled /\ ~Waits(g)
      BY <2>1, <3>1, StageUnsettled DEF LifeInv, ProcessedInv
    <3>3. g # f
      BY <1>1, <3>2 DEF Unsettled
    <3>4. ~Waits(g)' /\ status'[g] = status[g]
      BY <1>4, <1>6, <3>2, <3>3
    <3>5. g = Exec /\ Exec' = Exec
      BY <1>1, <3>1 DEF Exec
    <3>6. QED
      BY <3>4, <3>5 DEF Waits, Has
  <2>2. QED
    BY <1>1, <2>1, ProcessedKept DEF LifeInv
<1>8. ResetInv'
  BY <1>1, <1>4, ResetKept DEF LifeInv, Resets
<1>9. QED
  BY <1>6, <1>7, <1>8 DEF LifeInv

LEMMA FaultLife ==
  ASSUME TypeInv, LifeInv, NEW c \in Clients, EnqueueFault(c) \/ RetryFault(c)
  PROVE  LifeInv'
<1>1. /\ \/ UNCHANGED status
         \/ \E f \in Execs : status[f] = "absent" /\ status' = [status EXCEPT ![f] = "pending"]
      /\ UNCHANGED <<queue, worker>> /\ cmds'[c] = <<>>
      /\ \A d \in Clients : d # c => cmds'[d] = cmds[d]
      /\ \A d \in Clients : pc'[d] = "reset" => pc[d] = "reset" /\ req'[d] = req[d]
  BY FaultFlow
<1>2. \A e \in Execs : status[e] # "absent" => status'[e] = status[e]
  BY <1>1 DEF TypeInv, TypeOK
<1>3. Once(<<>>) /\ \A e \in Execs : ~Has(<<>>, e)
  BY DEF Once, Has
<1>4. WaitingInv' /\ \A e \in Execs : Waits(e)' => Waits(e)
  <2>1. Once(queue') /\ \A d \in Clients : Once(cmds'[d])
    BY <1>1, <1>3 DEF LifeInv, WaitingInv
  <2>2. \A e \in Execs, d \in Clients : Has(cmds'[d], e) => Has(cmds[d], e)
    BY <1>1, <1>3
  <2>3. \A e \in Execs : Waits(e) => status'[e] = status[e]
    BY <1>2 DEF LifeInv, WaitingInv
  <2>4. QED
    BY <1>1, <2>1, <2>2, <2>3, WaitingFewer DEF LifeInv
<1>5. ProcessedInv'
  <2>1. ASSUME worker.pc # "idle" PROVE ~Waits(Exec)' /\ status'[Exec] = status[Exec]
    <3>1. PICK g \in Execs : g = Exec
      BY <2>1, BusyWorkerType DEF TypeInv
    <3>2. status[g] \in Unsettled /\ ~Waits(g)
      BY <2>1, <3>1, StageUnsettled DEF LifeInv, ProcessedInv
    <3>3. ~Waits(g)' /\ status'[g] = status[g]
      BY <1>2, <1>4, <3>2 DEF Unsettled
    <3>4. g = Exec /\ Exec' = Exec
      BY <1>1, <3>1 DEF Exec
    <3>5. QED
      BY <3>3, <3>4 DEF Waits, Has
  <2>2. QED
    BY <1>1, <2>1, ProcessedKept DEF LifeInv
<1>6. ResetInv'
  BY <1>1, <1>2, ResetKept DEF LifeInv, Resets
<1>7. QED
  BY <1>4, <1>5, <1>6 DEF LifeInv

(* What a request hands over is in the queue, and no longer in its hands.     *)
LEMMA PutLife ==
  ASSUME TypeInv, LifeInv, NEW c \in Clients, Put(c)
  PROVE  LifeInv'
<1>1. /\ UNCHANGED <<status, worker>>
      /\ \A d \in Clients : d # c => cmds'[d] = cmds[d]
      /\ \A d \in Clients : pc'[d] = "reset" => pc[d] = "reset" /\ req'[d] = req[d]
  BY PutFlow
<1>2. PICK s \in Seq(Command), t \in Seq(Command) :
        /\ queue' = queue \o s /\ cmds'[c] = t
        /\ \A e : Has(s, e) \/ Has(t, e) => Has(cmds[c], e)
        /\ Once(cmds[c]) => Once(s) /\ Once(t) /\ \A e : ~(Has(s, e) /\ Has(t, e))
  BY PutFlow
<1>3. queue \in Seq(Command)
  BY Types
<1>4. Once(s) /\ Once(t) /\ \A e : ~(Has(s, e) /\ Has(t, e))
  BY <1>2 DEF LifeInv, WaitingInv
<1>5. Once(queue')
  <2>1. \A e \in Execs : ~(Has(queue, e) /\ Has(s, e))
    BY <1>2 DEF LifeInv, WaitingInv
  <2>2. QED
    BY <1>2, <1>3, <1>4, <2>1, OnceConcat DEF LifeInv, WaitingInv
<1>6. \A e \in Execs : Has(queue', e) => Has(queue, e) \/ Has(s, e)
  BY <1>2, <1>3, HasOfConcat
<1>7. \A e \in Execs, d \in Clients : Has(cmds'[d], e) => Has(cmds[d], e) /\ ~(d = c /\ Has(s, e))
  BY <1>1, <1>2, <1>4
<1>8. \A e \in Execs : Has(s, e) => Has(cmds[c], e)
  BY <1>2
<1>9. \A e \in Execs, d \in Clients : ~(Has(queue', e) /\ Has(cmds'[d], e))
  BY <1>6, <1>7, <1>8 DEF LifeInv, WaitingInv
<1>10. \A e \in Execs, d, b \in Clients : Has(cmds'[d], e) /\ Has(cmds'[b], e) => d = b
  BY <1>7 DEF LifeInv, WaitingInv
<1>11. \A e \in Execs : Waits(e)' => Waits(e)
  BY <1>6, <1>7, <1>8 DEF Waits, Has
<1>12. WaitingInv'
  <2>1. \A e \in Execs : Waits(e)' => status'[e] = "pending"
    BY <1>1, <1>11 DEF LifeInv, WaitingInv
  <2>2. \A d \in Clients : Once(cmds'[d])
    BY <1>1, <1>2, <1>4 DEF LifeInv, WaitingInv
  <2>3. Once(queue)' /\ \A d \in Clients : Once(cmds[d])'
    BY <1>5, <2>2 DEF Once
  <2>4. /\ \A e \in Execs, d \in Clients : ~(Has(queue, e)' /\ Has(cmds[d], e)')
        /\ \A e \in Execs, d, b \in Clients : Has(cmds[d], e)' /\ Has(cmds[b], e)' => d = b
    BY <1>9, <1>10 DEF Has
  <2>5. QED
    BY <2>1, <2>3, <2>4 DEF WaitingInv
<1>13. ProcessedInv'
  <2>1. worker.pc # "idle" => Exec \in Execs
    BY BusyWorkerType DEF TypeInv
  <2>2. worker.pc # "idle" => ~Waits(Exec)'
    BY <1>1, <1>11, <2>1 DEF LifeInv, ProcessedInv, Exec, Waits, Has
  <2>3. QED
    BY <1>1, <2>2, ProcessedKept DEF LifeInv
<1>14. ResetInv'
  BY <1>1, ResetKept DEF LifeInv, Resets
<1>15. QED
  BY <1>12, <1>13, <1>14 DEF LifeInv

(* The dead letter that is reset waits nowhere, and no other request is about *)
(* to reset it.                                                               *)
LEMMA ResetLife ==
  ASSUME TypeInv, LifeInv, ResetsApart, NEW c \in Clients, RetryReset(c)
  PROVE  LifeInv'
<1>1. PICK f \in Execs, x \in Command :
        /\ Resets(c, f) /\ x.exec = f
        /\ status' = [status EXCEPT ![f] = "pending"]
        /\ UNCHANGED <<queue, worker, req>>
        /\ cmds'[c] = <<x>> /\ pc'[c] # "reset"
        /\ \A d \in Clients : d # c => cmds'[d] = cmds[d] /\ pc'[d] = pc[d]
  BY ResetFlow
<1>2. status[f] = "dead_letter"
  BY <1>1 DEF LifeInv, ResetInv
<1>3. ~Waits(f)
  BY <1>2 DEF LifeInv, WaitingInv
<1>4. status'[f] = "pending" /\ \A e \in Execs : e # f => status'[e] = status[e]
  BY <1>1 DEF TypeInv, TypeOK
<1>5. Once(<<x>>) /\ \A e \in Execs : Has(<<x>>, e) => e = f
  BY <1>1 DEF Once, Has
<1>6. WaitingInv' /\ \A e \in Execs : Waits(e)' => Waits(e) \/ e = f
  BY <1>1, <1>3, <1>4, <1>5, WaitingMore DEF LifeInv
<1>7. ProcessedInv'
  <2>1. ASSUME worker.pc # "idle" PROVE ~Waits(Exec)' /\ status'[Exec] = status[Exec]
    <3>1. PICK g \in Execs : g = Exec
      BY <2>1, BusyWorkerType DEF TypeInv
    <3>2. status[g] \in Unsettled /\ ~Waits(g)
      BY <2>1, <3>1, StageUnsettled DEF LifeInv, ProcessedInv
    <3>3. g # f
      BY <1>2, <3>2 DEF Unsettled
    <3>4. ~Waits(g)' /\ status'[g] = status[g]
      BY <1>4, <1>6, <3>2, <3>3
    <3>5. g = Exec /\ Exec' = Exec
      BY <1>1, <3>1 DEF Exec
    <3>6. QED
      BY <3>4, <3>5 DEF Waits, Has
  <2>2. QED
    BY <1>1, <2>1, ProcessedKept DEF LifeInv
<1>8. ResetInv'
  <2>1. ASSUME NEW d \in Clients, NEW e \in Execs, Resets(d, e)'
        PROVE  Resets(d, e) /\ e # f
    <3>1. d # c /\ Resets(d, e)
      BY <1>1, <2>1 DEF Resets
    <3>2. QED
      BY <1>1, <3>1 DEF Resets, ResetsApart
  <2>2. QED
    BY <1>4, <2>1, ResetKept DEF LifeInv
<1>9. QED
  BY <1>6, <1>7, <1>8 DEF LifeInv

LEMMA TakeLife ==
  ASSUME TypeInv, LifeInv, Take
  PROVE  LifeInv'
<1>1. /\ UNCHANGED <<status, cmds, pc, req>> /\ worker'.pc = "start"
      /\ worker'.cmd.exec \in Execs /\ Has(queue, worker'.cmd.exec)
      /\ \A e : Has(queue', e) => Has(queue, e)
      /\ Once(queue) => Once(queue') /\ ~Has(queue', worker'.cmd.exec)
  BY TakeFlow
<1>2. PICK g \in Execs : g = worker'.cmd.exec
  BY <1>1
<1>3. WaitingInv'
  BY <1>1, WaitingFewer DEF LifeInv, WaitingInv
<1>4. ~Has(queue', g) /\ (\A c \in Clients : ~Has(cmds'[c], g)) /\ status'[g] = "pending"
  BY <1>1, <1>2 DEF LifeInv, WaitingInv, Waits
<1>5. ProcessedInv'
  <2>1. ~Waits(g)' /\ status'[g] \in Unsettled
    BY <1>4 DEF Waits, Has, Unsettled
  <2>2. g = Exec'
    BY <1>2 DEF Exec
  <2>3. QED
    BY <1>1, <2>1, <2>2 DEF ProcessedInv, Waits, Has, Stage
<1>6. ResetInv'
  BY <1>1, ResetKept DEF LifeInv, Resets
<1>7. QED
  BY <1>3, <1>5, <1>6 DEF LifeInv

(* What the worker writes, place by place.                                    *)
LEMMA WorkerWrites ==
  ASSUME TypeInv, LifeInv, WorkerGoes
  PROVE  /\ worker'.pc # "idle" => Exec' = Exec /\ status'[Exec] \in Stage(worker'.pc)
         /\ \A e \in Execs : e # Exec => status'[e] = status[e]
<1>1. worker.pc # "idle" /\ worker \in BusyWorker /\ Exec \in Execs
  BY WorkerFlow, BusyWorkerType DEF TypeInv
<1>2. \A e \in Execs : e # Exec => status'[e] = status[e]
  BY WorkerFlow DEF TypeInv, TypeOK
<1>3. status[Exec] \in Stage(worker.pc)
  BY <1>1 DEF LifeInv, ProcessedInv
<1>4. worker'.pc # "idle" => Exec' = Exec
  BY WorkerFlow DEF IdleWorker, Exec
<1>5. CASE MarkProcessing \/ MarkRetrying
  <2>1. PICK s \in {"processing", "retrying"}, l \in {"call", "backoff"} :
          /\ status' = [status EXCEPT ![Exec] = s] /\ GoTo(l)
          /\ s = "retrying" => l = "backoff"
    BY <1>5 DEF MarkProcessing, MarkRetrying, UpdateRow
  <2>2. status'[Exec] = s /\ worker'.pc = l
    BY <1>1, <2>1, GoToType DEF TypeInv, TypeOK, WorkerPc
  <2>3. QED
    BY <1>2, <1>4, <2>1, <2>2 DEF Stage
<1>6. CASE StationAnswers \/ RecordAck \/ RecordFailure \/ CatchException
  <2>1. UNCHANGED status /\ worker.pc \notin {"start", "backoff"}
    BY <1>6 DEF StationAnswers, RecordAck, RecordFailure, CatchException, dbVars, rowVars
  <2>2. PICK l \in WorkerPc \ {"start"} : GoTo(l)
    BY <1>6 DEF StationAnswers, RecordAck, RecordFailure, CatchException, WorkerPc
  <2>3. worker'.pc = l
    BY <1>1, <2>2, GoToType
  <2>4. status'[Exec] = "processing"
    BY <1>3, <2>1 DEF Stage
  <2>5. QED
    BY <1>2, <1>4, <2>2, <2>3, <2>4 DEF Stage
<1>7. CASE MarkAcknowledged \/ MarkDeadLetter \/ DropCommand
  <2>1. worker'.pc = "idle"
    BY <1>7 DEF MarkAcknowledged, MarkDeadLetter, DropCommand, IdleWorker
  <2>2. QED
    BY <1>2, <2>1
<1>8. CASE NextAttempt
  <2>1. UNCHANGED status /\ worker.pc = "backoff" /\ worker'.pc = "start"
    BY <1>1, <1>8 DEF NextAttempt, dbVars, rowVars, BusyWorker
  <2>2. QED
    BY <1>2, <1>3, <1>4, <2>1 DEF Stage, Unsettled
<1>9. QED
  BY <1>5, <1>6, <1>7, <1>8 DEF WorkerGoes

LEMMA WorkerLife ==
  ASSUME TypeInv, LifeInv, WorkerGoes
  PROVE  LifeInv'
<1>1. PICK g \in Execs : g = Exec
  BY WorkerFlow
<1>2. worker.pc # "idle" /\ UNCHANGED <<queue, cmds, pc, req>>
  BY WorkerFlow
<1>3. /\ worker'.pc # "idle" => Exec' = g /\ status'[g] \in Stage(worker'.pc)
      /\ \A e \in Execs : e # g => status'[e] = status[e]
  BY <1>1, WorkerWrites
<1>4. ~Waits(g) /\ status[g] \in Unsettled
  BY <1>1, <1>2, StageUnsettled DEF LifeInv, ProcessedInv
<1>5. WaitingInv'
  <2>1. \A e \in Execs : Waits(e) => status'[e] = status[e]
    BY <1>3, <1>4
  <2>2. QED
    BY <1>2, <2>1, WaitingFewer DEF LifeInv, WaitingInv
<1>6. ProcessedInv'
  <2>1. ~Waits(g)'
    BY <1>2, <1>4 DEF Waits, Has
  <2>2. ASSUME worker'.pc # "idle" PROVE ~Waits(Exec)' /\ status'[Exec'] \in Stage(worker'.pc)
    BY <1>3, <2>1, <2>2 DEF Waits, Has, Exec
  <2>3. QED
    BY <2>2 DEF ProcessedInv, Stage
<1>7. ResetInv'
  <2>1. status[g] # "dead_letter"
    BY <1>4 DEF Unsettled
  <2>2. QED
    BY <1>2, <1>3, <2>1, ResetKept DEF LifeInv, Resets
<1>8. QED
  BY <1>5, <1>6, <1>7 DEF LifeInv

LEMMA LoseLife ==
  ASSUME Lose
  PROVE  LifeInv'
<1>1. /\ queue' = <<>> /\ worker' = IdleWorker
      /\ \A c \in Clients : cmds'[c] = <<>> /\ pc'[c] = "idle"
  BY LoseFlow
<1>2. WaitingInv'
  BY <1>1 DEF WaitingInv, Waits, Has, Once
<1>3. ResetInv' /\ ProcessedInv'
  BY <1>1 DEF ResetInv, Resets, ProcessedInv, IdleWorker
<1>4. QED
  BY <1>2, <1>3 DEF LifeInv

LEMMA LifeStep ==
  ASSUME TypeInv, LifeInv, ResetsApart, [Next]_vars
  PROVE  LifeInv'
<1>1. CASE (\E g \in {"open", "closed"} : SetGate(g)) \/ Stop \/ Stopped \/ Start \/ UNCHANGED vars
  <2>1. UNCHANGED <<status, queue, worker, cmds, pc, req>>
    BY <1>1, QuietFlow
  <2>2. QED
    BY <2>1 DEF LifeInv, WaitingInv, ProcessedInv, ResetInv, Resets, Waits, Has, Once, Exec, Stage
<1>2. QED
  BY <1>1, NextCases, AskLife, LookupLife, InsertLife, PutLife, ResetLife, FaultLife,
     TakeLife, WorkerLife, LoseLife

LEMMA LifeInit ==
  ASSUME Init
  PROVE  LifeInv
BY DEF Init, LifeInv, WaitingInv, ProcessedInv, ResetInv, Resets, Waits, Has, Once, IdleWorker

------------------------------------------------------------------------------
(* The lifecycle of a command.                                                *)

(* Each step of the worker is one of the lifecycle, or no step of it.         *)
LEMMA WorkerRefines ==
  ASSUME TypeInv, LifeInv, WorkerGoes
  PROVE  Abstract!LifecycleNext \/ UNCHANGED <<status, effects>>
<1>1. PICK g \in Execs : g = Exec
  BY WorkerFlow
<1>2. status[g] \in Stage(worker.pc)
  BY <1>1, WorkerFlow DEF LifeInv, ProcessedInv
<1>3. CASE MarkProcessing
  <2>1. status' = [status EXCEPT ![g] = "processing"] /\ UNCHANGED effects
    BY <1>1, <1>3 DEF MarkProcessing, UpdateRow
  <2>2. status[g] \in {"pending", "retrying", "processing"}
    BY <1>2, <1>3 DEF MarkProcessing, Stage, Unsettled
  <2>3. Abstract!Attempt(g)
    BY <2>1, <2>2 DEF Abstract!Attempt, Abstract!Move
  <2>4. QED
    BY <2>3 DEF Abstract!LifecycleNext
<1>4. CASE StationAnswers
  <2>1. status[g] = "processing" /\ UNCHANGED status
    BY <1>2, <1>4 DEF StationAnswers, Stage, dbVars, rowVars
  <2>2. UNCHANGED effects \/ effects' = [effects EXCEPT ![g] = @ + 1]
    BY <1>1, <1>4 DEF StationAnswers
  <2>3. effects' = [effects EXCEPT ![g] = @ + 1] => Abstract!Act(g)
    BY <2>1 DEF Abstract!Act
  <2>4. QED
    BY <2>1, <2>2, <2>3 DEF Abstract!LifecycleNext
<1>5. CASE MarkAcknowledged
  <2>1. /\ status' = [status EXCEPT ![g] = "acknowledged"] /\ UNCHANGED effects
        /\ status[g] \in {"processing"}
    BY <1>1, <1>2, <1>5 DEF MarkAcknowledged, UpdateRow, Stage
  <2>2. Abstract!Acknowledge(g)
    BY <2>1 DEF Abstract!Acknowledge, Abstract!Move
  <2>3. QED
    BY <2>2 DEF Abstract!LifecycleNext
<1>6. CASE MarkRetrying
  <2>1. /\ status' = [status EXCEPT ![g] = "retrying"] /\ UNCHANGED effects
        /\ status[g] \in {"processing"}
    BY <1>1, <1>2, <1>6 DEF MarkRetrying, UpdateRow, Stage
  <2>2. Abstract!Postpone(g)
    BY <2>1 DEF Abstract!Postpone, Abstract!Move
  <2>3. QED
    BY <2>2 DEF Abstract!LifecycleNext
<1>7. CASE MarkDeadLetter
  <2>1. /\ status' = [status EXCEPT ![g] = "dead_letter"] /\ UNCHANGED effects
        /\ status[g] \in {"processing"}
    BY <1>1, <1>2, <1>7 DEF MarkDeadLetter, UpdateRow, Stage
  <2>2. Abstract!GiveUp(g)
    BY <2>1 DEF Abstract!GiveUp, Abstract!Move
  <2>3. QED
    BY <2>2 DEF Abstract!LifecycleNext
<1>8. CASE RecordAck \/ RecordFailure \/ NextAttempt \/ DropCommand \/ CatchException
  BY <1>8 DEF RecordAck, RecordFailure, NextAttempt, DropCommand, CatchException, dbVars, rowVars
<1>9. QED
  BY <1>3, <1>4, <1>5, <1>6, <1>7, <1>8 DEF WorkerGoes

LEMMA CreateIs ==
  ASSUME NEW f \in Execs, status[f] = "absent",
         status' = [status EXCEPT ![f] = "pending"], UNCHANGED effects
  PROVE  Abstract!LifecycleNext
<1>1. Abstract!Create(f)
  BY DEF Abstract!Create, Abstract!Move
<1>2. QED
  BY <1>1 DEF Abstract!LifecycleNext

LEMMA StepRefines ==
  ASSUME TypeInv, LifeInv, [Next]_vars
  PROVE  Abstract!LifecycleNext \/ UNCHANGED <<status, effects>>
<1>1. CASE \/ \E c \in Approvers, t \in Tokens : Submit(c, t)
           \/ \E c \in Operators, e \in Execs : RetryRead(c, e)
  BY <1>1, AskFlow
<1>2. ASSUME NEW c \in Clients, Lookup(c) \/ Put(c) PROVE UNCHANGED <<status, effects>>
  BY <1>2, LookupFlow, PutFlow
<1>3. ASSUME NEW c \in Clients, Insert(c) PROVE Abstract!LifecycleNext
  BY <1>3, InsertFlow, CreateIs
<1>4. ASSUME NEW c \in Clients, RetryReset(c) PROVE Abstract!LifecycleNext
  <2>1. PICK f \in Execs :
          Resets(c, f) /\ status' = [status EXCEPT ![f] = "pending"] /\ UNCHANGED effects
    BY <1>4, ResetFlow
  <2>2. status[f] \in {"dead_letter"}
    BY <2>1 DEF LifeInv, ResetInv
  <2>3. Abstract!Reopen(f)
    BY <2>1, <2>2 DEF Abstract!Reopen, Abstract!Move
  <2>4. QED
    BY <2>3 DEF Abstract!LifecycleNext
<1>5. ASSUME NEW c \in Clients, EnqueueFault(c) \/ RetryFault(c)
      PROVE  Abstract!LifecycleNext \/ UNCHANGED <<status, effects>>
  BY <1>5, FaultFlow, CreateIs
<1>6. CASE Take
  BY <1>6, TakeFlow
<1>7. CASE WorkerGoes
  BY <1>7, WorkerRefines
<1>8. CASE Lose
  BY <1>8, LoseFlow
<1>9. CASE (\E g \in {"open", "closed"} : SetGate(g)) \/ Stop \/ Stopped \/ Start \/ UNCHANGED vars
  BY <1>9, QuietFlow
<1>10. QED
  BY <1>1, <1>2, <1>3, <1>4, <1>5, <1>6, <1>7, <1>8, <1>9, NextCases

(* The broker implements the lifecycle of a command, with the same rows and   *)
(* the same acts of the station, for any number of approvals, retries,        *)
(* failures and restarts, as long as no two retries of one dead letter race   *)
(* between reading it and resetting it (service.py:66-212, 355-385).          *)
THEOREM LifecycleUnlessRaced == Spec /\ []ResetsApart => ImplementsLifecycle
<1>1. Init => TypeInv /\ LifeInv
  BY InitInv, LifeInit
<1>2. TypeInv /\ LifeInv /\ ResetsApart /\ [Next]_vars => (TypeInv /\ LifeInv)'
  BY TypeInvStep, LifeStep
<1>3. Init => Abstract!LifecycleInit
  BY DEF Init, Abstract!LifecycleInit
<1>4. TypeInv /\ LifeInv /\ [Next]_vars => [Abstract!LifecycleNext]_(Abstract!Vars)
  BY StepRefines DEF Abstract!Vars
<1>5. QED
  BY <1>1, <1>2, <1>3, <1>4, PTL DEF Spec, ImplementsLifecycle, Abstract!Lifecycle

(* What the station has acknowledged stays acknowledged, with the same proviso *)
(* (service.py:367).                                                          *)
THEOREM AcknowledgedStays == Spec /\ []ResetsApart => AcknowledgedIsFinal
<1> DEFINE final == \A e \in Execs : status[e] = "acknowledged" => status'[e] = "acknowledged"
<1>1. Init => TypeInv /\ LifeInv
  BY InitInv, LifeInit
<1>2. TypeInv /\ LifeInv /\ ResetsApart /\ [Next]_vars => (TypeInv /\ LifeInv)'
  BY TypeInvStep, LifeStep
<1>3. ASSUME TypeInv, LifeInv, [Next]_vars PROVE final
  <2>1. status \in [Execs -> Status]
    BY <1>3 DEF TypeInv, TypeOK
  <2>2. CASE UNCHANGED <<status, effects>>
    BY <2>2
  <2>3. CASE Abstract!LifecycleNext
    <3>1. \/ UNCHANGED status
          \/ \E e \in Execs : \E s : status[e] # "acknowledged" /\ status' = [status EXCEPT ![e] = s]
      BY <2>3 DEF Abstract!LifecycleNext, Abstract!Create, Abstract!Attempt, Abstract!Act,
         Abstract!Acknowledge, Abstract!Postpone, Abstract!GiveUp, Abstract!Reopen, Abstract!Move
    <3>2. QED
      BY <2>1, <3>1
  <2>4. QED
    BY <1>3, <2>2, <2>3, StepRefines
<1>4. TypeInv /\ LifeInv /\ [Next]_vars => [final]_vars
  BY <1>3
<1> HIDE DEF final
<1>5. Spec /\ []ResetsApart => [][final]_vars
  BY <1>1, <1>2, <1>4, PTL DEF Spec
<1>6. QED
  BY <1>5 DEF AcknowledgedIsFinal, final

(* The lifecycle itself never touches what is acknowledged. *)
LEMMA LifecycleLeaves == Abstract!Lifecycle => Abstract!AcknowledgedUntouched
<1> DEFINE typed == DOMAIN status = Execs /\ DOMAIN effects = Execs
           untouched == \A e \in Execs : status[e] = "acknowledged" =>
                          status'[e] = "acknowledged" /\ effects'[e] = effects[e]
<1>1. Abstract!LifecycleInit => typed
  BY DEF Abstract!LifecycleInit
<1>2. ASSUME typed, Abstract!LifecycleNext
      PROVE  typed' /\ untouched
  <2>1. \/ /\ UNCHANGED effects
           /\ \E e \in Execs : \E s :
                status[e] # "acknowledged" /\ status' = [status EXCEPT ![e] = s]
        \/ /\ UNCHANGED status
           /\ \E e \in Execs :
                status[e] # "acknowledged" /\ effects' = [effects EXCEPT ![e] = @ + 1]
    BY <1>2 DEF Abstract!LifecycleNext, Abstract!Create, Abstract!Attempt, Abstract!Act,
       Abstract!Acknowledge, Abstract!Postpone, Abstract!GiveUp, Abstract!Reopen, Abstract!Move
  <2>2. QED
    BY <1>2, <2>1
<1>3. UNCHANGED Abstract!Vars => (typed => typed')
  BY DEF Abstract!Vars
<1>4. typed /\ [Abstract!LifecycleNext]_(Abstract!Vars) => typed' /\ [untouched]_(Abstract!Vars)
  BY <1>2, <1>3
<1> HIDE DEF typed, untouched
<1>5. Abstract!Lifecycle => [][untouched]_(Abstract!Vars)
  BY <1>1, <1>4, PTL DEF Abstract!Lifecycle
<1>6. QED
  BY <1>5 DEF Abstract!AcknowledgedUntouched, untouched

(* Where retries do not race, the station does not act once more for a        *)
(* command it has acknowledged, and nothing reopens its row, whatever faults  *)
(* and restarts follow (service.py:66-212, 355-385).                          *)
THEOREM UntouchedUnlessRaced == Spec /\ []ResetsApart => Abstract!AcknowledgedUntouched
BY LifecycleUnlessRaced, LifecycleLeaves DEF ImplementsLifecycle

------------------------------------------------------------------------------
(* The station acts once.                                                     *)

(* A command that may still be sent to the station has not been acted on, but *)
(* for the failed database calls after which it is sent again.                *)
ActsInv ==
  /\ \A e \in Execs : effects[e] <= 1 + faults
  /\ \A e \in Execs : status[e] \notin {"processing", "acknowledged"} => effects[e] <= faults
  /\ worker.pc \notin {"idle", "ack_audit", "ack_row"} => effects[Exec] <= faults

(* No act of the station, and no row becomes one that may be sent again but   *)
(* from one that might have been.                                             *)
LEMMA ActsKept ==
  ASSUME TypeInv, ActsInv, UNCHANGED effects, faults' \in {faults, faults + 1},
         \A e \in Execs :
           status'[e] \notin {"processing", "acknowledged"} =>
             \/ status[e] \notin {"processing", "acknowledged"}
             \/ effects[e] <= faults,
         worker'.pc \notin {"idle", "ack_audit", "ack_row"} =>
           /\ Exec' \in Execs
           /\ effects[Exec'] <= faults \/ faults' = faults + 1
  PROVE  ActsInv'
<1>1. effects \in [Execs -> Nat] /\ faults \in Nat
  BY Types
<1>2. faults' \in Nat /\ faults <= faults'
  BY <1>1
<1>3. \A e \in Execs : effects[e] \in Nat /\ effects[e] <= 1 + faults
  BY <1>1 DEF ActsInv
<1>4. \A e \in Execs : effects[e] <= 1 + faults'
  BY <1>1, <1>2, <1>3
<1>5. \A e \in Execs : effects[e] <= faults => effects[e] <= faults'
  BY <1>1, <1>2, <1>3
<1>6. \A e \in Execs : faults' = faults + 1 => effects[e] <= faults'
  BY <1>1, <1>3
<1>7. \A e \in Execs : status'[e] \notin {"processing", "acknowledged"} => effects[e] <= faults'
  BY <1>5 DEF ActsInv
<1>8. worker'.pc \notin {"idle", "ack_audit", "ack_row"} => effects[Exec'] <= faults'
  BY <1>5, <1>6
<1>9. QED
  BY <1>4, <1>7, <1>8 DEF ActsInv, Exec

(* No call of the station, and the worker where it was.                       *)
LEMMA ActsStay ==
  ASSUME TypeInv, ActsInv, UNCHANGED <<effects, worker>>, faults' \in {faults, faults + 1},
         \A e \in Execs : status'[e] = status[e]
                          \/ status[e] \notin {"processing", "acknowledged"}
  PROVE  ActsInv'
<1>1. worker'.pc \notin {"idle", "ack_audit", "ack_row"} =>
           /\ Exec' \in Execs
           /\ effects[Exec'] <= faults
  <2>1. Exec' = Exec
    BY DEF Exec
  <2>2. worker.pc # "idle" => Exec \in Execs
    BY BusyWorkerType DEF TypeInv
  <2>3. QED
    BY <2>1, <2>2 DEF ActsInv
<1>2. QED
  BY <1>1, ActsKept

LEMMA WorkerActs ==
  ASSUME TypeInv, LifeInv, ActsInv, WorkerGoes
  PROVE  ActsInv'
<1>1. worker.pc # "idle" /\ Exec \in Execs /\ worker \in BusyWorker
  BY WorkerFlow, BusyWorkerType DEF TypeInv
<1>2. effects \in [Execs -> Nat] /\ faults \in Nat /\ status \in [Execs -> Status]
  BY Types DEF TypeInv, TypeOK
<1>3. \A e \in Execs : e # Exec => status'[e] = status[e]
  BY WorkerWrites
<1>4. worker'.pc # "idle" => Exec' = Exec
  BY WorkerWrites
<1>5. CASE StationAnswers
  <2>1. /\ worker.pc = "call" /\ UNCHANGED <<status, faults>>
        /\ \E l \in WorkerPc : GoTo(l)
        /\ \/ UNCHANGED effects
           \/ effects' = [effects EXCEPT ![Exec] = @ + 1] /\ GoTo("ack_audit")
    BY <1>5 DEF StationAnswers, dbVars, rowVars, countVars, WorkerPc
  <2>2. effects[Exec] <= faults
    BY <2>1 DEF ActsInv
  <2>3. CASE UNCHANGED effects
    BY <1>1, <1>4, <2>1, <2>2, <2>3, ActsKept
  <2>4. CASE effects' = [effects EXCEPT ![Exec] = @ + 1] /\ GoTo("ack_audit")
    <3>1. worker'.pc = "ack_audit"
      BY <1>1, <2>4, GoToType DEF WorkerPc
    <3>2. status[Exec] = "processing"
      BY <2>1 DEF LifeInv, ProcessedInv, Stage
    <3>3. /\ effects'[Exec] = effects[Exec] + 1
          /\ \A e \in Execs : e # Exec => effects'[e] = effects[e]
      BY <1>1, <1>2, <2>4
    <3>4. effects'[Exec] <= 1 + faults
      BY <1>1, <1>2, <2>2, <3>3
    <3>5. \A e \in Execs : effects'[e] <= 1 + faults
      BY <3>3, <3>4 DEF ActsInv
    <3>6. \A e \in Execs : status[e] \notin {"processing", "acknowledged"} => effects'[e] <= faults
      BY <3>2, <3>3 DEF ActsInv
    <3>7. QED
      BY <2>1, <3>1, <3>5, <3>6 DEF ActsInv
  <2>5. QED
    BY <2>1, <2>3, <2>4
<1>6. CASE MarkProcessing \/ MarkRetrying
  <2>1. /\ UNCHANGED <<effects, faults>>
        /\ worker.pc \in {"start", "fail_row"}
    BY <1>6 DEF MarkProcessing, MarkRetrying, countVars
  <2>2. effects[Exec] <= faults
    BY <2>1 DEF ActsInv
  <2>3. worker'.pc # "idle" => Exec' \in Execs /\ effects[Exec'] <= faults
    BY <1>1, <1>4, <2>2
  <2>4. \A e \in Execs : status'[e] \notin {"processing", "acknowledged"} =>
             status[e] \notin {"processing", "acknowledged"} \/ effects[e] <= faults
    BY <1>3, <2>2
  <2>5. QED
    BY <2>1, <2>3, <2>4, ActsKept
<1>7. CASE RecordAck \/ MarkAcknowledged
  <2>1. UNCHANGED <<effects, faults>> /\ worker'.pc \in {"ack_row", "idle"}
    <3>1. CASE RecordAck
      BY <1>1, <3>1, GoToType DEF RecordAck, countVars, WorkerPc
    <3>2. CASE MarkAcknowledged
      BY <3>2 DEF MarkAcknowledged, countVars, IdleWorker
    <3>3. QED
      BY <1>7, <3>1, <3>2
  <2>2. status'[Exec] \in {"processing", "acknowledged"}
    <3>1. CASE RecordAck
      BY <3>1 DEF RecordAck, rowVars, LifeInv, ProcessedInv, Stage
    <3>2. CASE MarkAcknowledged
      BY <1>1, <1>2, <3>2 DEF MarkAcknowledged, UpdateRow
    <3>3. QED
      BY <1>7, <3>1, <3>2
  <2>3. \A e \in Execs : status'[e] \notin {"processing", "acknowledged"} =>
             status[e] \notin {"processing", "acknowledged"}
    BY <1>3, <2>2
  <2>4. QED
    BY <2>1, <2>3, ActsKept
<1>8. CASE RecordFailure \/ MarkDeadLetter \/ NextAttempt
  <2>1. /\ UNCHANGED <<effects, faults>>
        /\ worker.pc \notin {"idle", "ack_audit", "ack_row"}
    BY <1>8 DEF RecordFailure, MarkDeadLetter, NextAttempt, countVars
  <2>2. effects[Exec] <= faults
    BY <2>1 DEF ActsInv
  <2>3. worker'.pc # "idle" => Exec' \in Execs /\ effects[Exec'] <= faults
    BY <1>1, <1>4, <2>2
  <2>4. \A e \in Execs : status'[e] \notin {"processing", "acknowledged"} =>
             status[e] \notin {"processing", "acknowledged"} \/ effects[e] <= faults
    BY <1>3, <2>2
  <2>5. QED
    BY <2>1, <2>3, <2>4, ActsKept
<1>9. CASE DropCommand \/ CatchException
  <2>1. UNCHANGED <<effects, status>> /\ faults' = faults + 1
    BY <1>9 DEF DropCommand, CatchException, Raise, rowVars
  <2>2. worker'.pc # "idle" => Exec' \in Execs
    BY <1>1, <1>4
  <2>3. QED
    BY <2>1, <2>2, ActsKept
<1>10. QED
  BY <1>5, <1>6, <1>7, <1>8, <1>9 DEF WorkerGoes

LEMMA ActsStep ==
  ASSUME TypeInv, LifeInv, ActsInv, [Next]_vars
  PROVE  ActsInv'
<1>0. status \in [Execs -> Status]
  BY DEF TypeInv, TypeOK
<1>1. CASE \/ \E c \in Approvers, t \in Tokens : Submit(c, t)
           \/ \E c \in Operators, e \in Execs : RetryRead(c, e)
  <2>1. UNCHANGED <<status, worker, effects, faults>>
    BY <1>1, AskFlow
  <2>2. QED
    BY <2>1, ActsStay
<1>2. ASSUME NEW c \in Clients, Lookup(c) \/ Put(c) PROVE ActsInv'
  <2>1. UNCHANGED <<status, worker, effects, faults>>
    BY <1>2, LookupFlow, PutFlow
  <2>2. QED
    BY <2>1, ActsStay
<1>3. ASSUME NEW c \in Clients, Insert(c) \/ RetryReset(c) PROVE ActsInv'
  <2>1. PICK f \in Execs :
          /\ status[f] = "absent" \/ Resets(c, f)
          /\ status' = [status EXCEPT ![f] = "pending"]
          /\ UNCHANGED <<worker, effects, faults>>
    BY <1>3, InsertFlow, ResetFlow
  <2>2. status[f] \notin {"processing", "acknowledged"}
    BY <2>1 DEF LifeInv, ResetInv
  <2>3. \A e \in Execs : status'[e] = status[e] \/ status[e] \notin {"processing", "acknowledged"}
    BY <1>0, <2>1, <2>2
  <2>4. QED
    BY <2>1, <2>3, ActsStay
<1>4. ASSUME NEW c \in Clients, EnqueueFault(c) \/ RetryFault(c) PROVE ActsInv'
  <2>1. /\ \/ UNCHANGED status
           \/ \E f \in Execs : status[f] = "absent" /\ status' = [status EXCEPT ![f] = "pending"]
        /\ UNCHANGED <<worker, effects>> /\ faults' = faults + 1
    BY <1>4, FaultFlow
  <2>2. \A e \in Execs : status'[e] = status[e] \/ status[e] \notin {"processing", "acknowledged"}
    BY <1>0, <2>1
  <2>3. QED
    BY <2>1, <2>2, ActsStay
<1>5. CASE Take
  <2>1. /\ UNCHANGED <<status, effects, faults>>
        /\ worker'.cmd.exec \in Execs /\ Has(queue, worker'.cmd.exec)
    BY <1>5, TakeFlow
  <2>2. status[worker'.cmd.exec] = "pending"
    BY <2>1 DEF LifeInv, WaitingInv, Waits
  <2>3. Exec' \in Execs /\ effects[Exec'] <= faults
    BY <2>1, <2>2 DEF ActsInv, Exec
  <2>4. QED
    BY <2>1, <2>3, ActsKept
<1>6. CASE WorkerGoes
  BY <1>6, WorkerActs
<1>7. CASE Lose
  <2>1. UNCHANGED <<status, effects, faults>> /\ worker'.pc = "idle"
    BY <1>7, LoseFlow DEF IdleWorker
  <2>2. QED
    BY <2>1, ActsKept
<1>8. CASE (\E g \in {"open", "closed"} : SetGate(g)) \/ Stop \/ Stopped \/ Start \/ UNCHANGED vars
  <2>1. UNCHANGED <<status, worker, effects, faults>>
    BY <1>8, QuietFlow
  <2>2. QED
    BY <2>1, ActsStay
<1>9. QED
  BY <1>1, <1>2, <1>3, <1>4, <1>5, <1>6, <1>7, <1>8, NextCases

(* The station acts at most once for a command, but for one more act for each *)
(* failed database call after which the command is sent again; with the       *)
(* proviso on retries (service.py:87-136, 187-212).                           *)
THEOREM ActsOnceUnlessRaced == Spec /\ []ResetsApart => []AtMostOneEffect
<1>1. Init => TypeInv /\ LifeInv /\ ActsInv
  <2>1. Init => ActsInv
    BY DEF Init, ActsInv, IdleWorker
  <2>2. QED
    BY <2>1, InitInv, LifeInit
<1>2. TypeInv /\ LifeInv /\ ActsInv /\ ResetsApart /\ [Next]_vars => (TypeInv /\ LifeInv /\ ActsInv)'
  BY TypeInvStep, LifeStep, ActsStep
<1>3. ActsInv => AtMostOneEffect
  BY DEF ActsInv, AtMostOneEffect
<1>4. QED
  BY <1>1, <1>2, <1>3, PTL DEF Spec

(* Only the calls of manual_retry reset a row.                                *)
RetriersInv == \A c \in Clients : pc[c] = "reset" => c \in Operators

LEMMA RetriersStep ==
  ASSUME TypeInv, RetriersInv, [Next]_vars
  PROVE  RetriersInv'
<1>0. pc \in [Clients -> ClientPc]
  BY DEF TypeInv, TypeOK
<1> SUFFICES ASSUME NEW d \in Clients, pc'[d] = "reset" PROVE d \in Operators
  BY DEF RetriersInv
<1>1. CASE \/ \E c \in Approvers, t \in Tokens : Submit(c, t)
           \/ \E c \in Operators, e \in Execs : RetryRead(c, e)
  <2>1. CASE \E c \in Approvers : pc' = [pc EXCEPT ![c] = "lookup"]
    BY <1>0, <2>1 DEF RetriersInv
  <2>2. CASE \E c \in Operators : pc' = [pc EXCEPT ![c] = "reset"]
    BY <1>0, <2>2 DEF RetriersInv
  <2>3. QED
    BY <1>1, <2>1, <2>2 DEF Submit, RetryRead
<1>2. ASSUME NEW c \in Clients,
             Lookup(c) \/ Insert(c) \/ Put(c) \/ EnqueueFault(c) \/ RetryFault(c)
      PROVE  d \in Operators
  <2>1. pc[d] = "reset"
    BY <1>2, LookupFlow, InsertFlow, PutFlow, FaultFlow
  <2>2. QED
    BY <2>1 DEF RetriersInv
<1>3. ASSUME NEW c \in Clients, RetryReset(c) PROVE d \in Operators
  <2>1. pc[d] = "reset"
    BY <1>3, ResetFlow
  <2>2. QED
    BY <2>1 DEF RetriersInv
<1>4. CASE Take \/ WorkerGoes
  <2>1. UNCHANGED pc
    BY <1>4, TakeFlow, WorkerFlow
  <2>2. QED
    BY <2>1 DEF RetriersInv
<1>5. CASE Lose
  BY <1>5, LoseFlow
<1>6. CASE (\E g \in {"open", "closed"} : SetGate(g)) \/ Stop \/ Stopped \/ Start \/ UNCHANGED vars
  <2>1. UNCHANGED pc
    BY <1>6, QuietFlow
  <2>2. QED
    BY <2>1 DEF RetriersInv
<1>7. QED
  BY <1>1, <1>2, <1>3, <1>4, <1>5, <1>6, NextCases

(* With one operator at a time no retries race.                               *)
LEMMA OneOperator ==
  ASSUME \A o, p \in Operators : o = p
  PROVE  Spec => []ResetsApart
<1>1. Init => TypeInv /\ RetriersInv
  BY InitInv DEF Init, RetriersInv
<1>2. TypeInv /\ RetriersInv /\ [Next]_vars => (TypeInv /\ RetriersInv)'
  BY TypeInvStep, RetriersStep
<1>3. RetriersInv => ResetsApart
  BY DEF RetriersInv, ResetsApart
<1>4. QED
  BY <1>1, <1>2, <1>3, PTL DEF Spec

(* With one operator at a time the broker implements the lifecycle of a       *)
(* command (M10_AgenticExecutionBroker.md:62-65).                             *)
THEOREM LifecycleImplemented ==
  ASSUME \A o, p \in Operators : o = p
  PROVE  Spec => ImplementsLifecycle
BY OneOperator, LifecycleUnlessRaced, PTL

(* With one operator at a time the station acts at most once for a command,   *)
(* but for one more act for each failed database call.                        *)
THEOREM StationActsOnce ==
  ASSUME \A o, p \in Operators : o = p
  PROVE  Spec => []AtMostOneEffect
BY OneOperator, ActsOnceUnlessRaced, PTL
==============================================================================
