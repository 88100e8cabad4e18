--------------------------- MODULE DispatchProofs ---------------------------
(***************************************************************************)
(* Theorems about Dispatch, for every number of executions, workers,       *)
(* dispatchers, deliveries, attempts and faults.                           *)
(***************************************************************************)
EXTENDS Dispatch, TLAPS

(***************************************************************************)
(* Type correctness.  That the deliveries of a message never exceed        *)
(* MaxDeliver, and the attempts of finish never FinishAttempts, needs to   *)
(* know when the two counters may still grow.                              *)
(***************************************************************************)
QueueInv ==
  /\ QueueOK
  /\ \A m \in Msgs : msg[m] \in {"none", "pending"} => num[m] < MaxDeliver
WorkersInv ==
  /\ WorkersOK
  /\ \A w \in Workers : pc[w] \in Holding \cup {"idle", "off", "claim"} => tries[w] < FinishAttempts

\* A submit message does not exist before PublishSubmit stores it.
Unpublished == \A e \in Exec : gw[e] \in {"new", "publish"} => msg[e] = "none"

TypeInv ==
  /\ RowsOK /\ RequestsOK /\ QueueInv /\ WorkersInv /\ SandboxOK
  /\ OutputsOK /\ ProcessesOK /\ BudgetOK /\ Unpublished

\* The values Runner.Run returns are outcomes, and every outcome has a status.
LEMMA OutcomeFacts ==
  /\ NoRun \in Outcome /\ NotStarted \in Outcome /\ RunnerError \in Outcome
  /\ \A r \in Outcome : StatusOf(r) \in Terminal
  /\ \A c \in {0, 1} : Result("nil", {}, c) \in Outcome
  /\ Result("nil", {"TimedOut"}, 0) \in Outcome
  /\ \A r \in Outcome, F \in SUBSET {"OOMKilled"} :
       Result("nil", r.flags \cup F, r.exitCode) \in Outcome
<1>1. \A r \in Outcome : StatusOf(r) \in Terminal
  BY DEF StatusOf, classify, Terminal
<1>2. \A r \in Outcome, F \in SUBSET {"OOMKilled"} :
        Result("nil", r.flags \cup F, r.exitCode) \in Outcome
  BY DEF Result, Outcome
<1>. QED  BY <1>1, <1>2 DEF NoRun, NotStarted, RunnerError, Result, Outcome

\* An iterator that is closed buffers nothing.
LEMMA EmptyInboxType == EmptyInbox \in Inbox
BY DEF EmptyInbox, Inbox

\* The initial state is well typed.
LEMMA TypeInit == Init => TypeInv
BY DispatchAssumption, OutcomeFacts, EmptyInboxType
   DEF Init, TypeInv, Unpublished, RowsOK, RequestsOK, QueueInv, QueueOK, WorkersInv, WorkersOK, SandboxOK,
       OutputsOK, ProcessesOK, BudgetOK, Status, Steps, Holding, Msgs

\* The table after each statement is again a table of statuses.
LEMMA RowTypes ==
  ASSUME NEW e \in Exec, row \in [Exec -> Status]
  PROVE  /\ CreateExecution(row, e) \in [Exec -> Status]
         /\ MarkExecutionRunning(row, e) \in [Exec -> Status]
         /\ RequeueExecution(row, e) \in [Exec -> Status]
         /\ \A s \in Terminal : FinishExecution(row, e, s) \in [Exec -> Status]
         /\ SetExecutionFailed(row, e) \in [Exec -> Status]
         /\ MarkStaleQueuedFailed(row, e) \in [Exec -> Status]
BY DEF CreateExecution, MarkExecutionRunning, RequeueExecution, FinishExecution,
       SetExecutionFailed, MarkStaleQueuedFailed, Status, Terminal

\* So is it after the sweep of running rows; the list of stale rows has known ids.
LEMMA ReapTypes ==
  ASSUME row \in [Exec -> Status], NEW S
  PROVE  /\ ReapStaleExecutions(row, S) \in [Exec -> Status]
         /\ ListStaleQueuedExecutions(row, S) \subseteq Exec
BY DEF ReapStaleExecutions, ListStaleQueuedExecutions, Status, Terminal

\* A write of a well typed table keeps the types of the rows and their ages.
LEMMA WriteType ==
  ASSUME RowsOK, NEW r \in [Exec -> Status], Write(r)
  PROVE  RowsOK'
BY DEF RowsOK, Write

\* Storing a message, with or without dropping the oldest, keeps the queue's types.
LEMMA StoreType ==
  ASSUME QueueInv, NEW m \in Msgs, msg[m] = "none", Store(m)
  PROVE  QueueInv'
<1>1. stream' \in Seq(Msgs)
  <2>1. CASE Len(stream) >= MaxMsgs
    <3>1. stream # <<>>
      BY <2>1, DispatchAssumption DEF QueueInv, QueueOK
    <3>2. Tail(stream) \in Seq(Msgs)
      BY <3>1 DEF QueueInv, QueueOK
    <3>. QED  BY <2>1, <3>2 DEF Store
  <2>2. CASE ~(Len(stream) >= MaxMsgs)
    BY <2>2 DEF Store, QueueInv, QueueOK
  <2>. QED  BY <2>1, <2>2
<1>2. QED  BY <1>1 DEF QueueInv, QueueOK, Store

\* No call takes more than the budget of faults.
LEMMA BudgetType ==
  ASSUME BudgetOK, Fault \/ NoFault
  PROVE  BudgetOK'
BY DispatchAssumption DEF Fault, NoFault, BudgetOK

\* What a step leaves alone keeps its type.
LEMMA TypeKept ==
  ASSUME TypeInv
  PROVE  /\ UNCHANGED db => RowsOK'
         /\ UNCHANGED req => RequestsOK'
         /\ UNCHANGED js => QueueInv'
         /\ UNCHANGED inbox /\ UNCHANGED wk => WorkersInv'
         /\ UNCHANGED box => SandboxOK'
         /\ UNCHANGED out => OutputsOK'
         /\ UNCHANGED proc => ProcessesOK'
         /\ UNCHANGED faults => BudgetOK'
         /\ UNCHANGED req /\ UNCHANGED js => Unpublished'
<1>. USE DEF TypeInv
<1>1. UNCHANGED db => RowsOK'
  BY DEF db, RowsOK
<1>2. UNCHANGED req => RequestsOK'
  BY DEF req, RequestsOK
<1>3. UNCHANGED js => QueueInv'
  BY DEF js, QueueInv, QueueOK
<1>4. UNCHANGED inbox /\ UNCHANGED wk => WorkersInv'
  BY DEF wk, WorkersInv, WorkersOK
<1>5. UNCHANGED box => SandboxOK'
  BY DEF box, SandboxOK
<1>6. UNCHANGED out => OutputsOK'
  BY DEF out, OutputsOK
<1>7. UNCHANGED proc => ProcessesOK'
  BY DEF proc, ProcessesOK
<1>8. UNCHANGED faults => BudgetOK'
  BY DEF BudgetOK
<1>9. UNCHANGED req /\ UNCHANGED js => Unpublished'
  BY DEF req, js, Unpublished
<1>. QED  BY <1>1, <1>2, <1>3, <1>4, <1>5, <1>6, <1>7, <1>8, <1>9

\* What an iterator buffers after a prefetch and after Next.
LEMMA InboxTypes ==
  ASSUME inbox \in [Workers -> Inbox], NEW w \in Workers, NEW m \in Msgs
  PROVE  /\ [inbox EXCEPT ![w][m] = @ + 1] \in [Workers -> Inbox]
         /\ inbox[w][m] > 0 => [inbox EXCEPT ![w][m] = @ - 1] \in [Workers -> Inbox]
BY DEF Inbox

\* Every step keeps the types: one proof step per action, and under it one per
\* group of variables the action changes.
LEMMA TypeNext == TypeInv /\ [Next]_vars => TypeInv'
<1>. SUFFICES ASSUME TypeInv, [Next]_vars PROVE TypeInv'
  OBVIOUS
<1>. USE DEF TypeInv
<1>1. ASSUME NEW e \in Exec, Insert(e) PROVE TypeInv'
  <2>1. RowsOK'
    BY <1>1, RowTypes, WriteType, Zenon DEF Insert, RowsOK, db
  <2>2. RequestsOK'
    BY <1>1, Zenon DEF Insert, RequestsOK
  <2>3. BudgetOK'
    BY <1>1, BudgetType, Zenon DEF Insert
  <2>4. Unpublished'
    BY <1>1, Zenon DEF Insert, Unpublished, RequestsOK, js
  <2>. QED
    BY <1>1, <2>1, <2>2, <2>3, <2>4, TypeKept, Zenon DEF Insert
<1>2. ASSUME NEW e \in Exec, PublishSubmit(e) PROVE TypeInv'
  <2>1. QueueInv'
    BY <1>2, StoreType, Zenon DEF PublishSubmit, Unpublished, Msgs, QueueInv, QueueOK, js
  <2>2. RequestsOK'
    BY <1>2, Zenon DEF PublishSubmit, RequestsOK
  <2>3. BudgetOK'
    BY <1>2, BudgetType, Zenon DEF PublishSubmit
  <2>4. Unpublished'
    BY <1>2, Zenon DEF PublishSubmit, Unpublished, RequestsOK, QueueInv, QueueOK, Store, js,
       Msgs
  <2>. QED
    BY <1>2, <2>1, <2>2, <2>3, <2>4, TypeKept, Zenon DEF PublishSubmit
<1>3. ASSUME NEW e \in Exec, FailSubmit(e) PROVE TypeInv'
  <2>1. RowsOK'
    BY <1>3, RowTypes, WriteType, Zenon DEF FailSubmit, RowsOK, db
  <2>2. RequestsOK'
    BY <1>3, Zenon DEF FailSubmit, RequestsOK
  <2>3. BudgetOK'
    BY <1>3, BudgetType, Zenon DEF FailSubmit
  <2>4. Unpublished'
    BY <1>3, Zenon DEF FailSubmit, Unpublished, RequestsOK, js
  <2>. QED
    BY <1>3, <2>1, <2>2, <2>3, <2>4, TypeKept, Zenon DEF FailSubmit
<1>4. ASSUME NEW e \in Exec, ClientGone(e) PROVE TypeInv'
  <2>1. RequestsOK'
    BY <1>4, Zenon DEF ClientGone, RequestsOK
  <2>2. BudgetOK'
    BY <1>4, BudgetType, Zenon DEF ClientGone
  <2>3. Unpublished'
    BY <1>4, Zenon DEF ClientGone, Unpublished, js
  <2>. QED
    BY <1>4, <2>1, <2>2, <2>3, TypeKept, Zenon DEF ClientGone
<1>5. ASSUME NEW e \in Exec, GatewayCrash(e) PROVE TypeInv'
  <2>1. RequestsOK'
    BY <1>5, Zenon DEF GatewayCrash, RequestsOK
  <2>2. BudgetOK'
    BY <1>5, BudgetType, Zenon DEF GatewayCrash
  <2>3. Unpublished'
    BY <1>5, Zenon DEF GatewayCrash, Unpublished, RequestsOK, js
  <2>. QED
    BY <1>5, <2>1, <2>2, <2>3, TypeKept, Zenon DEF GatewayCrash
<1>6. ASSUME NEW e \in Exec, AgeUpdated(e) PROVE TypeInv'
  <2>1. RowsOK'
    BY <1>6, Zenon DEF AgeUpdated, RowsOK
  <2>. QED
    BY <1>6, <2>1, TypeKept, Zenon DEF AgeUpdated
<1>7. ASSUME NEW e \in Exec, AgeCreated(e) PROVE TypeInv'
  <2>1. RowsOK'
    BY <1>7, Zenon DEF AgeCreated, RowsOK
  <2>. QED
    BY <1>7, <2>1, TypeKept, Zenon DEF AgeCreated
<1>8. ASSUME NEW e \in Exec, ProgramExits(e) PROVE TypeInv'
  <2>1. SandboxOK'
    BY <1>8, Zenon DEF ProgramExits, SandboxOK, SetCont
  <2>. QED
    BY <1>8, <2>1, TypeKept, Zenon DEF ProgramExits
<1>9. ASSUME NEW m \in Poison, PublishPoison(m) PROVE TypeInv'
  <2>1. QueueInv'
    BY <1>9, StoreType, Zenon DEF PublishPoison, Msgs
  <2>2. Unpublished'
    BY <1>9, DispatchAssumption, Zenon DEF PublishPoison, Unpublished, RequestsOK, QueueInv,
       QueueOK, Store, req, Msgs
  <2>. QED
    BY <1>9, <2>1, <2>2, TypeKept, Zenon DEF PublishPoison
<1>10. ASSUME NEW m \in Msgs, AckWaitExpires(m) PROVE TypeInv'
  <2>1. QueueInv'
    BY <1>10, Zenon DEF AckWaitExpires, QueueInv, QueueOK, Redeliver
  <2>2. Unpublished'
    BY <1>10, Zenon DEF AckWaitExpires, Unpublished, QueueInv, QueueOK, req, Msgs, Redeliver
  <2>. QED
    BY <1>10, <2>1, <2>2, TypeKept, Zenon DEF AckWaitExpires
<1>11. ASSUME NEW w \in Workers, NEW m \in Msgs, Fetch(w, m) PROVE TypeInv'
  <2>1. QueueInv'
    BY <1>11, DispatchAssumption DEF Fetch, QueueInv, QueueOK
  <2>2. WorkersInv'
    <3>1. inbox' \in [Workers -> Inbox]
      BY <1>11, InboxTypes, Zenon DEF Fetch, WorkersInv, WorkersOK
    <3>. QED  BY <1>11, <3>1, Zenon DEF Fetch, WorkersInv, WorkersOK, Steps, Holding, wk
  <2>3. Unpublished'
    BY <1>11, Zenon DEF Fetch, Unpublished, QueueInv, QueueOK, req, Msgs
  <2>. QED
    BY <1>11, <2>1, <2>2, <2>3, TypeKept, Zenon DEF Fetch
<1>12. ASSUME NEW w \in Workers, NextMsg(w) PROVE TypeInv'
  <2>1. WorkersInv'
    <3>1. PICK m \in Msgs :
            /\ inbox[w][m] > 0 /\ inbox' = [inbox EXCEPT ![w][m] = @ - 1]
            /\ cur' = [cur EXCEPT ![w] = m]
            /\ Goto(w, IF m \in Poison THEN "ack" ELSE "claim")
      BY <1>12, Zenon DEF NextMsg
    <3>2. inbox' \in [Workers -> Inbox]
      BY <3>1, InboxTypes, Zenon DEF WorkersInv, WorkersOK
    <3>3. /\ pc' \in [Workers -> Steps] /\ cur' \in [Workers -> Msgs \cup {None}]
          /\ pc[w] = "idle" /\ UNCHANGED <<run, tries>>
      BY <1>12, <3>1, Zenon DEF NextMsg, WorkersInv, WorkersOK, Steps, Goto
    <3>4. /\ cur'[w] = m /\ (pc'[w] = "ack" \/ (pc'[w] = "claim" /\ m \in Exec))
          /\ \A v \in Workers \ {w} : pc'[v] = pc[v] /\ cur'[v] = cur[v]
      BY <3>1, Zenon DEF WorkersInv, WorkersOK, Goto, Msgs
    <3>5. WorkersOK'
      BY <3>2, <3>3, <3>4, Zenon DEF WorkersInv, WorkersOK, Holding
    <3>. QED
      BY <3>3, <3>4, <3>5, Zenon DEF WorkersInv
  <2>. QED
    BY <1>12, <2>1, TypeKept, Zenon DEF NextMsg
<1>13. ASSUME NEW w \in Workers, Claim(w) PROVE TypeInv'
  <2>1. RowsOK'
    BY <1>13, RowTypes, WriteType, Zenon DEF Claim, RowsOK, db, WorkersInv, WorkersOK, Steps,
       Holding
  <2>2. WorkersInv'
    BY <1>13, Zenon DEF Claim, WorkersInv, WorkersOK, Steps, Holding, Goto, Msgs
  <2>3. BudgetOK'
    BY <1>13, BudgetType, Zenon DEF Claim, CallOK, CallErr, CallLost
  <2>. QED
    BY <1>13, <2>1, <2>2, <2>3, TypeKept, Zenon DEF Claim
<1>14. ASSUME NEW w \in Workers, Create(w) PROVE TypeInv'
  <2>1. SandboxOK'
    BY <1>14, Zenon DEF Create, SandboxOK, SetCont, Kill, WorkersInv, WorkersOK, Steps, Holding
  <2>2. WorkersInv'
    BY <1>14, OutcomeFacts DEF Create, WorkersInv, WorkersOK, Steps, Holding, Goto,
       Return
  <2>3. BudgetOK'
    BY <1>14, BudgetType, Zenon DEF Create, CallOK, CallErr, CallLost
  <2>. QED
    BY <1>14, <2>1, <2>2, <2>3, TypeKept, Zenon DEF Create
<1>15. ASSUME NEW w \in Workers, Start(w) PROVE TypeInv'
  <2>1. SandboxOK'
    BY <1>15, Zenon DEF Start, SandboxOK, SetCont, WorkersInv, WorkersOK, Steps, Holding
  <2>2. WorkersInv'
    BY <1>15, OutcomeFacts DEF Start, WorkersInv, WorkersOK, Steps, Holding, Goto,
       Return
  <2>3. BudgetOK'
    BY <1>15, BudgetType, Zenon DEF Start, CallOK, CallErr, CallLost
  <2>. QED
    BY <1>15, <2>1, <2>2, <2>3, TypeKept, Zenon DEF Start
<1>16. ASSUME NEW w \in Workers, Send(w) PROVE TypeInv'
  <2>1. SandboxOK'
    BY <1>16 DEF Send, SandboxOK, SetCont, WorkersInv, WorkersOK, Steps, Holding
  <2>2. WorkersInv'
    BY <1>16, OutcomeFacts DEF Send, WorkersInv, WorkersOK, Steps, Holding, Goto, Return
  <2>3. BudgetOK'
    BY <1>16, BudgetType, Zenon DEF Send
  <2>. QED
    BY <1>16, <2>1, <2>2, <2>3, TypeKept, Zenon DEF Send
<1>17. ASSUME NEW w \in Workers, Wait(w) PROVE TypeInv'
  <2>1. SandboxOK'
    BY <1>17 DEF Wait, SandboxOK, SetCont, Kill, WorkersInv, WorkersOK, Steps, Holding
  <2>2. WorkersInv'
    BY <1>17, OutcomeFacts DEF Wait, WorkersInv, WorkersOK, Steps, Holding, Goto,
       Return, ExitCodes
  <2>3. BudgetOK'
    BY <1>17, BudgetType, Zenon DEF Wait, CallOK, CallErr, CallLost
  <2>. QED
    BY <1>17, <2>1, <2>2, <2>3, TypeKept, Zenon DEF Wait
<1>18. ASSUME NEW w \in Workers, Logs(w) PROVE TypeInv'
  <2>1. WorkersInv'
    <3>1. run[w] \in Outcome
      BY Zenon DEF WorkersInv, WorkersOK
    <3>2. Result("nil", run[w].flags \cup (IF exit[cur[w]] = "oom" THEN {"OOMKilled"} ELSE {}),
                 run[w].exitCode) \in Outcome
      BY <3>1, OutcomeFacts, Zenon
    <3>3. run' \in [Workers -> Outcome]
      BY <1>18, <3>2, OutcomeFacts, Zenon DEF Logs, Return, WorkersInv, WorkersOK
    <3>. QED
      BY <1>18, <3>3, Zenon DEF Logs, WorkersInv, WorkersOK, Steps, Holding, Goto, Return
  <2>2. BudgetOK'
    BY <1>18, BudgetType, Zenon DEF Logs, CallOK, CallErr, CallLost
  <2>. QED
    BY <1>18, <2>1, <2>2, TypeKept, Zenon DEF Logs
<1>19. ASSUME NEW w \in Workers, Remove(w) PROVE TypeInv'
  <2>1. SandboxOK'
    BY <1>19, Zenon DEF Remove, SandboxOK, SetCont, Kill, WorkersInv, WorkersOK, Steps, Holding
  <2>2. WorkersInv'
    BY <1>19, Zenon DEF Remove, WorkersInv, WorkersOK, Steps, Holding, Goto
  <2>3. BudgetOK'
    BY <1>19, BudgetType, Zenon DEF Remove
  <2>. QED
    BY <1>19, <2>1, <2>2, <2>3, TypeKept, Zenon DEF Remove
<1>20. ASSUME NEW w \in Workers, Requeue(w) PROVE TypeInv'
  <2>1. RowsOK'
    BY <1>20, RowTypes, WriteType, Zenon DEF Requeue, RowsOK, db, WorkersInv, WorkersOK, Steps,
       Holding
  <2>2. WorkersInv'
    BY <1>20, Zenon DEF Requeue, WorkersInv, WorkersOK, Steps, Holding, Goto, Msgs
  <2>3. BudgetOK'
    BY <1>20, BudgetType, Zenon DEF Requeue, CallOK, CallErr, CallLost
  <2>. QED
    BY <1>20, <2>1, <2>2, <2>3, TypeKept, Zenon DEF Requeue
<1>21. ASSUME NEW w \in Workers, Finish(w) PROVE TypeInv'
  <2>1. RowsOK'
    BY <1>21, RowTypes, WriteType, OutcomeFacts, Zenon DEF Finish, RowsOK, db, WorkersInv,
       WorkersOK, Steps, Holding
  <2>2. WorkersInv'
    BY <1>21, DispatchAssumption DEF Finish, WorkersInv, WorkersOK, Steps, Holding,
       Goto, GiveUp, Msgs
  <2>3. BudgetOK'
    BY <1>21, BudgetType, Zenon DEF Finish, CallOK, CallErr, CallLost
  <2>. QED
    BY <1>21, <2>1, <2>2, <2>3, TypeKept, Zenon DEF Finish
<1>22. ASSUME NEW w \in Workers, PublishResult(w) PROVE TypeInv'
  <2>1. OutputsOK'
    BY <1>22, OutcomeFacts DEF PublishResult, OutputsOK, WorkersInv, WorkersOK, Steps,
       Holding
  <2>2. WorkersInv'
    BY <1>22, Zenon DEF PublishResult, WorkersInv, WorkersOK, Steps, Holding, Goto
  <2>3. BudgetOK'
    BY <1>22, BudgetType, Zenon DEF PublishResult, CallOK, CallErr, CallLost
  <2>. QED
    BY <1>22, <2>1, <2>2, <2>3, TypeKept, Zenon DEF PublishResult
<1>23. ASSUME NEW w \in Workers, DeliverWebhook(w) PROVE TypeInv'
  <2>1. OutputsOK'
    BY <1>23, OutcomeFacts DEF DeliverWebhook, EventStatus, OutputsOK, WorkersInv, WorkersOK, Steps,
       Holding
  <2>2. WorkersInv'
    BY <1>23, Zenon DEF DeliverWebhook, WorkersInv, WorkersOK, Steps, Holding, Goto, Msgs
  <2>3. BudgetOK'
    BY <1>23, BudgetType, Zenon DEF DeliverWebhook, CallOK, CallErr, CallLost
  <2>. QED
    BY <1>23, <2>1, <2>2, <2>3, TypeKept, Zenon DEF DeliverWebhook
<1>24. ASSUME NEW w \in Workers, Ack(w) PROVE TypeInv'
  <2>1. QueueInv'
    BY <1>24, Zenon DEF Ack, QueueInv, QueueOK, WorkersInv, WorkersOK, Steps, Holding
  <2>2. WorkersInv'
    BY <1>24, DispatchAssumption, OutcomeFacts DEF Ack, WorkersInv, WorkersOK, Steps,
       Holding, Goto, Settle
  <2>3. BudgetOK'
    BY <1>24, BudgetType, Zenon DEF Ack
  <2>4. Unpublished'
    BY <1>24, Zenon DEF Ack, Unpublished, QueueInv, QueueOK, req, Msgs, WorkersInv, WorkersOK,
       Steps, Holding
  <2>. QED
    BY <1>24, <2>1, <2>2, <2>3, <2>4, TypeKept, Zenon DEF Ack
<1>25. ASSUME NEW w \in Workers, Nak(w) PROVE TypeInv'
  <2>1. QueueInv'
    BY <1>25, Zenon DEF Nak, QueueInv, QueueOK, Redeliver, WorkersInv, WorkersOK, Steps,
       Holding
  <2>2. WorkersInv'
    BY <1>25, DispatchAssumption, OutcomeFacts DEF Nak, WorkersInv, WorkersOK, Steps,
       Holding, Goto, Settle
  <2>3. BudgetOK'
    BY <1>25, BudgetType, Zenon DEF Nak
  <2>4. Unpublished'
    BY <1>25, Zenon DEF Nak, Unpublished, QueueInv, QueueOK, Redeliver, req, Msgs, WorkersInv,
       WorkersOK, Steps, Holding
  <2>. QED
    BY <1>25, <2>1, <2>2, <2>3, <2>4, TypeKept, Zenon DEF Nak
<1>26. ASSUME NEW w \in Workers, WorkerExits(w) \/ WorkerReturns(w) PROVE TypeInv'
  <2>1. WorkersInv'
    <3>1. /\ inbox' = [inbox EXCEPT ![w] = EmptyInbox] /\ UNCHANGED <<cur, run, tries>>
          /\ pc[w] = "idle" /\ pc' = [pc EXCEPT ![w] = "off"]
      BY <1>26, Zenon DEF WorkerExits, WorkerReturns, Goto
    <3>2. inbox' \in [Workers -> Inbox] /\ pc' \in [Workers -> Steps]
      BY <3>1, EmptyInboxType, Zenon DEF WorkersInv, WorkersOK, Steps
    <3>3. pc'[w] = "off" /\ \A v \in Workers \ {w} : pc'[v] = pc[v]
      BY <3>1, Zenon DEF WorkersInv, WorkersOK
    <3>4. WorkersOK'
      BY <3>1, <3>2, <3>3, Zenon DEF WorkersInv, WorkersOK, Holding
    <3>. QED
      BY <3>1, <3>3, <3>4, Zenon DEF WorkersInv
  <2>2. BudgetOK'
    BY <1>26, BudgetType, Zenon DEF WorkerExits, WorkerReturns, BudgetOK
  <2>. QED
    BY <1>26, <2>1, <2>2, TypeKept, Zenon DEF WorkerExits, WorkerReturns
<1>27. ASSUME NEW d \in Dispatcher, ReapRunning(d) PROVE TypeInv'
  <2>1. RowsOK'
    BY <1>27, ReapTypes, WriteType, Zenon DEF ReapRunning, RowsOK, db
  <2>2. ProcessesOK'
    BY <1>27, Zenon DEF ReapRunning, ProcessesOK
  <2>3. BudgetOK'
    BY <1>27, BudgetType, Zenon DEF ReapRunning
  <2>. QED
    BY <1>27, <2>1, <2>2, <2>3, TypeKept, Zenon DEF ReapRunning
<1>28. ASSUME NEW d \in Dispatcher, ReapList(d) PROVE TypeInv'
  <2>1. ProcessesOK'
    BY <1>28, ReapTypes DEF ReapList, ReapLoop, ProcessesOK, RowsOK
  <2>2. BudgetOK'
    BY <1>28, BudgetType, Zenon DEF ReapList
  <2>. QED
    BY <1>28, <2>1, <2>2, TypeKept, Zenon DEF ReapList
<1>29. ASSUME NEW d \in Dispatcher, ReapMark(d) PROVE TypeInv'
  <2>1. RowsOK'
    BY <1>29, RowTypes, WriteType, Zenon DEF ReapMark, RowsOK, db, ProcessesOK
  <2>2. ProcessesOK'
    BY <1>29 DEF ReapMark, ReapLoop, ProcessesOK
  <2>3. BudgetOK'
    BY <1>29, BudgetType, Zenon DEF ReapMark
  <2>. QED
    BY <1>29, <2>1, <2>2, <2>3, TypeKept, Zenon DEF ReapMark
<1>30. ASSUME NEW d \in Dispatcher, Stop(d) PROVE TypeInv'
  <2>1. ProcessesOK'
    BY <1>30, Zenon DEF Stop, ProcessesOK, ReaperStops
  <2>2. BudgetOK'
    BY <1>30, BudgetType, Zenon DEF Stop
  <2>. QED
    BY <1>30, <2>1, <2>2, TypeKept, Zenon DEF Stop
<1>31. ASSUME NEW d \in Dispatcher, Crash(d) PROVE TypeInv'
  <2>1. ProcessesOK'
    BY <1>31, Zenon DEF Crash, ProcessesOK, ReaperStops
  <2>2. WorkersInv'
    <3>1. WorkersOK'
      <4>1. pc' \in [Workers -> Steps] /\ inbox' \in [Workers -> Inbox]
        BY <1>31, EmptyInboxType, Zenon DEF Crash, WorkersInv, WorkersOK, Steps
      <4>2. cur' \in [Workers -> Msgs \cup {None}]
        BY <1>31, Zenon DEF Crash, WorkersInv, WorkersOK
      <4>3. run' \in [Workers -> Outcome]
        BY <1>31, OutcomeFacts, Zenon DEF Crash, WorkersInv, WorkersOK
      <4>4. tries' \in [Workers -> 0..FinishAttempts]
        BY <1>31, DispatchAssumption DEF Crash, WorkersInv, WorkersOK
      <4>5. \A w \in Workers : pc'[w] = "off" \/ (pc'[w] = pc[w] /\ cur'[w] = cur[w])
        BY <1>31, Zenon DEF Crash
      <4>6. \A w \in Workers :
              /\ pc'[w] \in Holding \cup {"claim", "publish", "webhook"} => cur'[w] \in Exec
              /\ pc'[w] \in {"ack", "nak"} => cur'[w] \in Msgs
        BY <4>5, Zenon DEF WorkersInv, WorkersOK, Holding
      <4>. QED  BY <4>1, <4>2, <4>3, <4>4, <4>6, Zenon DEF WorkersOK
    <3>2. ASSUME NEW w \in Workers
          PROVE  tries'[w] = 0 \/ (tries'[w] = tries[w] /\ pc'[w] = pc[w])
      BY <1>31, Zenon DEF Crash
    <3>. QED
      BY <3>1, <3>2, DispatchAssumption DEF WorkersInv
  <2>3. BudgetOK'
    BY <1>31, BudgetType, Zenon DEF Crash
  <2>. QED
    BY <1>31, <2>1, <2>2, <2>3, TypeKept, Zenon DEF Crash
<1>32. ASSUME NEW d \in Dispatcher, Boot(d) PROVE TypeInv'
  <2>1. ProcessesOK'
    BY <1>32, Zenon DEF Boot, ProcessesOK
  <2>2. SandboxOK'
    BY <1>32, Zenon DEF Boot, SandboxOK, Kill
  <2>3. WorkersInv'
    BY <1>32, Zenon DEF Boot, WorkersInv, WorkersOK, Steps, Holding
  <2>4. BudgetOK'
    BY <1>32, BudgetType, Zenon DEF Boot
  <2>. QED
    BY <1>32, <2>1, <2>2, <2>3, <2>4, TypeKept, Zenon DEF Boot
<1>33. CASE UNCHANGED vars
  BY <1>33, TypeKept, Zenon DEF vars
<1>. QED
  BY <1>1, <1>2, <1>3, <1>4, <1>5, <1>6, <1>7, <1>8, <1>9, <1>10, <1>11, <1>12, <1>13,
     <1>14, <1>15, <1>16, <1>17, <1>18, <1>19, <1>20, <1>21, <1>22, <1>23, <1>24, <1>25,
     <1>26, <1>27, <1>28, <1>29, <1>30, <1>31, <1>32, <1>33, Zenon DEF Next, Gateway, Worker,
     ReaperOf

\* The state of the gateway, the queue, the workers and the reapers stays within
\* its types; no message is delivered more than MaxDeliver times and no result
\* write is attempted more than FinishAttempts times (consumer, finish).
THEOREM TypeCorrect == Spec => []TypeOK
<1>1. Spec => []TypeInv
  BY TypeInit, TypeNext, PTL DEF Spec
<1>2. TypeInv => TypeOK
  BY Zenon DEF TypeInv, TypeOK, QueueInv, WorkersInv
<1>. QED  BY <1>1, <1>2, PTL
=============================================================================
