------------------------------ MODULE Dispatch ------------------------------
(***************************************************************************)
(* The path of an execution through the system: the gateway's POST         *)
(* /executions handler inserts a queued row and publishes a submit         *)
(* message, JetStream delivers it at least once, a dispatcher worker       *)
(* claims the row, runs the code in a Docker container, writes the result, *)
(* publishes it, calls the webhook and acks, while every dispatcher's      *)
(* reaper fails rows that look abandoned.  One action per call that        *)
(* another process can observe, so that every interleaving, lost reply,    *)
(* crash and shutdown between two calls is a behaviour of the model.       *)
(*                                                                         *)
(* A call fails in one of two ways: CallErr, with no effect, and CallLost, *)
(* with its effect and an error for the caller (the reply was lost).  Each *)
(* failure, crash, shutdown and client disconnect takes one unit of the    *)
(* budget MaxFaults.                                                       *)
(***************************************************************************)
EXTENDS Integers, Sequences, FiniteSets, ExecutionRows

CONSTANTS
  Exec,            \* execution ids
  Poison,          \* malformed submit messages, with no row
  Webhook,         \* the executions whose row has a webhook_url
  Dispatcher,      \* dispatcher processes
  Workers,         \* their workers (EXEC_WORKERS each)
  HostOf,          \* the process of each worker
  MaxDeliver,      \* the consumer's MaxDeliver (5 in the code)
  FinishAttempts,  \* finishAttempts (3 in the code)
  MaxMsgs,         \* the stream's MaxMsgs (100_000 in the code)
  LateWork,        \* may live work outlast StaleAfter and StaleQueuedAfter?
  MaxFaults,       \* bound on the faults of a behaviour
  None             \* no message

ASSUME DispatchAssumption ==
  /\ Exec \cap Poison = {} /\ None \notin Exec \cup Poison
  /\ Webhook \subseteq Exec
  /\ HostOf \in [Workers -> Dispatcher]
  /\ MaxDeliver \in Nat \ {0} /\ FinishAttempts \in Nat \ {0}
  /\ MaxMsgs \in Nat \ {0} /\ MaxFaults \in Nat
  /\ LateWork \in BOOLEAN

VARIABLES
  row,      \* executions.status
  aged,     \* rows whose updated_at is older than StaleAfter
  old,      \* rows whose created_at is older than StaleQueuedAfter
  gw,       \* progress of the POST /executions request of each execution
  gone,     \* requests whose context is cancelled (client disconnected)
  stream,   \* the submit messages retained, oldest first
  msg,      \* consumer state of each submit message
  num,      \* deliveries of each submit message so far
  inbox,    \* deliveries buffered in a worker's iterator
  pc,       \* the call a worker makes next
  cur,      \* the message a worker handles
  run,      \* what Runner.Run is about to return
  tries,    \* failed attempts of finish
  cont,     \* the container runnix-exec-<id> of the Docker daemon
  runs,     \* how many times the source reached a container
  exit,     \* how the submitted program ended
  results,  \* statuses published on exec.result.<id>
  events,   \* statuses POSTed to the webhook
  up,       \* state of each dispatcher process
  rp,       \* progress of its reaper
  sel,      \* ids its stale-queued sweep has still to update
  faults

db   == <<row, aged, old>>
req  == <<gw, gone>>
js   == <<stream, msg, num>>
wk   == <<pc, cur, run, tries>>
box  == <<cont, runs, exit>>
out  == <<results, events>>
proc == <<up, rp, sel>>
vars == <<db, req, js, inbox, wk, box, out, proc, faults>>

Msgs == Exec \cup Poison
\* How many deliveries of each message an iterator has buffered.
Inbox == [Msgs -> Nat]
EmptyInbox == [m \in Msgs |-> 0]

\* What Runner.Run returns: its error, and a RunResult that starts as zero.
Result(err, flags, exitCode) == [err |-> err, flags |-> flags, exitCode |-> exitCode]
NoRun == Result("nil", {}, 0)
NotStarted == Result("notStarted", {}, 0)
RunnerError_Mutant == NotStarted
RunnerError == Result("runner", {}, 0)
Outcome == [err: {"nil", "notStarted", "runner"},
            flags: SUBSET {"TimedOut", "OOMKilled"}, exitCode: {0, 1}]

\* A worker between its claim and its last write to the row it claimed.
Holding == {"create", "start", "send", "wait", "logs", "remove", "requeue", "finish"}
Steps == {"off", "idle", "claim", "publish", "webhook", "ack", "nak"} \cup Holding
Holds(w, e) == pc[w] \in Holding /\ cur[w] = e
Live(e) == \E w \in Workers : Holds(w, e)

RowsOK == row \in [Exec -> Status] /\ aged \subseteq Exec /\ old \subseteq Exec
RequestsOK ==
  /\ gw \in [Exec -> {"new", "publish", "failing", "202", "500", "502", "crashed"}]
  /\ gone \subseteq Exec
QueueOK ==
  /\ stream \in Seq(Msgs)
  /\ msg \in [Msgs -> {"none", "pending", "inflight", "acked", "dead", "dropped"}]
  /\ num \in [Msgs -> 0..MaxDeliver]
WorkersOK ==
  /\ inbox \in [Workers -> Inbox]
  /\ pc \in [Workers -> Steps]
  /\ cur \in [Workers -> Msgs \cup {None}]
  /\ \A w \in Workers : /\ pc[w] \in Holding \cup {"claim", "publish", "webhook"} => cur[w] \in Exec
                        /\ pc[w] \in {"ack", "nak"} => cur[w] \in Msgs
  /\ run \in [Workers -> Outcome]
  /\ tries \in [Workers -> 0..FinishAttempts]
SandboxOK ==
  /\ cont \in [Exec -> {"none", "created", "started", "fed", "exited"}]
  /\ runs \in [Exec -> Nat]
  /\ exit \in [Exec -> {"none", "zero", "nonzero", "oom", "killed"}]
OutputsOK == results \in [Exec -> SUBSET Terminal] /\ events \in [Exec -> SUBSET Terminal]
ProcessesOK ==
  /\ up \in [Dispatcher -> {"up", "stopping", "down"}]
  /\ rp \in [Dispatcher -> {"running", "list", "mark"}]
  /\ sel \in [Dispatcher -> SUBSET Exec]
BudgetOK == faults \in 0..MaxFaults

\* The type invariant: among the rest, no message is delivered more than
\* MaxDeliver times and no result written in more than FinishAttempts attempts.
TypeOK ==
  /\ RowsOK /\ RequestsOK /\ QueueOK /\ WorkersOK /\ SandboxOK
  /\ OutputsOK /\ ProcessesOK /\ BudgetOK

Init ==
  /\ row = [e \in Exec |-> "none"] /\ aged = {} /\ old = {}
  /\ gw = [e \in Exec |-> "new"] /\ gone = {}
  /\ stream = <<>>
  /\ msg = [m \in Msgs |-> "none"]
  /\ num = [m \in Msgs |-> 0]
  /\ inbox = [w \in Workers |-> EmptyInbox]
  /\ pc = [w \in Workers |-> "idle"]
  /\ cur = [w \in Workers |-> None]
  /\ run = [w \in Workers |-> NoRun]
  /\ tries = [w \in Workers |-> 0]
  /\ cont = [e \in Exec |-> "none"]
  /\ runs = [e \in Exec |-> 0]
  /\ exit = [e \in Exec |-> "none"]
  /\ results = [e \in Exec |-> {}]
  /\ events = [e \in Exec |-> {}]
  /\ up = [d \in Dispatcher |-> "up"]
  /\ rp = [d \in Dispatcher |-> "running"]
  /\ sel = [d \in Dispatcher |-> {}]
  /\ faults = 0

-----------------------------------------------------------------------------
(* Calls, faults and the row's timestamps.                                  *)

NoFault == UNCHANGED faults
Fault == faults < MaxFaults /\ faults' = faults + 1

\* Once SIGTERM has cancelled the run context every call made with it fails.
Up(w) == up[HostOf[w]] = "up"
CallOK(w) == Up(w) /\ NoFault
CallErr(w) == IF Up(w) THEN Fault ELSE NoFault
CallLost(w) == Up(w) /\ Fault

\* Replace the table.  Each statement that matches a row sets updated_at = now().
Write(r) ==
  /\ row' = r
  /\ aged' = {e \in aged : r[e] = row[e]}
  /\ UNCHANGED old

\* Rows age.  Unless LateWork, live work keeps a row young, and so does a message
\* that is still to be delivered, as long as there are workers to deliver it to.
AgeUpdated(e) ==
  /\ row[e] = "running" /\ e \notin aged
  /\ LateWork \/ ~Live(e)
  /\ aged' = aged \cup {e}
  /\ UNCHANGED <<row, old, req, js, inbox, wk, box, out, proc, faults>>

AgeCreated(e) ==
  /\ row[e] \in {"queued", "running"} /\ e \notin old
  /\ \/ LateWork
     \/ /\ gw[e] \notin {"publish", "failing"}
        /\ msg[e] \in {"pending", "inflight"} => \A w \in Workers : pc[w] = "off"
  /\ old' = old \cup {e}
  /\ UNCHANGED <<row, aged, req, js, inbox, wk, box, out, proc, faults>>

-----------------------------------------------------------------------------
(* JetStream, as the code configures and uses it: limits retention, explicit *)
(* acks, at-least-once delivery, at most MaxDeliver deliveries.              *)

\* Store m; a full stream discards its oldest message, acked or not.
Store(m) ==
  LET full == Len(stream) >= MaxMsgs
  IN  /\ stream' = Append(IF full THEN Tail(stream) ELSE stream, m)
      /\ msg' = [x \in Msgs |->
                   IF x = m THEN "pending"
                   ELSE IF full /\ x = Head(stream) /\ msg[x] \in {"pending", "inflight"}
                        THEN "dropped" ELSE msg[x]]
      /\ UNCHANGED num

\* What becomes of a delivery that ends without an ack.
Redeliver_Mutant(m) == IF num[m] <= MaxDeliver THEN "pending" ELSE "dead"
Redeliver(m) == IF num[m] < MaxDeliver THEN "pending" ELSE "dead"

PublishPoison(m) ==
  /\ msg[m] = "none"
  /\ Store(m)
  /\ UNCHANGED <<db, req, inbox, wk, box, out, proc, faults>>

\* The iterator of a worker prefetches, also while the worker is busy; the
\* ack timer of a buffered message is already running, and when it expires the
\* same iterator may buffer the message once more.
Fetch(w, m) ==
  /\ Up(w) /\ pc[w] # "off" /\ msg[m] = "pending"
  /\ msg' = [msg EXCEPT ![m] = "inflight"]
  /\ num' = [num EXCEPT ![m] = @ + 1]
  /\ inbox' = [inbox EXCEPT ![w][m] = @ + 1]
  /\ UNCHANGED <<stream, db, req, wk, box, out, proc, faults>>

AckWaitExpires(m) ==
  /\ msg[m] = "inflight"
  /\ msg' = [msg EXCEPT ![m] = Redeliver(m)]
  /\ UNCHANGED <<stream, num, db, req, inbox, wk, box, out, proc, faults>>

-----------------------------------------------------------------------------
(* The gateway: ExecutionsHandler.Create after validation.                  *)

Insert(e) ==
  /\ gw[e] = "new"
  /\ \/ NoFault /\ Write(CreateExecution(row, e)) /\ gw' = [gw EXCEPT ![e] = "publish"]
     \/ Fault /\ UNCHANGED db /\ gw' = [gw EXCEPT ![e] = "500"]
     \/ Fault /\ Write(CreateExecution(row, e)) /\ gw' = [gw EXCEPT ![e] = "500"]
  /\ UNCHANGED <<gone, js, inbox, wk, box, out, proc>>

PublishSubmit(e) ==
  /\ gw[e] = "publish"
  /\ \/ e \notin gone /\ NoFault /\ Store(e) /\ gw' = [gw EXCEPT ![e] = "202"]
     \/ /\ IF e \in gone THEN NoFault ELSE Fault
        /\ UNCHANGED js /\ gw' = [gw EXCEPT ![e] = "failing"]
     \/ e \notin gone /\ Fault /\ Store(e) /\ gw' = [gw EXCEPT ![e] = "failing"]
  /\ UNCHANGED <<db, gone, inbox, wk, box, out, proc>>

\* The error of the compensating UPDATE is discarded.
FailSubmit(e) ==
  /\ gw[e] = "failing"
  /\ \/ e \notin gone /\ NoFault /\ Write(SetExecutionFailed(row, e))
     \/ (IF e \in gone THEN NoFault ELSE Fault) /\ UNCHANGED db
  /\ gw' = [gw EXCEPT ![e] = "502"]
  /\ UNCHANGED <<gone, js, inbox, wk, box, out, proc>>

ClientGone(e) ==
  /\ gw[e] \in {"publish", "failing"} /\ e \notin gone /\ Fault
  /\ gone' = gone \cup {e}
  /\ UNCHANGED <<gw, db, js, inbox, wk, box, out, proc>>

GatewayCrash(e) ==
  /\ gw[e] \in {"publish", "failing"} /\ Fault
  /\ gw' = [gw EXCEPT ![e] = "crashed"]
  /\ UNCHANGED <<gone, db, js, inbox, wk, box, out, proc>>

-----------------------------------------------------------------------------
(* A worker: the loop of worker, and handle.                                *)

Goto(w, l) == pc' = [pc EXCEPT ![w] = l]

\* it.Next returns a buffered message; a malformed one is acked and dropped.
NextMsg(w) ==
  /\ Up(w) /\ pc[w] = "idle"
  /\ \E m \in Msgs :
       /\ inbox[w][m] > 0 /\ inbox' = [inbox EXCEPT ![w][m] = @ - 1]
       /\ cur' = [cur EXCEPT ![w] = m]
       /\ Goto(w, IF m \in Poison THEN "ack" ELSE "claim")
  /\ UNCHANGED <<db, req, js, run, tries, box, out, proc, faults>>

\* MarkExecutionRunning: the claim, no row (a duplicate, acked), or an error
\* (NAKed) that may hide a claim that took effect.
Claim(w) ==
  LET e == cur[w]
      claimed == MarkExecutionRunning(row, e)
  IN  /\ pc[w] = "claim"
      /\ \/ CallOK(w) /\ Claimable(row[e]) /\ Write(claimed) /\ Goto(w, "create")
         \/ CallOK(w) /\ ~Claimable(row[e]) /\ UNCHANGED db /\ Goto(w, "ack")
         \/ CallErr(w) /\ UNCHANGED db /\ Goto(w, "nak")
         \/ CallLost(w) /\ Write(claimed) /\ Goto(w, "nak")
      /\ UNCHANGED <<req, js, inbox, cur, run, tries, box, out, proc>>

Return(w, l, r) == Goto(w, l) /\ run' = [run EXCEPT ![w] = r]

\* A container that is force-removed while the program runs ends it.
Kill(S) == exit' = [e \in Exec |-> IF e \in S /\ cont[e] = "fed" THEN "killed" ELSE exit[e]]
SetCont(e, c) == cont' = [cont EXCEPT ![e] = c]

\* ContainerCreate.  A container that already has the name is removed and the
\* create repeated; a failure here returns before the deferred removal exists.
Create(w) ==
  LET e == cur[w] IN
  /\ pc[w] = "create"
  /\ \/ CallOK(w) /\ SetCont(e, "created") /\ Kill({e}) /\ Goto(w, "start") /\ UNCHANGED run
     \/ CallErr(w) /\ UNCHANGED <<cont, exit>> /\ Return(w, "requeue", NotStarted)
     \/ /\ CallLost(w) /\ \E c \in {"none", "created"} : SetCont(e, c)
        /\ Kill({e}) /\ Return(w, "requeue", NotStarted)
  /\ UNCHANGED <<db, req, js, inbox, cur, tries, runs, out, proc>>

\* ContainerAttach and ContainerStart.
Start(w) ==
  LET e == cur[w] IN
  /\ pc[w] = "start"
  /\ \/ /\ CallOK(w) /\ cont[e] = "created" /\ SetCont(e, "started")
        /\ Goto(w, "send") /\ UNCHANGED run
     \/ /\ IF cont[e] = "created" THEN CallErr(w) ELSE NoFault
        /\ UNCHANGED cont /\ Return(w, "remove", NotStarted)
     \/ /\ CallLost(w) /\ cont[e] = "created" /\ SetCont(e, "started")
        /\ Return(w, "remove", NotStarted)
  /\ UNCHANGED <<db, req, js, inbox, cur, tries, runs, exit, out, proc>>

\* The source reaches the container only here.  The write does not use the
\* run context; into a container that is gone it may succeed or fail.
Send(w) ==
  LET e == cur[w]
      feed == cont[e] = "started" /\ SetCont(e, "fed") /\ runs' = [runs EXCEPT ![e] = @ + 1]
  IN  /\ pc[w] = "send"
      /\ \/ NoFault /\ feed /\ Goto(w, "wait") /\ UNCHANGED run
         \/ NoFault /\ cont[e] # "started" /\ UNCHANGED <<cont, runs>>
            /\ Goto(w, "wait") /\ UNCHANGED run
         \/ /\ IF cont[e] = "started" THEN Fault ELSE NoFault
            /\ UNCHANGED <<cont, runs>> /\ Return(w, "remove", RunnerError)
         \/ Fault /\ feed /\ Return(w, "remove", RunnerError)
      /\ UNCHANGED <<db, req, js, inbox, cur, tries, exit, out, proc>>

\* The program ends by itself, whatever the dispatcher is doing.
ProgramExits(e) ==
  /\ cont[e] = "fed"
  /\ SetCont(e, "exited")
  /\ \E x \in {"zero", "nonzero", "oom"} : exit' = [exit EXCEPT ![e] = x]
  /\ UNCHANGED <<db, req, js, inbox, wk, runs, out, proc, faults>>

\* The exit codes the daemon may report; a container swept away reports 137.
ExitCodes(e) ==
  {c \in {0, 1} : \/ cont[e] = "none" /\ c = 1
                  \/ cont[e] = "exited" /\ exit[e] = "zero" /\ c = 0
                  \/ cont[e] = "exited" /\ exit[e] \in {"nonzero", "killed"} /\ c = 1
                  \/ cont[e] = "exited" /\ exit[e] = "oom"}

\* wait: the select takes any ready branch, so a program that has exited can
\* still be reported as timed out.  SIGTERM also fires runCtx.Done.
Wait(w) ==
  LET e == cur[w] IN
  /\ pc[w] = "wait"
  /\ \/ /\ NoFault /\ UNCHANGED <<cont, exit>>
        /\ \E c \in ExitCodes(e) : Return(w, "logs", Result("nil", {}, c))
     \/ /\ NoFault /\ Kill({e}) /\ SetCont(e, IF cont[e] = "fed" THEN "exited" ELSE cont[e])
        /\ Return(w, "logs", Result("nil", {"TimedOut"}, 0))
     \/ /\ Fault /\ UNCHANGED <<cont, exit>>
        /\ Return(w, "logs", Result("nil", {"TimedOut"}, 0))
     \/ /\ IF cont[e] = "none" THEN NoFault ELSE CallErr(w)
        /\ UNCHANGED <<cont, exit>> /\ Return(w, "remove", RunnerError)
  /\ UNCHANGED <<db, req, js, inbox, cur, tries, runs, out, proc>>

\* readLogs and ContainerInspect.
Logs(w) ==
  LET e == cur[w] IN
  /\ pc[w] = "logs"
  /\ \/ /\ CallOK(w) /\ cont[e] # "none"
        /\ Return(w, "remove",
                  Result("nil", run[w].flags \cup (IF exit[e] = "oom" THEN {"OOMKilled"} ELSE {}),
                         run[w].exitCode))
     \/ /\ IF cont[e] = "none" THEN NoFault ELSE CallErr(w)
        /\ Return(w, "remove", RunnerError)
  /\ UNCHANGED <<db, req, js, inbox, cur, tries, box, out, proc>>

\* The deferred ContainerRemove, on its own context, its error discarded.
Remove(w) ==
  LET e == cur[w] IN
  /\ pc[w] = "remove"
  /\ \/ NoFault /\ SetCont(e, "none") /\ Kill({e})
     \/ Fault /\ UNCHANGED <<cont, exit>>
  /\ Goto(w, IF run[w].err = "notStarted" THEN "requeue" ELSE "finish")
  /\ UNCHANGED <<db, req, js, inbox, cur, run, tries, runs, out, proc>>

\* RequeueExecution; its error is only logged.
Requeue(w) ==
  /\ pc[w] = "requeue"
  /\ \/ CallOK(w) /\ Write(RequeueExecution(row, cur[w]))
     \/ CallErr(w) /\ UNCHANGED db
     \/ CallLost(w) /\ Write(RequeueExecution(row, cur[w]))
  /\ Goto(w, "nak")
  /\ UNCHANGED <<req, js, inbox, cur, run, tries, box, out, proc>>

classify_Mutant(r) ==
  IF "TimedOut" \in r.flags THEN "timeout"
  ELSE IF r.exitCode = 0 THEN "succeeded" ELSE "failed"
classify(r) ==
  IF "TimedOut" \in r.flags THEN "timeout"
  ELSE IF "OOMKilled" \in r.flags THEN "failed"
  ELSE IF r.exitCode = 0 THEN "succeeded" ELSE "failed"

\* The status handle writes: an error after the start is a failure.
StatusOf(r) == IF r.err = "runner" THEN "failed" ELSE classify(r)

\* Where handle goes when finish has given up.
GiveUp_Mutant(r) == IF r.err = "runner" THEN "webhook" ELSE "publish"
GiveUp(r) == IF r.err = "runner" THEN "webhook" ELSE "nak"

\* One attempt of finish.  The statement reports no row count: a row the
\* reaper has failed meanwhile counts as written.  When the attempts run out
\* a runner error goes on to its webhook, a result is NAKed.
Finish(w) ==
  LET written == FinishExecution(row, cur[w], StatusOf(run[w]))
  IN  /\ pc[w] = "finish"
      /\ \/ /\ CallOK(w) /\ Write(written) /\ UNCHANGED tries
            /\ Goto(w, IF run[w].err = "runner" THEN "webhook" ELSE "publish")
         \/ /\ \/ CallErr(w) /\ UNCHANGED db
               \/ CallLost(w) /\ Write(written)
            /\ tries' = [tries EXCEPT ![w] = @ + 1]
            /\ Goto(w, IF Up(w) /\ tries[w] + 1 < FinishAttempts THEN "finish" ELSE GiveUp(run[w]))
      /\ UNCHANGED <<req, js, inbox, cur, run, box, out, proc>>

\* PublishResult; its error is only logged.
PublishResult(w) ==
  LET said == [results EXCEPT ![cur[w]] = @ \cup {StatusOf(run[w])}] IN
  /\ pc[w] = "publish"
  /\ \/ CallOK(w) /\ results' = said
     \/ CallErr(w) /\ UNCHANGED results
     \/ CallLost(w) /\ results' = said
  /\ Goto(w, "webhook")
  /\ UNCHANGED <<db, req, js, inbox, cur, run, tries, box, events, proc>>

\* The status of the event is the one handle has computed.  (Read back from the
\* row it could differ from the result: the reaper may have failed the row.)
EventStatus_Mutant(w) == row[cur[w]]
EventStatus(w) == StatusOf(run[w])

\* deliverWebhook: best effort; its retries of one POST are a single call here.
DeliverWebhook(w) ==
  LET e == cur[w]
      said == [events EXCEPT ![e] = @ \cup {EventStatus(w)}]
  IN  /\ pc[w] = "webhook"
      /\ \/ e \in Webhook /\ CallOK(w) /\ events' = said
         \/ e \in Webhook /\ CallErr(w) /\ UNCHANGED events
         \/ e \in Webhook /\ CallLost(w) /\ events' = said
         \/ e \notin Webhook /\ NoFault /\ UNCHANGED events
      /\ Goto(w, "ack")
      /\ UNCHANGED <<db, req, js, inbox, cur, run, tries, box, results, proc>>

Settle(w) ==
  /\ Goto(w, "idle")
  /\ cur' = [cur EXCEPT ![w] = None]
  /\ run' = [run EXCEPT ![w] = NoRun]
  /\ tries' = [tries EXCEPT ![w] = 0]

\* Ack and NakWithDelay: their errors are discarded.  The server takes the
\* settlement of an earlier delivery for the message it still tracks.
Ack(w) ==
  LET m == cur[w] IN
  /\ pc[w] = "ack"
  /\ \/ /\ NoFault
        /\ msg' = [msg EXCEPT ![m] = IF @ \in {"pending", "inflight"} THEN "acked" ELSE @]
     \/ Fault /\ UNCHANGED msg
  /\ Settle(w)
  /\ UNCHANGED <<stream, num, db, req, inbox, box, out, proc>>

Nak(w) ==
  LET m == cur[w] IN
  /\ pc[w] = "nak"
  /\ \/ NoFault /\ msg' = [msg EXCEPT ![m] = IF @ = "inflight" THEN Redeliver(m) ELSE @]
     \/ Fault /\ UNCHANGED msg
  /\ Settle(w)
  /\ UNCHANGED <<stream, num, db, req, inbox, box, out, proc>>

\* After SIGTERM the iterator is closed: the loop ends, its buffer is lost.
\* (A loop that waited for its buffer to drain would never end.)
WorkerExits_Mutant(w) ==
  /\ up[HostOf[w]] = "stopping" /\ pc[w] = "idle" /\ inbox[w] = EmptyInbox
  /\ Goto(w, "off")
  /\ UNCHANGED <<inbox, db, req, js, cur, run, tries, box, out, proc, faults>>

WorkerExits(w) ==
  /\ up[HostOf[w]] = "stopping" /\ pc[w] = "idle"
  /\ Goto(w, "off")
  /\ inbox' = [inbox EXCEPT ![w] = EmptyInbox]
  /\ UNCHANGED <<db, req, js, cur, run, tries, box, out, proc, faults>>

\* In a live process the loop ends when c.Messages fails or the connection is
\* closed for good: the process, its reaper and its other workers go on.
WorkerReturns(w) ==
  /\ Up(w) /\ pc[w] = "idle" /\ Fault
  /\ Goto(w, "off")
  /\ inbox' = [inbox EXCEPT ![w] = EmptyInbox]
  /\ UNCHANGED <<db, req, js, cur, run, tries, box, out, proc>>

-----------------------------------------------------------------------------
(* The reaper of each dispatcher: reapOnce, one action per statement.       *)

ReapRunning(d) ==
  /\ up[d] = "up" /\ rp[d] = "running"
  /\ \/ NoFault /\ Write(ReapStaleExecutions(row, aged)) /\ rp' = [rp EXCEPT ![d] = "list"]
     \/ Fault /\ UNCHANGED <<db, rp>>
     \/ Fault /\ Write(ReapStaleExecutions(row, aged)) /\ UNCHANGED rp
  /\ UNCHANGED <<req, js, inbox, wk, box, out, up, sel>>

\* The loop over the selected ids; without any, the wait for the next tick.
ReapLoop(d, S) ==
  /\ sel' = [sel EXCEPT ![d] = S]
  /\ rp' = [rp EXCEPT ![d] = IF S = {} THEN "running" ELSE "mark"]

\* (config.Load refuses a StaleQueuedAfter that would disable this sweep.)
ReapList(d) ==
  /\ up[d] = "up" /\ rp[d] = "list"
  /\ \/ NoFault /\ ReapLoop(d, ListStaleQueuedExecutions(row, old))
     \/ Fault /\ rp' = [rp EXCEPT ![d] = "running"] /\ UNCHANGED sel
  /\ UNCHANGED <<db, req, js, inbox, wk, box, out, up>>

\* One UPDATE per selected id, its error logged.
ReapMark(d) ==
  /\ up[d] = "up" /\ rp[d] = "mark"
  /\ \E e \in sel[d] :
       /\ \/ NoFault /\ Write(MarkStaleQueuedFailed(row, e))
          \/ Fault /\ UNCHANGED db
       /\ ReapLoop(d, sel[d] \ {e})
  /\ UNCHANGED <<req, js, inbox, wk, box, out, up>>

-----------------------------------------------------------------------------
(* The dispatcher process: shutdown, crash and boot.                        *)

ReaperStops(d) == rp' = [rp EXCEPT ![d] = "running"] /\ sel' = [sel EXCEPT ![d] = {}]

\* SIGTERM cancels the run context; the workers finish the message in hand.
Stop(d) ==
  /\ up[d] = "up" /\ Fault
  /\ up' = [up EXCEPT ![d] = "stopping"] /\ ReaperStops(d)
  /\ UNCHANGED <<db, req, js, inbox, wk, box, out>>

\* The process dies; the containers it started keep running.
Crash(d) ==
  /\ up[d] # "down" /\ Fault
  /\ up' = [up EXCEPT ![d] = "down"] /\ ReaperStops(d)
  /\ pc' = [w \in Workers |-> IF HostOf[w] = d THEN "off" ELSE pc[w]]
  /\ cur' = [w \in Workers |-> IF HostOf[w] = d THEN None ELSE cur[w]]
  /\ run' = [w \in Workers |-> IF HostOf[w] = d THEN NoRun ELSE run[w]]
  /\ tries' = [w \in Workers |-> IF HostOf[w] = d THEN 0 ELSE tries[w]]
  /\ inbox' = [w \in Workers |-> IF HostOf[w] = d THEN EmptyInbox ELSE inbox[w]]
  /\ UNCHANGED <<db, req, js, box, out>>

\* main after a restart: Sweep force-removes every container that carries the
\* execution label, then the workers start.  Failed removals are ignored.
Boot(d) ==
  /\ up[d] # "up"
  /\ \A w \in Workers : HostOf[w] = d => pc[w] = "off"
  /\ \E swept \in SUBSET {e \in Exec : cont[e] # "none"} :
       /\ IF swept = {e \in Exec : cont[e] # "none"} THEN NoFault ELSE Fault
       /\ cont' = [e \in Exec |-> IF e \in swept THEN "none" ELSE cont[e]]
       /\ Kill(swept)
  /\ up' = [up EXCEPT ![d] = "up"]
  /\ pc' = [w \in Workers |-> IF HostOf[w] = d THEN "idle" ELSE pc[w]]
  /\ UNCHANGED <<db, req, js, inbox, cur, run, tries, runs, out, rp, sel>>

-----------------------------------------------------------------------------
Gateway(e) == Insert(e) \/ PublishSubmit(e) \/ FailSubmit(e)

Worker(w) ==
  \/ NextMsg(w) \/ Claim(w) \/ Create(w) \/ Start(w) \/ Send(w) \/ Wait(w) \/ Logs(w)
  \/ Remove(w) \/ Requeue(w) \/ Finish(w) \/ PublishResult(w) \/ DeliverWebhook(w)
  \/ Ack(w) \/ Nak(w) \/ WorkerExits(w)

ReaperOf(d) == ReapRunning(d) \/ ReapList(d) \/ ReapMark(d)

Next ==
  \/ \E e \in Exec : Gateway(e) \/ ClientGone(e) \/ GatewayCrash(e)
  \/ \E e \in Exec : AgeUpdated(e) \/ AgeCreated(e) \/ ProgramExits(e)
  \/ \E m \in Poison : PublishPoison(m)
  \/ \E m \in Msgs : AckWaitExpires(m)
  \/ \E w \in Workers, m \in Msgs : Fetch(w, m)
  \/ \E w \in Workers : Worker(w) \/ WorkerReturns(w)
  \/ \E d \in Dispatcher : ReaperOf(d) \/ Stop(d) \/ Crash(d) \/ Boot(d)

Spec == Init /\ [][Next]_vars

\* Every goroutine runs and every call returns; the ack timer, the reaper's
\* ticker and the rows' ages advance; compose restarts a dispatcher
\* (restart: unless-stopped).  Clients and programs owe nothing.
Fairness ==
  /\ \A e \in Exec : /\ WF_vars(PublishSubmit(e) \/ FailSubmit(e))
                     /\ WF_vars(AgeUpdated(e)) /\ WF_vars(AgeCreated(e))
  /\ \A m \in Msgs : /\ WF_vars(AckWaitExpires(m))
                     /\ WF_vars(\E w \in Workers : Fetch(w, m))
  /\ \A w \in Workers : WF_vars(Worker(w))
  /\ \A d \in Dispatcher : WF_vars(ReaperOf(d)) /\ WF_vars(Boot(d))

FairSpec == Spec /\ Fairness

-----------------------------------------------------------------------------
(* Safety.                                                                  *)

\* At no time do two workers hold the same execution between claim and last
\* write, whatever is redelivered, requeued or restarted (the claim guard of
\* handle, dispatcher.go).
ClaimExclusive ==
  \A v, w \in Workers, e \in Exec : Holds(v, e) /\ Holds(w, e) => v = w

\* The submitted code reaches a container at most once, under every lost reply,
\* requeue, redelivery, crash and sweep ("runs each execution exactly once").
CodeRunsAtMostOnce == \A e \in Exec : runs[e] <= 1

\* A row that is, or is again, in the queue is one whose code has never run and
\* that no worker works on: errNotStarted is only returned when nothing ran.
QueuedNeverRan == \A e \in Exec : row[e] = "queued" => runs[e] = 0 /\ ~Live(e)

\* A terminal status is never left, nor replaced by another: the guards of the
\* UPDATE statements hold against reapers, late results and late requeues.
TerminalIsFinal ==
  [][\A e \in Exec : row[e] \in Terminal => row'[e] = row[e]]_row

\* "succeeded" is written, published or delivered only for a program that ended
\* by itself with exit code 0 and was not OOM-killed, not for one that timed
\* out, was swept away, never started, or whose outcome could not be read.
SuccessIsGenuine ==
  \A e \in Exec : "succeeded" \in {row[e]} \cup results[e] \cup events[e] => exit[e] = "zero"

\* All that is ever published or delivered about an execution says one status.
OneVerdict == \A e \in Exec : \A s, t \in results[e] \cup events[e] : s = t

\* A published result contradicts the row only if the row was failed first
\* (by a reaper, or by the gateway): it is never ahead of the row.
ResultOrReaped == \A e \in Exec : results[e] \subseteq {row[e]} \/ row[e] = "failed"

\* As long as live work stays within the reaper's thresholds (LateWork FALSE),
\* what is published is what the row says, and what the webhook says is what the
\* row says or, for a failure that could not be recorded, will say.
ResultMatchesRow ==
  \A e \in Exec : /\ results[e] \subseteq {row[e]}
                  /\ events[e] \subseteq {row[e]} \cup (IF row[e] = "running" THEN {"failed"} ELSE {})

\* The pipeline implements the abstract lifecycle.
Lifecycle == INSTANCE ExecutionLifecycle WITH ran <- {e \in Exec : runs[e] > 0}
LifecycleSpec == Lifecycle!Spec

-----------------------------------------------------------------------------
(* Liveness, of FairSpec.                                                   *)

\* Every row that was inserted reaches a terminal status, whichever message or
\* process was lost on the way: the two sweeps of the reaper leave no gap.
EventuallySettled == \A e \in Exec : row[e] = "queued" ~> row[e] \in Terminal

\* A dispatcher told to stop does stop: no worker waits for ever.
ShutdownCompletes ==
  \A d \in Dispatcher : up[d] = "stopping" ~> \A w \in Workers : HostOf[w] = d => pc[w] = "off"
=============================================================================
