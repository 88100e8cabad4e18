--------------------------- MODULE DispatchSafety ---------------------------
(***************************************************************************)
(* The safety theorems of Dispatch.  None of the properties is inductive:  *)
(* that code runs at most once depends on who holds the claim, which       *)
(* depends on the status of the row, which may change under the claimer.   *)
(* SafetyInv ties the row, the worker that took it and the sandbox         *)
(* together at each call of handle.  From it follow the refinement of      *)
(* ExecutionLifecycle and, with MatchInv, that what is published matches   *)
(* the row when live work is not reaped.                                   *)
(***************************************************************************)
EXTENDS DispatchProofs

\* A worker between its claim and the end of handle.
Working == Holding \cup {"publish", "webhook"}

\* An execution has one worker, and it keeps it to the end of handle.
Exclusive ==
  \A v, w \in Workers : pc[v] \in Working /\ pc[w] \in Working /\ cur[v] = cur[w] => v = w

\* What is known of an execution whoever works on it.
RowInv(e) ==
  /\ gw[e] = "new" => row[e] = "none"
  /\ row[e] \in {"none", "queued"} => runs[e] = 0 /\ results[e] = {} /\ events[e] = {}
  /\ runs[e] \in {0, 1}
  /\ runs[e] = 0 => exit[e] = "none" /\ cont[e] \notin {"fed", "exited"}
  /\ cont[e] = "fed" => exit[e] = "none"
  /\ "succeeded" \in {row[e]} \cup results[e] \cup events[e] => exit[e] = "zero"
  /\ results[e] \subseteq {row[e]} \/ row[e] = "failed"
  /\ \A s, t \in results[e] \cup events[e] : s = t

\* What a worker knows of its execution at each call: of the row it claimed, ...
ClaimInv(w) ==
  LET e == cur[w] IN
  /\ pc[w] \in Holding \ {"finish"} => row[e] \in {"running", "failed"}
  /\ pc[w] = "finish" => row[e] \in {"running", "failed", StatusOf(run[w])}
  /\ pc[w] = "publish" => row[e] \in {"failed", StatusOf(run[w])}
  /\ pc[w] = "webhook" => row[e] \notin {"none", "queued"}
\* ... of what has been said about it, ...
SaidInv(w) ==
  LET e == cur[w] IN
  /\ pc[w] \in Working => events[e] = {}
  /\ pc[w] \in Working \ {"webhook"} => results[e] = {}
  /\ pc[w] = "webhook" => results[e] \subseteq {StatusOf(run[w])}
\* ... of the code, which has not run before Send nor when Run gives errNotStarted, ...
StartInv(w) ==
  /\ pc[w] \in {"create", "start", "send", "requeue"} => runs[cur[w]] = 0
  /\ pc[w] = "remove" /\ run[w].err = "notStarted" => runs[cur[w]] = 0
  /\ pc[w] \in {"finish", "publish", "webhook"} => run[w].err # "notStarted"
\* ... and of how the program ended.
EndInv(w) ==
  LET e == cur[w]
      r == run[w]
  IN  /\ pc[w] = "logs" /\ r.flags = {} /\ r.exitCode = 0 => exit[e] \in {"zero", "oom"}
      /\ pc[w] \in {"remove", "finish", "publish", "webhook"} /\ r.err # "notStarted"
            /\ StatusOf(r) = "succeeded" => exit[e] = "zero"

WorkInv(w) == ClaimInv(w) /\ SaidInv(w) /\ StartInv(w) /\ EndInv(w)

SafetyInv ==
  /\ Exclusive
  /\ \A e \in Exec : RowInv(e)
  /\ \A w \in Workers : WorkInv(w)

-----------------------------------------------------------------------------
(* Frames: what a step may do to an execution or a worker it is not about.  *)

\* The row may be failed by a reaper or the gateway, the container may end or
\* be removed; how a program ended never changes.
Frame(f) ==
  /\ gw'[f] = "new" => gw[f] = "new"
  /\ row'[f] = row[f] \/ (row[f] \in {"queued", "running"} /\ row'[f] = "failed")
  /\ runs'[f] = runs[f] /\ results'[f] = results[f] /\ events'[f] = events[f]
  /\ exit'[f] = exit[f] \/ (cont[f] = "fed" /\ cont'[f] # "fed")
  /\ cont'[f] = "fed" => cont[f] = "fed"
  /\ cont'[f] = "exited" => cont[f] \in {"fed", "exited"}

\* A worker keeps what it knows, or is no longer in handle.
Keeps(v) ==
  pc'[v] \in Working => pc'[v] = pc[v] /\ cur'[v] = cur[v] /\ run'[v] = run[v]

\* A framed execution keeps its invariant.
LEMMA FrameRow ==
  ASSUME TypeInv, NEW f \in Exec, RowInv(f), Frame(f)
  PROVE  RowInv(f)'
BY Zenon DEF TypeInv, RowsOK, SandboxOK, RequestsOK, OutputsOK, RowInv, Frame, Status, Terminal

\* So does a worker whose execution is framed.
LEMMA FrameWork ==
  ASSUME TypeInv, SafetyInv, NEW v \in Workers, Keeps(v), pc[v] \in Working => Frame(cur[v])
  PROVE  WorkInv(v)'
<1>1. CASE pc'[v] \notin Working
  BY <1>1, Zenon DEF Working, Holding, WorkInv, ClaimInv, SaidInv, StartInv, EndInv
<1>2. CASE pc'[v] \in Working
  <2>1. pc[v] \in Working /\ pc'[v] = pc[v] /\ cur'[v] = cur[v] /\ run'[v] = run[v]
    BY <1>2, Zenon DEF Keeps
  <2>2. cur[v] \in Exec /\ Frame(cur[v]) /\ RowInv(cur[v]) /\ WorkInv(v)
    BY <2>1, Zenon DEF TypeInv, WorkersInv, WorkersOK, Working, SafetyInv
  <2>3. ClaimInv(v)'
    BY <2>1, <2>2, Zenon DEF WorkInv, ClaimInv, Frame, Working, Holding
  <2>4. SaidInv(v)'
    BY <2>1, <2>2, Zenon DEF WorkInv, SaidInv, Frame
  <2>5. StartInv(v)'
    BY <2>1, <2>2, Zenon DEF WorkInv, StartInv, Frame
  <2>6. EndInv(v)'
    BY <2>1, <2>2, Zenon DEF WorkInv, EndInv, Frame, RowInv
  <2>. QED  BY <2>3, <2>4, <2>5, <2>6, Zenon DEF WorkInv
<1>. QED  BY <1>1, <1>2, Zenon

\* A step of anything but a worker in handle.
LEMMA FrameStep ==
  ASSUME TypeInv, SafetyInv, \A f \in Exec : Frame(f), \A v \in Workers : Keeps(v)
  PROVE  SafetyInv'
<1>1. Exclusive'
  BY Zenon DEF SafetyInv, Exclusive, Keeps
<1>2. \A e \in Exec : RowInv(e)'
  BY FrameRow, Zenon DEF SafetyInv
<1>3. ASSUME NEW v \in Workers PROVE WorkInv(v)'
  <2>1. pc[v] \in Working => cur[v] \in Exec
    BY Zenon DEF TypeInv, WorkersInv, WorkersOK, Working
  <2>. QED  BY <2>1, FrameWork, Zenon
<1>. QED  BY <1>1, <1>2, <1>3, Zenon DEF SafetyInv

\* A step of the one worker that has, or is taking, execution e.
LEMMA WorkStep ==
  ASSUME TypeInv, SafetyInv, NEW w \in Workers, NEW e \in Exec, cur[w] = e, cur' = cur,
         \A v \in Workers \ {w} : Keeps(v) /\ (pc[v] \in Working => cur[v] # e),
         \A f \in Exec \ {e} : Frame(f),
         RowInv(e)', WorkInv(w)'
  PROVE  SafetyInv'
<1>1. Exclusive'
  BY Zenon DEF SafetyInv, Exclusive, Keeps
<1>2. \A f \in Exec : RowInv(f)'
  BY FrameRow, Zenon DEF SafetyInv
<1>3. ASSUME NEW v \in Workers \ {w} PROVE WorkInv(v)'
  <2>1. pc[v] \in Working => cur[v] \in Exec \ {e}
    BY Zenon DEF TypeInv, WorkersInv, WorkersOK, Working
  <2>. QED  BY <2>1, FrameWork, Zenon
<1>. QED  BY <1>1, <1>2, <1>3, Zenon DEF SafetyInv
-----------------------------------------------------------------------------
(* The invariant is inductive.                                             *)

\* Before the first submit nothing is held, said or run.
LEMMA SafetyInit == Init => SafetyInv
BY DispatchAssumption
   DEF Init, SafetyInv, Exclusive, RowInv, WorkInv, ClaimInv, SaidInv, StartInv, EndInv,
       Working, Holding

\* The worker that has an execution is alone with it.
LEMMA Alone ==
  ASSUME TypeInv, SafetyInv, NEW w \in Workers, pc[w] \in Working
  PROVE  /\ cur[w] \in Exec /\ RowInv(cur[w]) /\ WorkInv(w)
         /\ \A v \in Workers \ {w} : pc[v] \in Working => cur[v] # cur[w]
BY Zenon DEF TypeInv, WorkersInv, WorkersOK, Working, SafetyInv, Exclusive

\* Only the statements of the worker itself can put a row back in the queue:
\* those of the gateway after its insert, and of the reapers, fail it.
LEMMA RowFrames ==
  ASSUME TypeInv, NEW e \in Exec, NEW f \in Exec
  PROVE  /\ SetExecutionFailed(row, e)[f] \in {row[f]} \cup (IF row[f] = "queued" THEN {"failed"} ELSE {})
         /\ MarkStaleQueuedFailed(row, e)[f] \in {row[f]} \cup (IF row[f] = "queued" THEN {"failed"} ELSE {})
         /\ f # e => /\ CreateExecution(row, e)[f] = row[f]
                     /\ MarkExecutionRunning(row, e)[f] = row[f]
                     /\ RequeueExecution(row, e)[f] = row[f]
                     /\ \A s \in Terminal : FinishExecution(row, e, s)[f] = row[f]
BY Zenon DEF TypeInv, RowsOK, SetExecutionFailed, MarkStaleQueuedFailed, CreateExecution,
       MarkExecutionRunning, RequeueExecution, FinishExecution

\* The reaper's sweep of running rows takes no row to or from the queue.
LEMMA ReapFrames ==
  ASSUME TypeInv, NEW f \in Exec, NEW S
  PROVE  ReapStaleExecutions(row, S)[f] \in {row[f]} \cup (IF row[f] = "running" THEN {"failed"} ELSE {})
BY Zenon DEF TypeInv, RowsOK, ReapStaleExecutions

\* The steps of the gateway after its insert, of the queue, the clocks, the
\* programs, the reapers and the processes, and those of a worker outside of
\* handle, are framed.
LEMMA OtherSteps ==
  ASSUME TypeInv, SafetyInv
  PROVE
    /\ \A e \in Exec : PublishSubmit(e) => SafetyInv'
    /\ \A e \in Exec : FailSubmit(e) => SafetyInv'
    /\ \A e \in Exec : ClientGone(e) => SafetyInv'
    /\ \A e \in Exec : GatewayCrash(e) => SafetyInv'
    /\ \A e \in Exec : AgeUpdated(e) => SafetyInv'
    /\ \A e \in Exec : AgeCreated(e) => SafetyInv'
    /\ \A e \in Exec : ProgramExits(e) => SafetyInv'
    /\ \A m \in Poison : PublishPoison(m) => SafetyInv'
    /\ \A m \in Msgs : AckWaitExpires(m) => SafetyInv'
    /\ \A w \in Workers : NextMsg(w) => SafetyInv'
    /\ \A w \in Workers : Ack(w) => SafetyInv'
    /\ \A w \in Workers : Nak(w) => SafetyInv'
    /\ \A w \in Workers : WorkerExits(w) => SafetyInv'
    /\ \A w \in Workers : WorkerReturns(w) => SafetyInv'
    /\ \A d \in Dispatcher : ReapRunning(d) => SafetyInv'
    /\ \A d \in Dispatcher : ReapList(d) => SafetyInv'
    /\ \A d \in Dispatcher : ReapMark(d) => SafetyInv'
    /\ \A d \in Dispatcher : Stop(d) => SafetyInv'
    /\ \A d \in Dispatcher : Crash(d) => SafetyInv'
    /\ \A d \in Dispatcher : Boot(d) => SafetyInv'
    /\ \A w \in Workers, m \in Msgs : Fetch(w, m) => SafetyInv'
    /\ UNCHANGED vars => SafetyInv'
<1>1. ASSUME NEW e \in Exec, PublishSubmit(e) PROVE SafetyInv'
  <2>1. \A f \in Exec : Frame(f)
    BY <1>1, Zenon DEF PublishSubmit, Frame, db, req, box, out, TypeInv, RowsOK, RequestsOK,
       SandboxOK
  <2>2. \A v \in Workers : Keeps(v)
    BY <1>1, Zenon DEF PublishSubmit, Keeps, Working, Holding, wk, TypeInv, WorkersInv,
       WorkersOK
  <2>. QED  BY <2>1, <2>2, FrameStep, Zenon
<1>2. ASSUME NEW e \in Exec, FailSubmit(e) PROVE SafetyInv'
  <2>1. \A f \in Exec : Frame(f)
    BY <1>2, RowFrames DEF FailSubmit, Frame, db, req, box, out, TypeInv, RowsOK,
       RequestsOK, SandboxOK, Write
  <2>2. \A v \in Workers : Keeps(v)
    BY <1>2, Zenon DEF FailSubmit, Keeps, Working, Holding, wk, TypeInv, WorkersInv, WorkersOK
  <2>. QED  BY <2>1, <2>2, FrameStep, Zenon
<1>3. ASSUME NEW e \in Exec, ClientGone(e) PROVE SafetyInv'
  <2>1. \A f \in Exec : Frame(f)
    BY <1>3, Zenon DEF ClientGone, Frame, db, req, box, out, TypeInv, RowsOK, RequestsOK,
       SandboxOK
  <2>2. \A v \in Workers : Keeps(v)
    BY <1>3, Zenon DEF ClientGone, Keeps, Working, Holding, wk, TypeInv, WorkersInv, WorkersOK
  <2>. QED  BY <2>1, <2>2, FrameStep, Zenon
<1>4. ASSUME NEW e \in Exec, GatewayCrash(e) PROVE SafetyInv'
  <2>1. \A f \in Exec : Frame(f)
    BY <1>4, Zenon DEF GatewayCrash, Frame, db, req, box, out, TypeInv, RowsOK, RequestsOK,
       SandboxOK
  <2>2. \A v \in Workers : Keeps(v)
    BY <1>4, Zenon DEF GatewayCrash, Keeps, Working, Holding, wk, TypeInv, WorkersInv,
       WorkersOK
  <2>. QED  BY <2>1, <2>2, FrameStep, Zenon
<1>5. ASSUME NEW e \in Exec, AgeUpdated(e) PROVE SafetyInv'
  <2>1. \A f \in Exec : Frame(f)
    BY <1>5, Zenon DEF AgeUpdated, Frame, db, req, box, out, TypeInv, RowsOK, RequestsOK,
       SandboxOK
  <2>2. \A v \in Workers : Keeps(v)
    BY <1>5, Zenon DEF AgeUpdated, Keeps, Working, Holding, wk, TypeInv, WorkersInv, WorkersOK
  <2>. QED  BY <2>1, <2>2, FrameStep, Zenon
<1>6. ASSUME NEW e \in Exec, AgeCreated(e) PROVE SafetyInv'
  <2>1. \A f \in Exec : Frame(f)
    BY <1>6, Zenon DEF AgeCreated, Frame, db, req, box, out, TypeInv, RowsOK, RequestsOK,
       SandboxOK
  <2>2. \A v \in Workers : Keeps(v)
    BY <1>6, Zenon DEF AgeCreated, Keeps, Working, Holding, wk, TypeInv, WorkersInv, WorkersOK
  <2>. QED  BY <2>1, <2>2, FrameStep, Zenon
<1>7. ASSUME NEW e \in Exec, ProgramExits(e) PROVE SafetyInv'
  <2>1. \A f \in Exec : Frame(f)
    BY <1>7, Zenon DEF ProgramExits, Frame, db, req, box, out, TypeInv, RowsOK, RequestsOK,
       SandboxOK, SetCont
  <2>2. \A v \in Workers : Keeps(v)
    BY <1>7, Zenon DEF ProgramExits, Keeps, Working, Holding, wk, TypeInv, WorkersInv,
       WorkersOK
  <2>. QED  BY <2>1, <2>2, FrameStep, Zenon
<1>8. ASSUME NEW m \in Poison, PublishPoison(m) PROVE SafetyInv'
  <2>1. \A f \in Exec : Frame(f)
    BY <1>8, Zenon DEF PublishPoison, Frame, db, req, box, out, TypeInv, RowsOK, RequestsOK,
       SandboxOK
  <2>2. \A v \in Workers : Keeps(v)
    BY <1>8, Zenon DEF PublishPoison, Keeps, Working, Holding, wk, TypeInv, WorkersInv,
       WorkersOK
  <2>. QED  BY <2>1, <2>2, FrameStep, Zenon
<1>9. ASSUME NEW m \in Msgs, AckWaitExpires(m) PROVE SafetyInv'
  <2>1. \A f \in Exec : Frame(f)
    BY <1>9, Zenon DEF AckWaitExpires, Frame, db, req, box, out, TypeInv, RowsOK, RequestsOK,
       SandboxOK
  <2>2. \A v \in Workers : Keeps(v)
    BY <1>9, Zenon DEF AckWaitExpires, Keeps, Working, Holding, wk, TypeInv, WorkersInv,
       WorkersOK
  <2>. QED  BY <2>1, <2>2, FrameStep, Zenon
<1>10. ASSUME NEW w \in Workers, NextMsg(w) PROVE SafetyInv'
  <2>1. \A f \in Exec : Frame(f)
    BY <1>10, Zenon DEF NextMsg, Frame, db, req, box, out, TypeInv, RowsOK, RequestsOK,
       SandboxOK, Goto
  <2>2. \A v \in Workers : Keeps(v)
    BY <1>10, Zenon DEF NextMsg, Keeps, Working, Holding, wk, TypeInv, WorkersInv, WorkersOK,
       Goto
  <2>. QED  BY <2>1, <2>2, FrameStep, Zenon
<1>11. ASSUME NEW w \in Workers, Ack(w) PROVE SafetyInv'
  <2>1. \A f \in Exec : Frame(f)
    BY <1>11, Zenon DEF Ack, Frame, db, req, box, out, TypeInv, RowsOK, RequestsOK, SandboxOK,
       Goto, Settle
  <2>2. \A v \in Workers : Keeps(v)
    BY <1>11, Zenon DEF Ack, Keeps, Working, Holding, wk, TypeInv, WorkersInv, WorkersOK, Goto,
       Settle
  <2>. QED  BY <2>1, <2>2, FrameStep, Zenon
<1>12. ASSUME NEW w \in Workers, Nak(w) PROVE SafetyInv'
  <2>1. \A f \in Exec : Frame(f)
    BY <1>12, Zenon DEF Nak, Frame, db, req, box, out, TypeInv, RowsOK, RequestsOK, SandboxOK,
       Goto, Settle
  <2>2. \A v \in Workers : Keeps(v)
    BY <1>12, Zenon DEF Nak, Keeps, Working, Holding, wk, TypeInv, WorkersInv, WorkersOK, Goto,
       Settle
  <2>. QED  BY <2>1, <2>2, FrameStep, Zenon
<1>13. ASSUME NEW w \in Workers, WorkerExits(w) \/ WorkerReturns(w) PROVE SafetyInv'
  <2>1. \A f \in Exec : Frame(f)
    BY <1>13, Zenon DEF WorkerExits, WorkerReturns, Frame, db, req, box, out, TypeInv, RowsOK, RequestsOK,
       SandboxOK, Goto
  <2>2. \A v \in Workers : Keeps(v)
    BY <1>13, Zenon DEF WorkerExits, WorkerReturns, Keeps, Working, Holding, wk, TypeInv, WorkersInv,
       WorkersOK, Goto
  <2>. QED  BY <2>1, <2>2, FrameStep, Zenon
<1>14. ASSUME NEW d \in Dispatcher, ReapRunning(d) PROVE SafetyInv'
  <2>1. \A f \in Exec : Frame(f)
    BY <1>14, ReapFrames DEF ReapRunning, Frame, db, req, box, out, TypeInv, RowsOK,
       RequestsOK, SandboxOK, Write
  <2>2. \A v \in Workers : Keeps(v)
    BY <1>14, Zenon DEF ReapRunning, Keeps, Working, Holding, wk, TypeInv, WorkersInv,
       WorkersOK
  <2>. QED  BY <2>1, <2>2, FrameStep, Zenon
<1>15. ASSUME NEW d \in Dispatcher, ReapList(d) PROVE SafetyInv'
  <2>1. \A f \in Exec : Frame(f)
    BY <1>15, Zenon DEF ReapList, Frame, db, req, box, out, TypeInv, RowsOK, RequestsOK,
       SandboxOK
  <2>2. \A v \in Workers : Keeps(v)
    BY <1>15, Zenon DEF ReapList, Keeps, Working, Holding, wk, TypeInv, WorkersInv, WorkersOK
  <2>. QED  BY <2>1, <2>2, FrameStep, Zenon
<1>16. ASSUME NEW d \in Dispatcher, ReapMark(d) PROVE SafetyInv'
  <2>1. \A f \in Exec : Frame(f)
    BY <1>16, RowFrames DEF ReapMark, Frame, db, req, box, out, TypeInv, RowsOK,
       RequestsOK, SandboxOK, Write, ProcessesOK
  <2>2. \A v \in Workers : Keeps(v)
    BY <1>16, Zenon DEF ReapMark, Keeps, Working, Holding, wk, TypeInv, WorkersInv, WorkersOK
  <2>. QED  BY <2>1, <2>2, FrameStep, Zenon
<1>17. ASSUME NEW d \in Dispatcher, Stop(d) PROVE SafetyInv'
  <2>1. \A f \in Exec : Frame(f)
    BY <1>17, Zenon DEF Stop, Frame, db, req, box, out, TypeInv, RowsOK, RequestsOK, SandboxOK
  <2>2. \A v \in Workers : Keeps(v)
    BY <1>17, Zenon DEF Stop, Keeps, Working, Holding, wk, TypeInv, WorkersInv, WorkersOK
  <2>. QED  BY <2>1, <2>2, FrameStep, Zenon
<1>18. ASSUME NEW d \in Dispatcher, Crash(d) PROVE SafetyInv'
  <2>1. \A f \in Exec : Frame(f)
    BY <1>18, Zenon DEF Crash, Frame, db, req, box, out, TypeInv, RowsOK, RequestsOK, SandboxOK
  <2>2. \A v \in Workers : Keeps(v)
    BY <1>18, Zenon DEF Crash, Keeps, Working, Holding, wk, TypeInv, WorkersInv, WorkersOK
  <2>. QED  BY <2>1, <2>2, FrameStep, Zenon
<1>19. ASSUME NEW d \in Dispatcher, Boot(d) PROVE SafetyInv'
  <2>1. \A f \in Exec : Frame(f)
    BY <1>19 DEF Boot, Frame, db, req, box, out, TypeInv, RowsOK, RequestsOK, SandboxOK,
       Kill
  <2>2. \A v \in Workers : Keeps(v)
    BY <1>19, Zenon DEF Boot, Keeps, Working, Holding, wk, TypeInv, WorkersInv, WorkersOK
  <2>. QED  BY <2>1, <2>2, FrameStep, Zenon
<1>20. ASSUME NEW w \in Workers, NEW m \in Msgs, Fetch(w, m) PROVE SafetyInv'
  <2>1. \A f \in Exec : Frame(f)
    BY <1>20, Zenon DEF Fetch, Frame, db, req, box, out
  <2>2. \A v \in Workers : Keeps(v)
    BY <1>20, Zenon DEF Fetch, Keeps, wk
  <2>. QED  BY <2>1, <2>2, FrameStep, Zenon
<1>21. ASSUME UNCHANGED vars PROVE SafetyInv'
  <2>1. \A f \in Exec : Frame(f)
    BY <1>21, Zenon DEF vars, Frame, db, req, box, out
  <2>2. \A v \in Workers : Keeps(v)
    BY <1>21, Zenon DEF vars, Keeps, wk
  <2>. QED  BY <2>1, <2>2, FrameStep, Zenon
<1>. QED
  BY <1>1, <1>2, <1>3, <1>4, <1>5, <1>6, <1>7, <1>8, <1>9, <1>10, <1>11, <1>12, <1>13,
     <1>14, <1>15, <1>16, <1>17, <1>18, <1>19, <1>20, <1>21, Zenon

\* The insert: nobody has an execution that has no row.
LEMMA InsertStep ==
  ASSUME TypeInv, SafetyInv, NEW e \in Exec, Insert(e)
  PROVE  SafetyInv'
<1>1. row[e] = "none" /\ RowInv(e)
  BY Zenon DEF Insert, SafetyInv, RowInv
<1>2. RowInv(e)'
  BY <1>1, Zenon DEF Insert, Write, CreateExecution, RowInv, TypeInv, RowsOK, RequestsOK, OutputsOK,
              db, box, out
<1>3. \A f \in Exec \ {e} : Frame(f)
  BY RowFrames DEF Insert, Write, Frame, TypeInv, RequestsOK, db, box, out
<1>4. \A v \in Workers : Keeps(v)
  BY Zenon DEF Insert, Keeps, wk
<1>5. ASSUME NEW v \in Workers PROVE WorkInv(v)'
  <2>1. ASSUME pc[v] \in Working PROVE cur[v] \in Exec \ {e}
    <3>1. cur[v] \in Exec /\ WorkInv(v)
      BY <2>1, Alone, Zenon
    <3>. QED  BY <1>1, <2>1, <3>1, Zenon DEF WorkInv, ClaimInv, StatusOf, classify, Working, Holding
  <2>. QED  BY <1>3, <1>4, <2>1, FrameWork, Zenon
<1>6. Exclusive'
  BY <1>4, Zenon DEF SafetyInv, Exclusive, Keeps
<1>. QED  BY <1>2, <1>3, <1>5, <1>6, FrameRow, Zenon DEF SafetyInv

\* The steps of handle, one per call.
LEMMA HandleSteps ==
  ASSUME TypeInv, SafetyInv, NEW w \in Workers, NEW e \in Exec, cur[w] = e
  PROVE
    /\ Claim(w) => SafetyInv'
    /\ Create(w) => SafetyInv'
    /\ Start(w) => SafetyInv'
    /\ Send(w) => SafetyInv'
    /\ Wait(w) => SafetyInv'
    /\ Logs(w) => SafetyInv'
    /\ Remove(w) => SafetyInv'
    /\ Requeue(w) => SafetyInv'
    /\ Finish(w) => SafetyInv'
    /\ PublishResult(w) => SafetyInv'
    /\ DeliverWebhook(w) => SafetyInv'
<1>1. ASSUME Claim(w) PROVE SafetyInv'
  <2>1. RowInv(e) /\ run[w] \in Outcome /\ pc[w] = "claim"
    BY <1>1, Zenon DEF Claim, SafetyInv, TypeInv, WorkersInv, WorkersOK
  <2>2. \A v \in Workers \ {w} : Keeps(v)
    BY <1>1, Zenon DEF Claim, Keeps, Goto, wk, TypeInv, WorkersInv, WorkersOK
  <2>3. \A f \in Exec \ {e} : Frame(f)
    <3>1. row' \in {row, MarkExecutionRunning(row, e)}
      BY <1>1, Zenon DEF Claim, Write, db
    <3>2. \A f \in Exec \ {e} : row'[f] = row[f]
      BY <3>1, RowFrames
    <3>3. UNCHANGED <<gw, runs, exit, cont, results, events>>
      BY <1>1, Zenon DEF Claim, req, box, out
    <3>. QED  BY <3>2, <3>3, Zenon DEF Frame
  <2>4. CASE row[e] = "queued"
    <3>1. ASSUME NEW v \in Workers \ {w}, pc[v] \in Working PROVE cur[v] # e
      <4>1. WorkInv(v) /\ run[v] \in Outcome
        BY <3>1, Alone, Zenon DEF TypeInv, WorkersInv, WorkersOK
      <4>. QED
        BY <2>4, <3>1, <4>1, OutcomeFacts, Zenon DEF WorkInv, ClaimInv, Working, Terminal
    <3>2. row'[e] \in {"queued", "running"}
      BY <1>1, <2>4, Zenon DEF Claim, Write, MarkExecutionRunning, Claimable, db, TypeInv, RowsOK
    <3>3. RowInv(e)'
      BY <1>1, <2>1, <2>4, <3>2, Zenon DEF Claim, RowInv, req, box, out, TypeInv, RowsOK
    <3>4. pc'[w] \in {"nak", "create"} /\ (pc'[w] = "create" => row'[e] = "running")
      BY <1>1, <2>4, Zenon DEF Claim, Goto, Write, MarkExecutionRunning, Claimable, TypeInv, RowsOK,
                        WorkersInv, WorkersOK
    <3>5. WorkInv(w)'
      BY <1>1, <2>1, <2>4, <3>4, Zenon
         DEF Claim, RowInv, WorkInv, ClaimInv, SaidInv, StartInv, EndInv, Working, Holding, box, out
    <3>. QED  BY <1>1, <2>2, <2>3, <3>1, <3>3, <3>5, WorkStep, Zenon DEF Claim
  <2>5. CASE row[e] # "queued"
    <3>1. row'[e] = row[e] /\ pc'[w] \in {"ack", "nak"}
      BY <1>1, <2>5, Zenon DEF Claim, Goto, Write, MarkExecutionRunning, Claimable, db, TypeInv, RowsOK,
                        WorkersInv, WorkersOK
    <3>2. Frame(e)
      BY <1>1, <3>1, Zenon DEF Claim, Frame, req, box, out
    <3>3. Keeps(w)
      BY <3>1, Zenon DEF Keeps, Working, Holding
    <3>. QED  BY <2>2, <2>3, <3>2, <3>3, FrameStep, Zenon
  <2>. QED  BY <2>4, <2>5, Zenon
<1>2. ASSUME Create(w) PROVE SafetyInv'
  <2>1. RowInv(e) /\ WorkInv(w) /\ run[w] \in Outcome /\ pc[w] = "create"
    BY <1>2, Zenon DEF Create, SafetyInv, TypeInv, WorkersInv, WorkersOK
  <2>2. \A v \in Workers \ {w} : pc[v] \in Working => cur[v] # e
    BY <2>1, Alone, Zenon DEF Working, Holding
  <2>3. \A v \in Workers \ {w} : Keeps(v)
    BY <1>2, Zenon DEF Create, Keeps, Goto, Return, TypeInv, WorkersInv, WorkersOK
  <2>4. \A f \in Exec \ {e} : Frame(f)
    BY <1>2 DEF Create, Frame, SetCont, Kill, req, db, out, TypeInv, SandboxOK
  <2>5. /\ exit'[e] = exit[e] /\ cont'[e] \in {cont[e], "none", "created"} /\ runs' = runs
        /\ pc'[w] \in {"start", "requeue"}
    <3>1. cont[e] # "fed"
      BY <2>1, Zenon DEF RowInv, WorkInv, StartInv
    <3>2. exit'[e] = exit[e]
      BY <1>2, <3>1, Zenon DEF Create, Kill
    <3>3. cont'[e] \in {cont[e], "none", "created"} /\ runs' = runs
      BY <1>2, Zenon DEF Create, SetCont, TypeInv, SandboxOK
    <3>4. pc'[w] \in {"start", "requeue"}
      BY <1>2, Zenon DEF Create, Goto, Return, TypeInv, WorkersInv, WorkersOK
    <3>. QED  BY <3>2, <3>3, <3>4, Zenon
  <2>6. RowInv(e)'
    BY <1>2, <2>1, <2>5 DEF Create, RowInv, req, db, out
  <2>7. WorkInv(w)'
    BY <1>2, <2>1, <2>5, Zenon DEF Create, RowInv, WorkInv, ClaimInv, SaidInv, StartInv, EndInv, Working,
       Holding, db, out
  <2>. QED
    BY <1>2, <2>2, <2>3, <2>4, <2>6, <2>7, WorkStep, Zenon DEF Create
<1>3. ASSUME Start(w) PROVE SafetyInv'
  <2>1. RowInv(e) /\ WorkInv(w) /\ run[w] \in Outcome /\ pc[w] = "start"
    BY <1>3, Zenon DEF Start, SafetyInv, TypeInv, WorkersInv, WorkersOK
  <2>2. \A v \in Workers \ {w} : pc[v] \in Working => cur[v] # e
    BY <2>1, Alone, Zenon DEF Working, Holding
  <2>3. \A v \in Workers \ {w} : Keeps(v)
    BY <1>3, Zenon DEF Start, Keeps, Goto, Return, TypeInv, WorkersInv, WorkersOK
  <2>4. \A f \in Exec \ {e} : Frame(f)
    BY <1>3, Zenon DEF Start, Frame, SetCont, req, db, out, TypeInv, SandboxOK
  <2>5. /\ cont'[e] \in {cont[e], "started"} /\ UNCHANGED <<runs, exit>>
        /\ pc'[w] = "send" \/ (pc'[w] = "remove" /\ run'[w] = NotStarted)
    BY <1>3, Zenon DEF Start, Goto, Return, SetCont, TypeInv, SandboxOK, WorkersInv, WorkersOK
  <2>6. RowInv(e)'
    BY <1>3, <2>1, <2>5 DEF Start, RowInv, req, db, out
  <2>7. WorkInv(w)'
    <3>1. UNCHANGED <<row, cur, results, events>>
      BY <1>3, Zenon DEF Start, db, out
    <3>2. ClaimInv(w)'
      BY <2>1, <2>5, <3>1, Zenon DEF WorkInv, ClaimInv, Holding
    <3>3. SaidInv(w)'
      BY <2>1, <2>5, <3>1, Zenon DEF WorkInv, SaidInv, Working, Holding
    <3>4. StartInv(w)'
      BY <2>1, <2>5, <3>1, Zenon DEF WorkInv, StartInv
    <3>5. EndInv(w)'
      BY <2>5 DEF EndInv, NotStarted, Result
    <3>. QED  BY <3>2, <3>3, <3>4, <3>5, Zenon DEF WorkInv
  <2>. QED
    BY <1>3, <2>2, <2>3, <2>4, <2>6, <2>7, WorkStep, Zenon DEF Start
<1>4. ASSUME Send(w) PROVE SafetyInv'
  <2>1. RowInv(e) /\ WorkInv(w) /\ run[w] \in Outcome /\ pc[w] = "send"
    BY <1>4, Zenon DEF Send, SafetyInv, TypeInv, WorkersInv, WorkersOK
  <2>2. \A v \in Workers \ {w} : pc[v] \in Working => cur[v] # e
    BY <2>1, Alone, Zenon DEF Working, Holding
  <2>3. \A v \in Workers \ {w} : Keeps(v)
    BY <1>4, Zenon DEF Send, Keeps, Goto, Return, TypeInv, WorkersInv, WorkersOK
  <2>4. \A f \in Exec \ {e} : Frame(f)
    BY <1>4, Zenon DEF Send, Frame, SetCont, req, db, out, TypeInv, SandboxOK
  <2>5. /\ exit' = exit
        /\ (cont'[e] = cont[e] /\ runs'[e] = runs[e]) \/ (cont'[e] = "fed" /\ runs'[e] = runs[e] + 1)
        /\ pc'[w] = "wait" \/ (pc'[w] = "remove" /\ run'[w] = RunnerError)
    BY <1>4, Zenon DEF Send, Goto, Return, SetCont, TypeInv, SandboxOK, WorkersInv, WorkersOK
  <2>6. RowInv(e)'
    <3>1. UNCHANGED <<gw, row, results, events>>
      BY <1>4, Zenon DEF Send, req, db, out
    <3>2. runs[e] = 0 /\ row[e] \in {"running", "failed"}
      BY <2>1, Zenon DEF WorkInv, ClaimInv, StartInv, Holding
    <3>3. exit[e] = "none" /\ runs'[e] \in {0, 1} /\ (runs'[e] = 0 => cont'[e] = cont[e])
      BY <2>1, <2>5, <3>2 DEF RowInv
    <3>. QED  BY <2>1, <2>5, <3>1, <3>2, <3>3 DEF RowInv
  <2>7. WorkInv(w)'
    <3>1. UNCHANGED <<row, cur, results, events>>
      BY <1>4, Zenon DEF Send, db, out
    <3>2. ClaimInv(w)'
      BY <2>1, <2>5, <3>1, Zenon DEF WorkInv, ClaimInv, Holding
    <3>3. SaidInv(w)'
      BY <2>1, <2>5, <3>1, Zenon DEF WorkInv, SaidInv, Working, Holding
    <3>4. RunnerError.err = "runner" /\ StatusOf(RunnerError) = "failed"
      BY Zenon DEF RunnerError, Result, StatusOf
    <3>5. StartInv(w)' /\ EndInv(w)'
      BY <2>5, <3>4, Zenon DEF StartInv, EndInv
    <3>. QED  BY <3>2, <3>3, <3>5, Zenon DEF WorkInv
  <2>. QED
    BY <1>4, <2>2, <2>3, <2>4, <2>6, <2>7, WorkStep, Zenon DEF Send
<1>5. ASSUME Wait(w) PROVE SafetyInv'
  <2>1. RowInv(e) /\ WorkInv(w) /\ pc[w] = "wait"
    BY <1>5, Zenon DEF Wait, SafetyInv
  <2>2. \A v \in Workers \ {w} : pc[v] \in Working => cur[v] # e
    BY <2>1, Alone, Zenon DEF Working, Holding
  <2>3. \A v \in Workers \ {w} : Keeps(v)
    BY <1>5, Zenon DEF Wait, Keeps, Goto, Return, TypeInv, WorkersInv, WorkersOK
  <2>4. \A f \in Exec : Frame(f)
    <3>1. UNCHANGED <<gw, row, runs, results, events>>
      BY <1>5, Zenon DEF Wait, req, db, out
    <3>2. CASE UNCHANGED <<cont, exit>>
      BY <3>1, <3>2, Zenon DEF Frame
    <3>3. CASE Kill({e}) /\ SetCont(e, IF cont[e] = "fed" THEN "exited" ELSE cont[e])
      BY <3>1, <3>3, Zenon DEF Frame, SetCont, Kill, TypeInv, SandboxOK
    <3>. QED  BY <1>5, <3>2, <3>3, Zenon DEF Wait
  <2>5. RowInv(e)'
    BY <2>1, <2>4, FrameRow, Zenon
  <2>6. \/ \E c \in ExitCodes(e) : Return(w, "logs", Result("nil", {}, c)) /\ exit' = exit
        \/ Return(w, "logs", Result("nil", {"TimedOut"}, 0))
        \/ Return(w, "remove", RunnerError)
    BY <1>5, Zenon DEF Wait
  <2>7. EndInv(w)'
    <3>1. ASSUME NEW c \in ExitCodes(e), Return(w, "logs", Result("nil", {}, c)), exit' = exit
          PROVE  EndInv(w)'
      <4>1. c = 0 => exit[e] \in {"zero", "oom"}
        BY <3>1 DEF ExitCodes
      <4>2. pc'[w] = "logs" /\ run'[w].exitCode = c
        BY <3>1, Zenon DEF Return, Goto, Result, TypeInv, WorkersInv, WorkersOK
      <4>. QED  BY <1>5, <3>1, <4>1, <4>2, Zenon DEF Wait, EndInv
    <3>2. ASSUME Return(w, "logs", Result("nil", {"TimedOut"}, 0)) PROVE EndInv(w)'
      BY <3>2, Zenon DEF Return, Goto, Result, EndInv, TypeInv, WorkersInv, WorkersOK
    <3>3. ASSUME Return(w, "remove", RunnerError) PROVE EndInv(w)'
      BY <3>3, Zenon DEF Return, Goto, RunnerError, Result, StatusOf, EndInv, TypeInv, WorkersInv, WorkersOK
    <3>. QED  BY <2>6, <3>1, <3>2, <3>3, Zenon
  <2>8. pc'[w] = "logs" \/ (pc'[w] = "remove" /\ run'[w].err = "runner")
    BY <2>6 DEF Return, Goto, RunnerError, Result, TypeInv, WorkersInv, WorkersOK
  <2>9. ClaimInv(w)' /\ SaidInv(w)' /\ StartInv(w)'
    BY <1>5, <2>1, <2>8, Zenon DEF Wait, WorkInv, ClaimInv, SaidInv, StartInv, Working, Holding, db, out
  <2>. QED
    BY <1>5, <2>2, <2>3, <2>4, <2>5, <2>7, <2>9, WorkStep, Zenon DEF Wait, WorkInv
<1>6. ASSUME Logs(w) PROVE SafetyInv'
  <2>1. RowInv(e) /\ WorkInv(w) /\ run[w] \in Outcome /\ pc[w] = "logs"
    BY <1>6, Zenon DEF Logs, SafetyInv, TypeInv, WorkersInv, WorkersOK
  <2>2. \A v \in Workers \ {w} : pc[v] \in Working => cur[v] # e
    BY <2>1, Alone, Zenon DEF Working, Holding
  <2>3. \A v \in Workers \ {w} : Keeps(v)
    BY <1>6, Zenon DEF Logs, Keeps, Goto, Return, TypeInv, WorkersInv, WorkersOK
  <2>4. \A f \in Exec : Frame(f)
    BY <1>6, Zenon DEF Logs, Frame, req, db, box, out
  <2>5. RowInv(e)'
    BY <2>1, <2>4, FrameRow, Zenon
  <2>6. /\ pc'[w] = "remove" /\ run'[w].err # "notStarted"
        /\ \/ run'[w] = RunnerError
           \/ /\ run'[w].flags = run[w].flags \cup (IF exit[e] = "oom" THEN {"OOMKilled"} ELSE {})
              /\ run'[w].exitCode = run[w].exitCode
    <3>1. \E r \in {RunnerError,
                    Result("nil", run[w].flags \cup (IF exit[e] = "oom" THEN {"OOMKilled"} ELSE {}),
                           run[w].exitCode)} : Return(w, "remove", r)
      BY <1>6, Zenon DEF Logs
    <3>2. \A r : Return(w, "remove", r) => pc'[w] = "remove" /\ run'[w] = r
      BY Zenon DEF Return, Goto, TypeInv, WorkersInv, WorkersOK
    <3>3. RunnerError.err # "notStarted" /\ \A F, c : Result("nil", F, c).err # "notStarted"
      BY Zenon DEF RunnerError, Result
    <3>4. \A F, c : Result("nil", F, c).flags = F /\ Result("nil", F, c).exitCode = c
      BY Zenon DEF Result
    <3>. QED  BY <3>1, <3>2, <3>3, <3>4
  <2>7. StatusOf(run'[w]) = "succeeded" => exit[e] = "zero"
    <3>1. CASE run'[w] = RunnerError
      BY <3>1 DEF RunnerError, Result, StatusOf
    <3>2. CASE run'[w] # RunnerError
      <4>1. ASSUME StatusOf(run'[w]) = "succeeded"
            PROVE  run'[w].flags \cap {"TimedOut", "OOMKilled"} = {} /\ run'[w].exitCode = 0
        BY <4>1, Zenon DEF StatusOf, classify
      <4>2. run[w].flags \subseteq {"TimedOut", "OOMKilled"}
        BY <2>1, Zenon DEF Outcome
      <4>. QED  BY <2>1, <2>6, <3>2, <4>1, <4>2, Zenon DEF WorkInv, EndInv
    <3>. QED  BY <3>1, <3>2, Zenon
  <2>8. WorkInv(w)'
    BY <1>6, <2>1, <2>6, <2>7, Zenon DEF Logs, WorkInv, ClaimInv, SaidInv, StartInv, EndInv, Working,
       Holding, db, box, out
  <2>. QED
    BY <1>6, <2>2, <2>3, <2>4, <2>5, <2>8, WorkStep, Zenon DEF Logs
<1>7. ASSUME Remove(w) PROVE SafetyInv'
  <2>1. RowInv(e) /\ WorkInv(w) /\ pc[w] = "remove"
    BY <1>7, Zenon DEF Remove, SafetyInv
  <2>2. \A v \in Workers \ {w} : pc[v] \in Working => cur[v] # e
    BY <2>1, Alone, Zenon DEF Working, Holding
  <2>3. \A v \in Workers \ {w} : Keeps(v)
    BY <1>7, Zenon DEF Remove, Keeps, Goto, TypeInv, WorkersInv, WorkersOK
  <2>4. \A f \in Exec : Frame(f)
    BY <1>7, Zenon DEF Remove, Frame, SetCont, Kill, req, db, out, TypeInv, SandboxOK
  <2>5. RowInv(e)'
    BY <2>1, <2>4, FrameRow, Zenon
  <2>6. /\ pc'[w] = IF run[w].err = "notStarted" THEN "requeue" ELSE "finish"
        /\ exit[e] = "zero" => exit'[e] = "zero"
    <3>1. pc'[w] = IF run[w].err = "notStarted" THEN "requeue" ELSE "finish"
      BY <1>7, Zenon DEF Remove, Goto, TypeInv, WorkersInv, WorkersOK
    <3>2. cont[e] = "fed" => exit[e] # "zero"
      BY <2>1, Zenon DEF RowInv
    <3>3. exit'[e] \in {exit[e], "killed"} /\ (exit'[e] = exit[e] \/ cont[e] = "fed")
      BY <1>7, Zenon DEF Remove, Kill
    <3>. QED  BY <3>1, <3>2, <3>3, Zenon
  <2>7. WorkInv(w)'
    BY <1>7, <2>1, <2>6, Zenon DEF Remove, WorkInv, ClaimInv, SaidInv, StartInv, EndInv, Working,
       Holding, db, out
  <2>. QED
    BY <1>7, <2>2, <2>3, <2>4, <2>5, <2>7, WorkStep, Zenon DEF Remove
<1>8. ASSUME Requeue(w) PROVE SafetyInv'
  <2>1. RowInv(e) /\ WorkInv(w) /\ pc[w] = "requeue"
    BY <1>8, Zenon DEF Requeue, SafetyInv
  <2>2. \A v \in Workers \ {w} : pc[v] \in Working => cur[v] # e
    BY <2>1, Alone, Zenon DEF Working, Holding
  <2>3. \A v \in Workers \ {w} : Keeps(v)
    BY <1>8, Zenon DEF Requeue, Keeps, Goto, TypeInv, WorkersInv, WorkersOK
  <2>4. row' \in {row, RequeueExecution(row, e)}
    BY <1>8, Zenon DEF Requeue, Write, db
  <2>5. \A f \in Exec \ {e} : Frame(f)
    <3>1. \A f \in Exec \ {e} : row'[f] = row[f]
      BY <2>4, RowFrames
    <3>2. UNCHANGED <<gw, runs, exit, cont, results, events>>
      BY <1>8, Zenon DEF Requeue, req, box, out
    <3>. QED  BY <3>1, <3>2, Zenon DEF Frame
  <2>6. row'[e] \in {"queued", "running", "failed"} /\ (row'[e] = row[e] \/ row'[e] = "queued")
    BY <2>1, <2>4, Zenon DEF RequeueExecution, WorkInv, ClaimInv, Holding, TypeInv, RowsOK
  <2>7. RowInv(e)'
    BY <1>8, <2>1, <2>6, Zenon DEF Requeue, RowInv, WorkInv, ClaimInv, SaidInv, StartInv, Working,
       Holding, req, box, out
  <2>8. WorkInv(w)'
    BY <1>8, Zenon DEF Requeue, Goto, WorkInv, ClaimInv, SaidInv, StartInv, EndInv, Working, Holding,
                TypeInv, WorkersInv, WorkersOK
  <2>. QED
    BY <1>8, <2>2, <2>3, <2>5, <2>7, <2>8, WorkStep, Zenon DEF Requeue
<1>9. ASSUME Finish(w) PROVE SafetyInv'
  <2>1. RowInv(e) /\ WorkInv(w) /\ StatusOf(run[w]) \in Terminal /\ pc[w] = "finish"
    BY <1>9, OutcomeFacts, Zenon DEF Finish, SafetyInv, TypeInv, WorkersInv, WorkersOK
  <2>2. \A v \in Workers \ {w} : pc[v] \in Working => cur[v] # e
    BY <2>1, Alone, Zenon DEF Working, Holding
  <2>3. \A v \in Workers \ {w} : Keeps(v)
    BY <1>9, Zenon DEF Finish, Keeps, Goto, TypeInv, WorkersInv, WorkersOK
  <2>4. /\ row' \in {row, FinishExecution(row, e, StatusOf(run[w]))}
        /\ pc'[w] \in {"finish", "webhook", "publish", "nak"}
        /\ pc'[w] = "publish" => row' = FinishExecution(row, e, StatusOf(run[w]))
    BY <1>9, Zenon DEF Finish, Write, Goto, GiveUp, db, TypeInv, WorkersInv, WorkersOK
  <2>5. \A f \in Exec \ {e} : Frame(f)
    <3>1. \A f \in Exec \ {e} : row'[f] = row[f]
      BY <2>1, <2>4, RowFrames
    <3>2. UNCHANGED <<gw, runs, exit, cont, results, events>>
      BY <1>9, Zenon DEF Finish, req, box, out
    <3>. QED  BY <3>1, <3>2, Zenon DEF Frame
  <2>6. /\ row'[e] \in {row[e], StatusOf(run[w])}
        /\ row'[e] # row[e] => row[e] = "running"
        /\ pc'[w] = "publish" => row'[e] # "running"
    BY <2>1, <2>4, Zenon DEF FinishExecution, TypeInv, RowsOK, Terminal
  <2>7. RowInv(e)'
    BY <1>9, <2>1, <2>6, Zenon DEF Finish, RowInv, WorkInv, SaidInv, StartInv, EndInv, Working, Holding,
                            req, box, out, Terminal
  <2>8. ClaimInv(w)'
    BY <1>9, <2>1, <2>4, <2>6, Zenon DEF Finish, WorkInv, ClaimInv, Holding, Terminal
  <2>9. SaidInv(w)' /\ StartInv(w)' /\ EndInv(w)'
    BY <1>9, <2>1, <2>4, Zenon DEF Finish, WorkInv, SaidInv, StartInv, EndInv, Working, Holding, box, out
  <2>. QED
    BY <1>9, <2>2, <2>3, <2>5, <2>7, <2>8, <2>9, WorkStep, Zenon DEF Finish, WorkInv
<1>10. ASSUME PublishResult(w) PROVE SafetyInv'
  <2>1. RowInv(e) /\ WorkInv(w) /\ StatusOf(run[w]) \in Terminal /\ pc[w] = "publish"
    BY <1>10, OutcomeFacts, Zenon DEF PublishResult, SafetyInv, TypeInv, WorkersInv, WorkersOK
  <2>2. \A v \in Workers \ {w} : pc[v] \in Working => cur[v] # e
    BY <2>1, Alone, Zenon DEF Working, Holding
  <2>3. \A v \in Workers \ {w} : Keeps(v)
    BY <1>10, Zenon DEF PublishResult, Keeps, Goto, TypeInv, WorkersInv, WorkersOK
  <2>4. /\ results' \in {results, [results EXCEPT ![e] = @ \cup {StatusOf(run[w])}]}
        /\ pc'[w] = "webhook"
    BY <1>10, Zenon DEF PublishResult, Goto, TypeInv, WorkersInv, WorkersOK
  <2>5. \A f \in Exec \ {e} : Frame(f)
    BY <1>10, <2>4, Zenon DEF PublishResult, Frame, req, db, box, TypeInv, OutputsOK
  <2>6. results'[e] \in {{}, {StatusOf(run[w])}} /\ events' = events
    BY <1>10, <2>1, <2>4, Zenon DEF PublishResult, WorkInv, SaidInv, Working, Holding, TypeInv, OutputsOK
  <2>7. RowInv(e)'
    BY <1>10, <2>1, <2>6, Zenon DEF PublishResult, RowInv, WorkInv, ClaimInv, SaidInv, StartInv, EndInv, Working,
       Holding, req, db, box, Terminal
  <2>8. WorkInv(w)'
    BY <1>10, <2>1, <2>4, <2>6, Zenon DEF PublishResult, WorkInv, ClaimInv, SaidInv, StartInv, EndInv, Working,
       Holding, db, box, Terminal
  <2>. QED
    BY <1>10, <2>2, <2>3, <2>5, <2>7, <2>8, WorkStep, Zenon DEF PublishResult
<1>11. ASSUME DeliverWebhook(w) PROVE SafetyInv'
  <2>1. RowInv(e) /\ WorkInv(w) /\ StatusOf(run[w]) \in Terminal /\ pc[w] = "webhook"
    BY <1>11, OutcomeFacts, Zenon DEF DeliverWebhook, SafetyInv, TypeInv, WorkersInv, WorkersOK
  <2>2. \A v \in Workers \ {w} : pc[v] \in Working => cur[v] # e
    BY <2>1, Alone, Zenon DEF Working, Holding
  <2>3. \A v \in Workers \ {w} : Keeps(v)
    BY <1>11, Zenon DEF DeliverWebhook, Keeps, Goto, TypeInv, WorkersInv, WorkersOK
  <2>4. /\ events' \in {events, [events EXCEPT ![e] = @ \cup {StatusOf(run[w])}]}
        /\ pc'[w] = "ack"
    BY <1>11, Zenon DEF DeliverWebhook, EventStatus, Goto, TypeInv, WorkersInv, WorkersOK
  <2>5. \A f \in Exec \ {e} : Frame(f)
    BY <1>11, <2>4, Zenon DEF DeliverWebhook, Frame, req, db, box, TypeInv, OutputsOK
  <2>6. events'[e] \in {{}, {StatusOf(run[w])}} /\ results' = results
    BY <1>11, <2>1, <2>4, Zenon DEF DeliverWebhook, WorkInv, SaidInv, Working, Holding, TypeInv, OutputsOK
  <2>7. RowInv(e)'
    <3>1. UNCHANGED <<gw, row, runs, exit, cont, results>>
      BY <1>11, Zenon DEF DeliverWebhook, req, db, box, out
    <3>2. row[e] \notin {"none", "queued"} /\ results[e] \subseteq {StatusOf(run[w])}
      BY <2>1, Zenon DEF WorkInv, ClaimInv, SaidInv
    <3>3. StatusOf(run[w]) = "succeeded" => exit[e] = "zero"
      BY <2>1, Zenon DEF WorkInv, StartInv, EndInv
    <3>4. "succeeded" \in {row[e]} \cup results[e] \cup events'[e] => exit[e] = "zero"
      BY <2>1, <2>6, <3>2, <3>3, Zenon DEF RowInv
    <3>5. \A s, t \in results[e] \cup events'[e] : s = t
      BY <2>6, <3>2, Zenon
    <3>. QED  BY <2>1, <3>1, <3>2, <3>4, <3>5, Zenon DEF RowInv
  <2>8. WorkInv(w)'
    BY <1>11, <2>1, <2>4, <2>6, Zenon DEF DeliverWebhook, WorkInv, ClaimInv, SaidInv, StartInv, EndInv, Working,
       Holding, db, box, Terminal
  <2>. QED
    BY <1>11, <2>2, <2>3, <2>5, <2>7, <2>8, WorkStep, Zenon DEF DeliverWebhook
<1>. QED
  BY <1>1, <1>2, <1>3, <1>4, <1>5, <1>6, <1>7, <1>8, <1>9, <1>10, <1>11, Zenon

\* Every step keeps the invariant.
LEMMA SafetyNext == TypeInv /\ SafetyInv /\ [Next]_vars => SafetyInv'
<1>. SUFFICES ASSUME TypeInv, SafetyInv, [Next]_vars PROVE SafetyInv'
  OBVIOUS
<1>1. ASSUME NEW w \in Workers, Worker(w) PROVE SafetyInv'
  <2>1. CASE NextMsg(w) \/ Ack(w) \/ Nak(w) \/ WorkerExits(w)
    BY <2>1, OtherSteps, Zenon
  <2>2. CASE ~(NextMsg(w) \/ Ack(w) \/ Nak(w) \/ WorkerExits(w))
    <3>1. pc[w] \in Working \cup {"claim"}
      BY <1>1, <2>2, Zenon DEF Worker, Claim, Create, Start, Send, Wait, Logs, Remove, Requeue, Finish,
                        PublishResult, DeliverWebhook, Working, Holding
    <3>2. cur[w] \in Exec
      BY <3>1, Zenon DEF TypeInv, WorkersInv, WorkersOK, Working
    <3>. QED  BY <1>1, <2>2, <3>2, HandleSteps, Zenon DEF Worker
  <2>. QED  BY <2>1, <2>2, Zenon
<1>2. ASSUME NEW e \in Exec, Gateway(e) PROVE SafetyInv'
  BY <1>2, InsertStep, OtherSteps, Zenon DEF Gateway
<1>3. ASSUME NEW d \in Dispatcher, ReaperOf(d) PROVE SafetyInv'
  BY <1>3, OtherSteps, Zenon DEF ReaperOf
<1>. QED
  BY <1>1, <1>2, <1>3, OtherSteps, Zenon DEF Next

\* The inductive invariant holds of every behaviour of gateway, queue, workers,
\* reapers and processes; the safety theorems below are its consequences.
THEOREM Safety == Spec => [](TypeInv /\ SafetyInv)
BY TypeInit, TypeNext, SafetyInit, SafetyNext, PTL DEF Spec

\* Two workers never hold the same execution, under any redelivery, requeue,
\* lost reply, crash or restart: the claim guard of MarkExecutionRunning is
\* enough because no holder's row is ever "queued".
THEOREM ClaimIsExclusive == Spec => []ClaimExclusive
<1>1. SafetyInv => ClaimExclusive
  BY Zenon DEF SafetyInv, Exclusive, ClaimExclusive, Holds, Working
<1>. QED  BY <1>1, Safety, PTL

\* Submitted code reaches a container at most once.
THEOREM AtMostOnce == Spec => []CodeRunsAtMostOnce
<1>1. SafetyInv => \A e \in Exec : runs[e] \in {0, 1}
  BY Zenon DEF SafetyInv, RowInv
<1>2. SafetyInv => CodeRunsAtMostOnce
  BY <1>1 DEF CodeRunsAtMostOnce
<1>. QED  BY <1>2, Safety, PTL

\* What is in the queue has not run and nobody works on it.
THEOREM QueuedIsFresh == Spec => []QueuedNeverRan
<1>1. TypeInv /\ SafetyInv => QueuedNeverRan
  <2>. SUFFICES ASSUME TypeInv, SafetyInv, NEW e \in Exec, row[e] = "queued"
                PROVE  runs[e] = 0 /\ ~Live(e)
    BY Zenon DEF QueuedNeverRan
  <2>1. ASSUME NEW w \in Workers, Holds(w, e) PROVE FALSE
    <3>1. WorkInv(w) /\ StatusOf(run[w]) \in Terminal
      BY OutcomeFacts, Zenon DEF SafetyInv, TypeInv, WorkersInv, WorkersOK
    <3>. QED  BY <2>1, <3>1, Zenon DEF Holds, WorkInv, ClaimInv, Holding, Terminal
  <2>. QED  BY <2>1, Zenon DEF SafetyInv, RowInv, Live
<1>. QED  BY <1>1, Safety, PTL

\* "succeeded" is only ever said of a program that ended with exit code 0.
THEOREM SuccessGenuine == Spec => []SuccessIsGenuine
<1>1. SafetyInv => SuccessIsGenuine
  BY Zenon DEF SafetyInv, RowInv, SuccessIsGenuine
<1>. QED  BY <1>1, Safety, PTL

\* Results and webhook events never contradict each other.
THEOREM SingleVerdict == Spec => []OneVerdict
<1>1. SafetyInv => OneVerdict
  BY Zenon DEF SafetyInv, RowInv, OneVerdict
<1>. QED  BY <1>1, Safety, PTL

\* A published result is never ahead of the row.
THEOREM ResultBehindRow == Spec => []ResultOrReaped
<1>1. SafetyInv => ResultOrReaped
  BY Zenon DEF SafetyInv, RowInv, ResultOrReaped
<1>. QED  BY <1>1, Safety, PTL

-----------------------------------------------------------------------------
(* Dispatch implements ExecutionLifecycle: with ran the executions whose    *)
(* source reached a container, every step of the gateway, the workers, the  *)
(* reapers and the environment is a lifecycle step or leaves row and ran    *)
(* alone.                                                                   *)

ran == {e \in Exec : runs[e] > 0}

\* An empty table in which nothing ran is where the lifecycle starts.
LEMMA LifecycleInit == Init => Lifecycle!Init
BY DEF Init, Lifecycle!Init

\* The statements of the model, as lifecycle steps.
LEMMA Statements ==
  ASSUME TypeInv, SafetyInv, runs' = runs, NEW e \in Exec
  PROVE  /\ gw[e] = "new" /\ row' = CreateExecution(row, e) => Lifecycle!Submit(e)
         /\ row' = MarkExecutionRunning(row, e) => Lifecycle!Claim(e) \/ row' = row
         /\ runs[e] = 0 /\ row' = RequeueExecution(row, e) => Lifecycle!GiveBack(e) \/ row' = row
         /\ row' = SetExecutionFailed(row, e) => Lifecycle!Abandon({e}) \/ row' = row
         /\ row' = MarkStaleQueuedFailed(row, e) => Lifecycle!Abandon({e}) \/ row' = row
<1>1. row \in [Exec -> Status] /\ RowInv(e)
  BY Zenon DEF TypeInv, RowsOK, SafetyInv
<1>2. gw[e] = "new" /\ row' = CreateExecution(row, e) => Lifecycle!Submit(e)
  BY <1>1, Zenon DEF RowInv, CreateExecution, Lifecycle!Submit
<1>3. row' = MarkExecutionRunning(row, e) => Lifecycle!Claim(e) \/ row' = row
  BY <1>1, Zenon DEF MarkExecutionRunning, Claimable, Lifecycle!Claim
<1>4. runs[e] = 0 /\ row' = RequeueExecution(row, e) => Lifecycle!GiveBack(e) \/ row' = row
  <2>1. row' = RequeueExecution(row, e)
          => row' = row \/ (row[e] = "running" /\ row' = [row EXCEPT ![e] = "queued"])
    BY <1>1, Zenon DEF RequeueExecution
  <2>. QED  BY <2>1 DEF Lifecycle!GiveBack
<1>5. /\ row' = SetExecutionFailed(row, e) => Lifecycle!Abandon({e}) \/ row' = row
      /\ row' = MarkStaleQueuedFailed(row, e) => Lifecycle!Abandon({e}) \/ row' = row
  BY <1>1, Zenon DEF SetExecutionFailed, MarkStaleQueuedFailed, Lifecycle!Abandon
<1>. QED  BY <1>2, <1>3, <1>4, <1>5, Zenon

\* Every step of Dispatch is a lifecycle step or changes neither row nor ran.
LEMMA LifecycleStep ==
  ASSUME TypeInv, SafetyInv, [Next]_vars
  PROVE  [Lifecycle!Next]_<<row, ran>>
<1>1. ASSUME NEW e \in Exec, Gateway(e) PROVE [Lifecycle!Next]_<<row, ran>>
  <2>1. runs' = runs
    BY <1>1, Zenon DEF Gateway, Insert, PublishSubmit, FailSubmit, box
  <2>2. \/ gw[e] = "new" /\ row' = CreateExecution(row, e)
        \/ row' = SetExecutionFailed(row, e)
        \/ row' = row
    BY <1>1, Zenon DEF Gateway, Insert, PublishSubmit, FailSubmit, Write, db
  <2>. QED
    BY <2>1, <2>2, Statements, Zenon DEF Lifecycle!Next, ran
<1>2. ASSUME NEW w \in Workers, Worker(w) PROVE [Lifecycle!Next]_<<row, ran>>
  <2>1. CASE NextMsg(w) \/ Create(w) \/ Start(w) \/ Wait(w) \/ Logs(w) \/ Remove(w)
             \/ PublishResult(w) \/ DeliverWebhook(w) \/ Ack(w) \/ Nak(w) \/ WorkerExits(w)
    BY <2>1, Zenon DEF NextMsg, Create, Start, Wait, Logs, Remove, PublishResult, DeliverWebhook, Ack,
                Nak, WorkerExits, db, box, ran
  <2>2. CASE Claim(w)
    <3>1. cur[w] \in Exec
      BY <2>2, Zenon DEF Claim, TypeInv, WorkersInv, WorkersOK
    <3>2. runs' = runs /\ row' \in {row, MarkExecutionRunning(row, cur[w])}
      BY <2>2, Zenon DEF Claim, Write, db, box
    <3>. QED  BY <3>1, <3>2, Statements, Zenon DEF Lifecycle!Next, ran
  <2>3. CASE Requeue(w)
    <3>1. cur[w] \in Exec /\ runs[cur[w]] = 0
      BY <2>3, Zenon DEF Requeue, TypeInv, WorkersInv, WorkersOK, Holding, SafetyInv, WorkInv, StartInv
    <3>2. runs' = runs /\ row' \in {row, RequeueExecution(row, cur[w])}
      BY <2>3, Zenon DEF Requeue, Write, db, box
    <3>. QED  BY <3>1, <3>2, Statements, Zenon DEF Lifecycle!Next, ran
  <2>4. CASE Send(w)
    <3>1. /\ cur[w] \in Exec /\ runs \in [Exec -> Nat] /\ runs[cur[w]] = 0
          /\ row[cur[w]] \in {"running", "failed"}
      BY <2>4, Zenon DEF Send, TypeInv, WorkersInv, WorkersOK, SandboxOK, Holding, SafetyInv, WorkInv,
                  StartInv, ClaimInv
    <3>2. row' = row /\ (runs' = runs \/ runs' = [runs EXCEPT ![cur[w]] = @ + 1])
      BY <2>4, Zenon DEF Send, db
    <3>3. CASE runs' = runs
      BY <3>2, <3>3, Zenon DEF ran
    <3>4. CASE runs' # runs
      <4>1. PICK e \in Exec : e = cur[w]
        BY <3>1, Zenon
      <4>2. Lifecycle!RunCode(e)
        BY <3>1, <3>2, <3>4, <4>1 DEF Lifecycle!RunCode
      <4>. QED  BY <4>2, Zenon DEF Lifecycle!Next
    <3>. QED  BY <3>3, <3>4, Zenon
  <2>5. CASE Finish(w)
    <3>. DEFINE e == cur[w]
                s == StatusOf(run[w])
    <3>1. e \in Exec /\ s \in Terminal /\ row \in [Exec -> Status]
      BY <2>5, OutcomeFacts, Zenon DEF Finish, TypeInv, RowsOK, WorkersInv, WorkersOK, Holding
    <3>2. runs' = runs /\ row' \in {row, FinishExecution(row, e, s)}
      BY <2>5, Zenon DEF Finish, Write, db, box
    <3>3. s = "succeeded" => e \in ran
      <4>1. s = "succeeded" => exit[e] = "zero"
        BY <2>5, Zenon DEF Finish, SafetyInv, WorkInv, StartInv, EndInv
      <4>2. runs[e] \in {0, 1} /\ (runs[e] = 0 => exit[e] = "none")
        BY <3>1, Zenon DEF SafetyInv, RowInv
      <4>. QED  BY <3>1, <4>1, <4>2 DEF ran
    <3>4. row' # row => Lifecycle!Complete(e, s)
      <4>1. ASSUME row' # row PROVE row[e] = "running" /\ row' = [row EXCEPT ![e] = s]
        BY <3>1, <3>2, <4>1, Zenon DEF FinishExecution
      <4>. QED  BY <3>2, <3>3, <4>1, Zenon DEF Lifecycle!Complete, ran
    <3>5. s \in Lifecycle!Terminal
      BY <3>1, Zenon DEF Terminal, Lifecycle!Terminal
    <3>. QED  BY <3>1, <3>2, <3>4, <3>5, Zenon DEF Lifecycle!Next, ran
  <2>. QED  BY <1>2, <2>1, <2>2, <2>3, <2>4, <2>5, Zenon DEF Worker
<1>3. ASSUME NEW d \in Dispatcher, ReaperOf(d) PROVE [Lifecycle!Next]_<<row, ran>>
  <2>1. CASE ReapRunning(d)
    <3>. DEFINE S == {e \in Exec : row[e] = "running" /\ e \in aged}
    <3>1. runs' = runs /\ row' \in {row, ReapStaleExecutions(row, aged)}
      BY <2>1, Zenon DEF ReapRunning, Write, db, box
    <3>2. row' = ReapStaleExecutions(row, aged) => Lifecycle!Abandon(S)
      BY <3>1, Zenon DEF ReapStaleExecutions, Lifecycle!Abandon, TypeInv, RowsOK
    <3>. QED  BY <3>1, <3>2, Zenon DEF Lifecycle!Next, ran
  <2>2. CASE ReapList(d)
    BY <2>2, Zenon DEF ReapList, db, box, ran
  <2>3. CASE ReapMark(d)
    <3>1. runs' = runs /\ (row' = row \/ \E e \in Exec : row' = MarkStaleQueuedFailed(row, e))
      BY <2>3, Zenon DEF ReapMark, Write, db, box, TypeInv, ProcessesOK
    <3>. QED  BY <3>1, Statements, Zenon DEF Lifecycle!Next, ran
  <2>. QED  BY <1>3, <2>1, <2>2, <2>3, Zenon DEF ReaperOf
<1>4. CASE \/ \E e \in Exec : ClientGone(e) \/ GatewayCrash(e) \/ AgeUpdated(e) \/ AgeCreated(e)
                              \/ ProgramExits(e)
           \/ \E m \in Poison : PublishPoison(m)
           \/ \E m \in Msgs : AckWaitExpires(m)
           \/ \E w \in Workers, m \in Msgs : Fetch(w, m)
           \/ \E w \in Workers : WorkerReturns(w)
           \/ \E d \in Dispatcher : Stop(d) \/ Crash(d) \/ Boot(d)
           \/ UNCHANGED vars
  BY <1>4, Zenon DEF ClientGone, GatewayCrash, AgeUpdated, AgeCreated, ProgramExits, PublishPoison,
              AckWaitExpires, Fetch, WorkerReturns, Stop, Crash, Boot, vars, db, box, ran
<1>. QED  BY <1>1, <1>2, <1>3, <1>4, Zenon DEF Next

\* The pipeline of gateway, queue, dispatchers and reapers implements the
\* lifecycle: submitted once, run at most once, given back only unrun, success
\* only after a run, a terminal status final.
THEOREM ImplementsLifecycle == Spec => LifecycleSpec
<1>1. TypeInv /\ SafetyInv /\ [Next]_vars => [Lifecycle!Next]_<<row, ran>>
  BY LifecycleStep, Zenon
<1>. QED  BY <1>1, LifecycleInit, Safety, PTL DEF Spec, LifecycleSpec, Lifecycle!Spec, ran

\* A terminal status is never left, for any number of reapers, redeliveries
\* and late results.
THEOREM TerminalFinal == Spec => TerminalIsFinal
<1>1. ASSUME TypeInv, SafetyInv, [Next]_vars
      PROVE  [\A e \in Exec : row[e] \in Terminal => row'[e] = row[e]]_row
  <2>1. row \in [Exec -> Status]
    BY <1>1, Zenon DEF TypeInv, RowsOK
  <2>2. row' = row \/ Lifecycle!Next
    BY <1>1, LifecycleStep, Zenon
  <2>. QED
    BY <2>1, <2>2, Zenon DEF Lifecycle!Next, Lifecycle!Submit, Lifecycle!Claim, Lifecycle!GiveBack,
       Lifecycle!RunCode, Lifecycle!Complete, Lifecycle!Abandon, Terminal
<1>. QED  BY <1>1, Safety, PTL DEF Spec, TerminalIsFinal

-----------------------------------------------------------------------------
(* What is published is what the row says, as long as live work is not      *)
(* reaped (LateWork FALSE).                                                 *)

\* The row a worker holds is young, so that no reaper has failed it, and it says
\* what the worker is about to publish; a failure that finish could not write
\* is on a row that is still running.
Prompt(w) ==
  LET e == cur[w]
      status == StatusOf(run[w])
  IN  /\ pc[w] \in Holding \ {"finish"} => row[e] = "running" /\ e \notin aged
      /\ pc[w] = "finish" => (row[e] = "running" /\ e \notin aged) \/ row[e] = status
      /\ pc[w] = "publish" => row[e] = status
      /\ pc[w] = "webhook" => row[e] = status \/ (row[e] = "running" /\ status = "failed")

Matches(e) ==
  /\ results[e] \subseteq {row[e]}
  /\ events[e] \subseteq {row[e]} \cup (IF row[e] = "running" THEN {"failed"} ELSE {})

MatchInv == ~LateWork => (\A w \in Workers : Prompt(w)) /\ (\A e \in Exec : Matches(e))

\* A step that publishes nothing of f, and fails its row only if it is queued or
\* has aged; it ages only when no worker has it.
Calm(f) ==
  /\ results'[f] = results[f] /\ events'[f] = events[f]
  /\ \/ row'[f] = row[f] /\ (f \in aged' => f \in aged \/ ~Live(f))
     \/ row'[f] = "failed" /\ row[f] = "queued"
     \/ row'[f] = "failed" /\ row[f] = "running" /\ f \in aged

\* A worker that is where it was, goes on with a call before finish, or is no
\* longer in handle.
Onward(v) ==
  pc'[v] \in Working =>
    /\ cur'[v] = cur[v]
    /\ \/ pc'[v] = pc[v] /\ run'[v] = run[v]
       \/ pc[v] \in Holding \ {"finish"} /\ pc'[v] \in Holding

\* A row that is queued has no worker.
LEMMA QueuedFree ==
  ASSUME TypeInv, SafetyInv, NEW v \in Workers, pc[v] \in Working
  PROVE  cur[v] \in Exec /\ row[cur[v]] # "queued" /\ StatusOf(run[v]) \in Terminal
<1>1. cur[v] \in Exec /\ WorkInv(v) /\ run[v] \in Outcome
  BY Alone, Zenon DEF TypeInv, WorkersInv, WorkersOK
<1>2. StatusOf(run[v]) \in Terminal
  BY <1>1, OutcomeFacts, Zenon
<1>. QED  BY <1>1, <1>2, Zenon DEF WorkInv, ClaimInv, Working, Terminal

\* What was said of an execution still matches after a calm step.
LEMMA CalmRow ==
  ASSUME TypeInv, SafetyInv, NEW f \in Exec, Calm(f), Matches(f)
  PROVE  Matches(f)'
<1>1. results[f] \subseteq Terminal /\ RowInv(f)
  BY Zenon DEF TypeInv, OutputsOK, SafetyInv
<1>2. CASE row'[f] = row[f]
  BY <1>2, Zenon DEF Calm, Matches
<1>3. CASE row'[f] = "failed" /\ row[f] = "queued"
  BY <1>1, <1>3, Zenon DEF Calm, Matches, RowInv
<1>4. CASE row'[f] = "failed" /\ row[f] = "running"
  <2>1. "running" \notin Terminal
    BY Zenon DEF Terminal
  <2>2. results[f] \subseteq {} /\ events[f] \subseteq {"running", "failed"}
    BY <1>1, <1>4, <2>1, Zenon DEF Matches
  <2>3. events[f] \subseteq {"failed"}
    BY <2>1, <2>2, Zenon DEF TypeInv, OutputsOK
  <2>. QED  BY <1>4, <2>2, <2>3, Zenon DEF Calm, Matches
<1>. QED  BY <1>2, <1>3, <1>4, Zenon DEF Calm

\* So does what its worker is about to say.
LEMMA CalmWork ==
  ASSUME TypeInv, SafetyInv, NEW v \in Workers, Onward(v), pc[v] \in Working => Calm(cur[v]), Prompt(v)
  PROVE  Prompt(v)'
<1>1. CASE pc'[v] \notin Working
  BY <1>1, Zenon DEF Prompt, Working, Holding
<1>2. CASE pc'[v] \in Working
  <2>1. /\ cur'[v] = cur[v] /\ pc[v] \in Working
        /\ \/ pc'[v] = pc[v] /\ run'[v] = run[v]
           \/ pc[v] \in Holding \ {"finish"} /\ pc'[v] \in Holding
    BY <1>2, Zenon DEF Onward, Working
  <2>2. row[cur[v]] # "queued" /\ Calm(cur[v])
    BY <2>1, QueuedFree, Zenon
  <2>3. pc[v] \in Holding => Live(cur[v])
    BY Zenon DEF Live, Holds
  <2>4. CASE pc[v] \in Holding \ {"finish"} /\ pc'[v] \in Holding
    <3>1. row'[cur[v]] = "running" /\ cur[v] \notin aged'
      BY <2>2, <2>3, <2>4, Zenon DEF Calm, Prompt
    <3>. QED  BY <2>1, <2>4, <3>1, Zenon DEF Prompt, Holding
  <2>5. CASE pc[v] = "finish" /\ pc'[v] = "finish" /\ run'[v] = run[v]
    <3>1. StatusOf(run[v]) \in Terminal
      BY <2>1, QueuedFree, Zenon
    <3>2. \/ row'[cur[v]] = "running" /\ cur[v] \notin aged'
          \/ row'[cur[v]] = StatusOf(run[v])
      BY <2>2, <2>3, <2>5, <3>1, Zenon DEF Calm, Prompt, Holding, Terminal
    <3>. QED  BY <2>1, <2>5, <3>2, Zenon DEF Prompt, Holding
  <2>6. CASE pc[v] \in {"publish", "webhook"} /\ pc'[v] = pc[v] /\ run'[v] = run[v]
    <3>1. StatusOf(run[v]) \in Terminal
      BY <2>1, QueuedFree, Zenon
    <3>. QED  BY <2>1, <2>2, <2>6, <3>1, Zenon DEF Calm, Prompt, Holding, Terminal
  <2>. QED  BY <2>1, <2>4, <2>5, <2>6, Zenon DEF Working
<1>. QED  BY <1>1, <1>2, Zenon

\* A calm step keeps the invariant.
LEMMA CalmStep ==
  ASSUME TypeInv, SafetyInv, MatchInv, ~LateWork => \A f \in Exec : Calm(f), \A v \in Workers : Onward(v)
  PROVE  MatchInv'
<1>1. ASSUME ~LateWork, NEW v \in Workers PROVE Prompt(v)'
  <2>1. pc[v] \in Working => Calm(cur[v])
    BY <1>1, QueuedFree, Zenon
  <2>. QED  BY <1>1, <2>1, CalmWork, Zenon DEF MatchInv
<1>2. ASSUME ~LateWork, NEW f \in Exec PROVE Matches(f)'
  BY <1>2, CalmRow, Zenon DEF MatchInv
<1>. QED  BY <1>1, <1>2, Zenon DEF MatchInv

\* A step of the one worker that has, or is taking, execution e.
LEMMA OwnStep ==
  ASSUME TypeInv, SafetyInv, MatchInv, NEW w \in Workers, NEW e \in Exec, cur[w] = e,
         \A v \in Workers \ {w} : Onward(v) /\ (pc[v] \in Working => cur[v] # e),
         \A f \in Exec \ {e} : Calm(f),
         ~LateWork => Prompt(w)' /\ Matches(e)'
  PROVE  MatchInv'
<1>1. ASSUME ~LateWork, NEW v \in Workers \ {w} PROVE Prompt(v)'
  <2>1. pc[v] \in Working => Calm(cur[v])
    BY <1>1, QueuedFree, Zenon
  <2>. QED  BY <1>1, <2>1, CalmWork, Zenon DEF MatchInv
<1>2. ASSUME ~LateWork, NEW f \in Exec \ {e} PROVE Matches(f)'
  BY <1>2, CalmRow, Zenon DEF MatchInv
<1>. QED  BY <1>1, <1>2, Zenon DEF MatchInv

\* A write leaves the ages of the rows it does not change.
LEMMA WriteAges ==
  ASSUME NEW r, Write(r), NEW f, r[f] = row[f]
  PROVE  row'[f] = row[f] /\ (f \in aged' => f \in aged)
BY Zenon DEF Write

\* The steps that touch neither the rows nor what is said about them, the calls
\* of handle before finish among them.
LEMMA QuietSteps ==
  ASSUME TypeInv, SafetyInv, MatchInv,
         UNCHANGED <<row, aged, results, events>>, \A v \in Workers : Onward(v)
  PROVE  MatchInv'
<1>1. \A f \in Exec : Calm(f)
  BY Zenon DEF Calm
<1>. QED  BY <1>1, CalmStep, Zenon

\* The steps of a worker that are quiet.
LEMMA QuietWorker ==
  ASSUME TypeInv, SafetyInv, MatchInv, NEW w \in Workers,
         \/ NextMsg(w) \/ Create(w) \/ Start(w) \/ Send(w) \/ Wait(w) \/ Logs(w) \/ Remove(w)
         \/ Ack(w) \/ Nak(w) \/ WorkerExits(w) \/ WorkerReturns(w)
  PROVE  MatchInv'
<1>1. UNCHANGED <<row, aged, results, events>>
  BY Zenon DEF NextMsg, Create, Start, Send, Wait, Logs, Remove, Ack, Nak, WorkerExits, WorkerReturns,
     db, out
<1>2. pc \in [Workers -> Steps] /\ cur \in [Workers -> Msgs \cup {None}] /\ run \in [Workers -> Outcome]
  BY Zenon DEF TypeInv, WorkersInv, WorkersOK
<1>3. CASE NextMsg(w) \/ Ack(w) \/ Nak(w) \/ WorkerExits(w) \/ WorkerReturns(w)
  <2>1. \A v \in Workers \ {w} : pc'[v] = pc[v] /\ cur'[v] = cur[v] /\ run'[v] = run[v]
    BY <1>2, <1>3, Zenon DEF NextMsg, Ack, Nak, WorkerExits, WorkerReturns, Goto, Settle
  <2>2. pc'[w] \in {"ack", "claim", "idle", "off"}
    BY <1>2, <1>3, Zenon DEF NextMsg, Ack, Nak, WorkerExits, WorkerReturns, Goto, Settle
  <2>3. \A v \in Workers : Onward(v)
    BY <2>1, <2>2, Zenon DEF Onward, Working, Holding
  <2>. QED  BY <1>1, <2>3, QuietSteps, Zenon
<1>4. CASE Create(w) \/ Start(w) \/ Send(w) \/ Wait(w) \/ Logs(w) \/ Remove(w)
  <2>1. cur' = cur /\ pc[w] \in Holding \ {"finish"}
    BY <1>4, Zenon DEF Create, Start, Send, Wait, Logs, Remove, Holding
  <2>2. \E l \in Holding : Goto(w, l) /\ (run' = run \/ \E r : run' = [run EXCEPT ![w] = r])
    <3>1. CASE Create(w) \/ Start(w) \/ Send(w)
      BY <3>1, Zenon DEF Create, Start, Send, Return, Holding
    <3>2. CASE Wait(w) \/ Logs(w) \/ Remove(w)
      BY <3>2, Zenon DEF Wait, Logs, Remove, Return, Holding
    <3>. QED  BY <1>4, <3>1, <3>2, Zenon
  <2>3. \A v \in Workers \ {w} : pc'[v] = pc[v] /\ run'[v] = run[v]
    BY <1>2, <2>2, Zenon DEF Goto
  <2>4. pc'[w] \in Holding
    BY <1>2, <2>2, Zenon DEF Goto
  <2>5. \A v \in Workers : Onward(v)
    BY <2>1, <2>3, <2>4, Zenon DEF Onward
  <2>. QED  BY <1>1, <2>5, QuietSteps, Zenon
<1>. QED  BY <1>3, <1>4, Zenon

\* The steps of others that are quiet.
LEMMA QuietOthers ==
  ASSUME TypeInv, SafetyInv, MatchInv,
         \/ \E e \in Exec : PublishSubmit(e) \/ ClientGone(e) \/ GatewayCrash(e) \/ AgeCreated(e) \/ ProgramExits(e)
         \/ \E m \in Poison : PublishPoison(m)
         \/ \E m \in Msgs : AckWaitExpires(m)
         \/ \E w \in Workers, m \in Msgs : Fetch(w, m)
         \/ \E d \in Dispatcher : ReapList(d) \/ Stop(d) \/ Crash(d) \/ Boot(d)
         \/ UNCHANGED vars
  PROVE  MatchInv'
<1>1. UNCHANGED <<row, aged, results, events>>
  BY Zenon DEF PublishSubmit, ClientGone, GatewayCrash, AgeCreated, ProgramExits, PublishPoison, AckWaitExpires,
     Fetch, ReapList, Stop, Crash, Boot, vars, db, out
<1>2. CASE \E d \in Dispatcher : Crash(d) \/ Boot(d)
  <2>1. \A v \in Workers : \/ pc'[v] = pc[v] /\ cur'[v] = cur[v] /\ run'[v] = run[v]
                           \/ pc'[v] \in {"off", "idle"}
    <3>1. ASSUME NEW d \in Dispatcher, Crash(d), NEW v \in Workers
          PROVE  (pc'[v] = pc[v] /\ cur'[v] = cur[v] /\ run'[v] = run[v]) \/ pc'[v] \in {"off", "idle"}
      BY <3>1, Zenon DEF Crash
    <3>2. ASSUME NEW d \in Dispatcher, Boot(d), NEW v \in Workers
          PROVE  (pc'[v] = pc[v] /\ cur'[v] = cur[v] /\ run'[v] = run[v]) \/ pc'[v] \in {"off", "idle"}
      BY <3>2, Zenon DEF Boot
    <3>. QED  BY <1>2, <3>1, <3>2, Zenon
  <2>2. \A v \in Workers : Onward(v)
    BY <2>1, Zenon DEF Onward, Working, Holding
  <2>. QED  BY <1>1, <2>2, QuietSteps, Zenon
<1>3. CASE UNCHANGED wk
  <2>1. \A v \in Workers : Onward(v)
    BY <1>3, Zenon DEF Onward, wk
  <2>. QED  BY <1>1, <2>1, QuietSteps, Zenon
<1>4. (\E d \in Dispatcher : Crash(d) \/ Boot(d)) \/ UNCHANGED wk
  BY Zenon DEF PublishSubmit, ClientGone, GatewayCrash, AgeCreated, ProgramExits, PublishPoison, AckWaitExpires,
     Fetch, ReapList, Stop, vars, wk
<1>. QED  BY <1>2, <1>3, <1>4, Zenon

\* The steps that fail or age rows.
LEMMA ReapSteps ==
  ASSUME TypeInv, SafetyInv, MatchInv,
         \/ \E e \in Exec : FailSubmit(e) \/ AgeUpdated(e)
         \/ \E d \in Dispatcher : ReapRunning(d) \/ ReapMark(d)
  PROVE  MatchInv'
<1>1. UNCHANGED <<results, events>> /\ UNCHANGED wk
  BY Zenon DEF FailSubmit, AgeUpdated, ReapRunning, ReapMark, out
<1>2. \A v \in Workers : Onward(v)
  BY <1>1, Zenon DEF Onward, wk
<1>3. ASSUME NEW e \in Exec, AgeUpdated(e) PROVE MatchInv'
  <2>1. row' = row /\ (~LateWork => ~Live(e)) /\ aged' = aged \cup {e}
    BY <1>3, Zenon DEF AgeUpdated
  <2>2. ~LateWork => \A f \in Exec : Calm(f)
    BY <1>1, <2>1, Zenon DEF Calm
  <2>. QED  BY <1>2, <2>2, CalmStep, Zenon
<1>4. ASSUME NEW r, Write(r),
             \A f \in Exec : \/ r[f] = row[f]
                             \/ r[f] = "failed" /\ row[f] = "queued"
                             \/ r[f] = "failed" /\ row[f] = "running" /\ f \in aged
      PROVE  MatchInv'
  <2>1. \A f \in Exec : Calm(f)
    BY <1>1, <1>4, Zenon DEF Calm, Write
  <2>. QED  BY <1>2, <2>1, CalmStep, Zenon
<1>5. CASE UNCHANGED db
  BY <1>1, <1>2, <1>5, QuietSteps, Zenon DEF db
<1>6. ASSUME NEW e \in Exec
      PROVE  /\ Write(SetExecutionFailed(row, e)) => MatchInv'
             /\ Write(MarkStaleQueuedFailed(row, e)) => MatchInv'
  <2>1. row \in [Exec -> Status]
    BY Zenon DEF TypeInv, RowsOK
  <2>2. \A f \in Exec : /\ \/ SetExecutionFailed(row, e)[f] = row[f]
                           \/ SetExecutionFailed(row, e)[f] = "failed" /\ row[f] = "queued"
                        /\ \/ MarkStaleQueuedFailed(row, e)[f] = row[f]
                           \/ MarkStaleQueuedFailed(row, e)[f] = "failed" /\ row[f] = "queued"
    BY <2>1, Zenon DEF SetExecutionFailed, MarkStaleQueuedFailed
  <2>. QED  BY <1>4, <2>2, Zenon
<1>7. Write(ReapStaleExecutions(row, aged)) => MatchInv'
  <2>1. row \in [Exec -> Status]
    BY Zenon DEF TypeInv, RowsOK
  <2>2. \A f \in Exec : \/ ReapStaleExecutions(row, aged)[f] = row[f]
                        \/ /\ ReapStaleExecutions(row, aged)[f] = "failed"
                           /\ row[f] = "running" /\ f \in aged
    BY <2>1, Zenon DEF ReapStaleExecutions
  <2>. QED  BY <1>4, <2>2, Zenon
<1>8. ASSUME NEW e \in Exec, FailSubmit(e) PROVE MatchInv'
  BY <1>5, <1>6, <1>8, Zenon DEF FailSubmit
<1>9. ASSUME NEW d \in Dispatcher, ReapRunning(d) PROVE MatchInv'
  BY <1>5, <1>7, <1>9, Zenon DEF ReapRunning, db
<1>10. ASSUME NEW d \in Dispatcher, ReapMark(d) PROVE MatchInv'
  <2>1. sel[d] \subseteq Exec
    BY Zenon DEF TypeInv, ProcessesOK
  <2>. QED  BY <1>5, <1>6, <1>10, <2>1, Zenon DEF ReapMark
<1>. QED  BY <1>3, <1>8, <1>9, <1>10, Zenon

\* The insert: nobody has an execution that has no row, and nothing is said.
LEMMA InsertMatch ==
  ASSUME TypeInv, SafetyInv, MatchInv, NEW e \in Exec, Insert(e)
  PROVE  MatchInv'
<1>1. /\ row[e] = "none" /\ results[e] = {} /\ events[e] = {} /\ row \in [Exec -> Status]
      /\ UNCHANGED <<results, events>> /\ UNCHANGED wk
  BY Zenon DEF Insert, SafetyInv, RowInv, TypeInv, RowsOK, out
<1>2. ASSUME NEW v \in Workers, pc[v] \in Working PROVE cur[v] \in Exec /\ cur[v] # e
  <2>1. cur[v] \in Exec /\ WorkInv(v) /\ StatusOf(run[v]) \in Terminal
    BY <1>2, Alone, QueuedFree, Zenon
  <2>. QED  BY <1>1, <1>2, <2>1, Zenon DEF WorkInv, ClaimInv, Working, Holding, Terminal
<1>3. \A f \in Exec \ {e} : Calm(f)
  <2>1. CASE UNCHANGED db
    BY <1>1, <2>1, Zenon DEF Calm, db
  <2>2. CASE Write(CreateExecution(row, e))
    <3>1. \A f \in Exec \ {e} : CreateExecution(row, e)[f] = row[f]
      BY <1>1, Zenon DEF CreateExecution
    <3>. QED  BY <1>1, <2>2, <3>1, WriteAges, Zenon DEF Calm
  <2>. QED  BY <2>1, <2>2, Zenon DEF Insert
<1>4. \A v \in Workers : Onward(v)
  BY <1>1, Zenon DEF Onward, wk
<1>5. ASSUME ~LateWork, NEW v \in Workers PROVE Prompt(v)'
  BY <1>2, <1>3, <1>4, <1>5, CalmWork, Zenon DEF MatchInv
<1>6. ASSUME ~LateWork, NEW f \in Exec PROVE Matches(f)'
  <2>1. CASE f = e
    BY <1>1, <2>1, Zenon DEF Matches
  <2>2. CASE f # e
    BY <1>3, <1>6, <2>2, CalmRow, Zenon DEF MatchInv
  <2>. QED  BY <2>1, <2>2, Zenon
<1>. QED  BY <1>5, <1>6, Zenon DEF MatchInv

\* What a call of handle leaves alone.
LEMMA OwnFrame ==
  ASSUME TypeInv, SafetyInv, NEW w \in Workers, NEW e \in Exec, cur[w] = e,
         Claim(w) \/ Requeue(w) \/ Finish(w) \/ PublishResult(w) \/ DeliverWebhook(w)
  PROVE  /\ \A v \in Workers \ {w} : Onward(v)
         /\ \A f \in Exec \ {e} : Calm(f)
         /\ cur' = cur /\ run' = run /\ row \in [Exec -> Status]
<1>1. cur' = cur /\ run' = run /\ row \in [Exec -> Status]
  BY Zenon DEF Claim, Requeue, Finish, PublishResult, DeliverWebhook, TypeInv, RowsOK
<1>2. \A v \in Workers \ {w} : pc'[v] = pc[v]
  BY Zenon DEF Claim, Requeue, Finish, PublishResult, DeliverWebhook, Goto, TypeInv, WorkersInv, WorkersOK
<1>3. \A f \in Exec \ {e} : results'[f] = results[f] /\ events'[f] = events[f]
  BY Zenon DEF Claim, Requeue, Finish, PublishResult, DeliverWebhook, out, TypeInv, OutputsOK
<1>4. UNCHANGED db \/ \E r : Write(r) /\ \A f \in Exec \ {e} : r[f] = row[f]
  <2>1. CASE Claim(w)
    BY <1>1, <2>1, Zenon DEF Claim, MarkExecutionRunning
  <2>2. CASE Requeue(w)
    BY <1>1, <2>2, Zenon DEF Requeue, RequeueExecution
  <2>3. CASE Finish(w)
    <3>. DEFINE r == FinishExecution(row, e, StatusOf(run[w]))
    <3>1. UNCHANGED db \/ Write(r)
      BY <2>3, Zenon DEF Finish
    <3>2. \A f \in Exec \ {e} : r[f] = row[f]
      BY <1>1, Zenon DEF FinishExecution
    <3>. QED  BY <3>1, <3>2, Zenon
  <2>4. CASE PublishResult(w) \/ DeliverWebhook(w)
    BY <2>4, Zenon DEF PublishResult, DeliverWebhook
  <2>. QED  BY <2>1, <2>2, <2>3, <2>4, Zenon
<1>5. \A f \in Exec \ {e} : row'[f] = row[f] /\ (f \in aged' => f \in aged)
  BY <1>4, WriteAges, Zenon DEF db
<1>6. \A v \in Workers \ {w} : Onward(v)
  BY <1>1, <1>2, Zenon DEF Onward
<1>. QED  BY <1>1, <1>3, <1>5, <1>6, Zenon DEF Calm

\* The claim: the row becomes young, and nothing was said about it.
LEMMA ClaimMatch ==
  ASSUME TypeInv, SafetyInv, MatchInv, NEW w \in Workers, NEW e \in Exec, cur[w] = e, Claim(w)
  PROVE  MatchInv'
<1>1. /\ \A v \in Workers \ {w} : Onward(v)
      /\ \A f \in Exec \ {e} : Calm(f)
      /\ cur' = cur /\ row \in [Exec -> Status]
  BY OwnFrame, Zenon
<1>2. UNCHANGED <<results, events>> /\ pc \in [Workers -> Steps]
  BY Zenon DEF Claim, out, TypeInv, WorkersInv, WorkersOK
<1>3. CASE row[e] # "queued"
  <2>1. pc'[w] \in {"ack", "nak"} /\ row'[e] = row[e] /\ (e \in aged' => e \in aged)
    <3>1. MarkExecutionRunning(row, e)[e] = row[e]
      BY <1>1, <1>3, Zenon DEF MarkExecutionRunning, Claimable
    <3>2. row'[e] = row[e] /\ (e \in aged' => e \in aged)
      BY <3>1, WriteAges, Zenon DEF Claim, db
    <3>3. pc'[w] \in {"ack", "nak"}
      BY <1>2, <1>3, Zenon DEF Claim, Goto, Claimable
    <3>. QED  BY <3>2, <3>3, Zenon
  <2>2. Calm(e) /\ Onward(w)
    BY <1>2, <2>1, Zenon DEF Calm, Onward, Working, Holding
  <2>. QED  BY <1>1, <2>2, CalmStep, Zenon
<1>4. CASE row[e] = "queued"
  <2>1. \A v \in Workers \ {w} : pc[v] \in Working => cur[v] # e
    BY <1>4, QueuedFree, Zenon
  <2>2. Matches(e)'
    BY <1>2, <1>4, Zenon DEF Matches, SafetyInv, RowInv
  <2>3. pc'[w] = "nak" \/ (pc'[w] = "create" /\ row'[e] = "running" /\ e \notin aged')
    <3>1. MarkExecutionRunning(row, e)[e] = "running"
      BY <1>1, <1>4, Zenon DEF MarkExecutionRunning, Claimable
    <3>2. Write(MarkExecutionRunning(row, e)) => row'[e] = "running" /\ e \notin aged'
      BY <1>4, <3>1, Zenon DEF Write
    <3>. QED  BY <1>2, <1>4, <3>2, Zenon DEF Claim, Goto, Claimable
  <2>4. Prompt(w)'
    BY <1>1, <2>3, Zenon DEF Prompt, Holding
  <2>. QED  BY <1>1, <2>1, <2>2, <2>4, OwnStep, Zenon
<1>. QED  BY <1>3, <1>4, Zenon

\* The requeue: nothing was said yet.
LEMMA RequeueMatch ==
  ASSUME TypeInv, SafetyInv, MatchInv, NEW w \in Workers, NEW e \in Exec, cur[w] = e, Requeue(w)
  PROVE  MatchInv'
<1>1. pc[w] = "requeue" /\ pc[w] \in Working /\ pc[w] # "webhook"
  BY Zenon DEF Requeue, Working, Holding
<1>2. /\ \A v \in Workers \ {w} : Onward(v)
      /\ \A f \in Exec \ {e} : Calm(f)
  BY OwnFrame, Zenon
<1>3. UNCHANGED <<results, events>> /\ pc'[w] = "nak"
  BY Zenon DEF Requeue, out, Goto, TypeInv, WorkersInv, WorkersOK
<1>4. WorkInv(w) /\ \A v \in Workers \ {w} : pc[v] \in Working => cur[v] # e
  BY <1>1, Alone, Zenon
<1>5. results[e] = {} /\ events[e] = {}
  BY <1>1, <1>4, Zenon DEF WorkInv, SaidInv
<1>6. Matches(e)' /\ Prompt(w)'
  BY <1>3, <1>5, Zenon DEF Matches, Prompt, Holding
<1>. QED  BY <1>2, <1>4, <1>6, OwnStep, Zenon

\* finish: the row is young when it is written, so that the guard of the
\* statement holds, or the status is already there.
LEMMA FinishMatch ==
  ASSUME TypeInv, SafetyInv, MatchInv, NEW w \in Workers, NEW e \in Exec, cur[w] = e, Finish(w)
  PROVE  MatchInv'
<1>. DEFINE s == StatusOf(run[w])
<1>1. pc[w] = "finish" /\ pc[w] \in Working /\ pc[w] # "webhook"
  BY Zenon DEF Finish, Working, Holding
<1>2. /\ \A v \in Workers \ {w} : Onward(v)
      /\ \A f \in Exec \ {e} : Calm(f)
      /\ cur' = cur /\ run' = run /\ row \in [Exec -> Status]
  BY OwnFrame, Zenon
<1>3. /\ WorkInv(w) /\ s \in Terminal
      /\ \A v \in Workers \ {w} : pc[v] \in Working => cur[v] # e
  BY <1>1, Alone, QueuedFree, Zenon
<1>4. UNCHANGED <<results, events>> /\ results[e] = {} /\ events[e] = {}
  BY <1>1, <1>3, Zenon DEF WorkInv, SaidInv, Finish, out
<1>5. Matches(e)'
  BY <1>4, Zenon DEF Matches
<1>6. /\ Write(FinishExecution(row, e, s)) \/ UNCHANGED db
      /\ pc'[w] \in {"finish", "publish", "webhook", "nak"}
      /\ pc'[w] = "publish" => Write(FinishExecution(row, e, s))
      /\ pc'[w] = "webhook" => run[w].err = "runner"
  BY Zenon DEF Finish, Goto, GiveUp, TypeInv, WorkersInv, WorkersOK
<1>7. s \notin {"running", "queued"} /\ (run[w].err = "runner" => s = "failed")
  BY <1>3, Zenon DEF Terminal, StatusOf
<1>8. ASSUME ~LateWork
      PROVE  /\ row'[e] = s \/ (row'[e] = "running" /\ e \notin aged')
             /\ Write(FinishExecution(row, e, s)) => row'[e] = s
  <2>1. (row[e] = "running" /\ e \notin aged) \/ row[e] = s
    BY <1>1, <1>8, Zenon DEF MatchInv, Prompt
  <2>2. FinishExecution(row, e, s)[e] = s
    BY <1>2, <2>1, Zenon DEF FinishExecution
  <2>3. Write(FinishExecution(row, e, s)) => row'[e] = s
    BY <2>2, Zenon DEF Write
  <2>. QED  BY <1>6, <2>1, <2>3, Zenon DEF db
<1>9. ~LateWork => Prompt(w)'
  BY <1>2, <1>6, <1>7, <1>8, Zenon DEF Prompt, Holding
<1>. QED  BY <1>2, <1>3, <1>5, <1>9, OwnStep, Zenon

\* PublishResult and DeliverWebhook say the status that the row has, or, for a
\* failure that was not written, will have.
LEMMA SayMatch ==
  ASSUME TypeInv, SafetyInv, MatchInv, NEW w \in Workers, NEW e \in Exec, cur[w] = e,
         PublishResult(w) \/ DeliverWebhook(w)
  PROVE  MatchInv'
<1>. DEFINE s == StatusOf(run[w])
<1>1. pc[w] \in {"publish", "webhook"} /\ pc[w] \in Working
  BY Zenon DEF PublishResult, DeliverWebhook, Working
<1>2. /\ \A v \in Workers \ {w} : Onward(v)
      /\ \A f \in Exec \ {e} : Calm(f)
      /\ cur' = cur /\ run' = run
  BY OwnFrame, Zenon
<1>3. /\ WorkInv(w) /\ \A v \in Workers \ {w} : pc[v] \in Working => cur[v] # e
  BY <1>1, Alone, Zenon
<1>4. UNCHANGED <<row, aged>> /\ events[e] = {} /\ results \in [Exec -> SUBSET Terminal]
      /\ events \in [Exec -> SUBSET Terminal] /\ pc \in [Workers -> Steps]
  BY <1>1, <1>3, Zenon DEF PublishResult, DeliverWebhook, db, WorkInv, SaidInv, TypeInv, OutputsOK, WorkersInv,
     WorkersOK
<1>5. ASSUME ~LateWork, PublishResult(w) PROVE Prompt(w)' /\ Matches(e)'
  <2>1. row[e] = s /\ results[e] = {}
    BY <1>3, <1>5, Zenon DEF PublishResult, MatchInv, Prompt, WorkInv, SaidInv, Working
  <2>2. pc'[w] = "webhook" /\ events' = events
    BY <1>4, <1>5, Zenon DEF PublishResult, Goto
  <2>3. results'[e] \subseteq {s}
    BY <1>4, <1>5, <2>1, Zenon DEF PublishResult
  <2>4. Prompt(w)'
    BY <1>2, <1>4, <2>1, <2>2, Zenon DEF Prompt, Holding
  <2>. QED  BY <1>4, <2>1, <2>2, <2>3, <2>4, Zenon DEF Matches
<1>6. ASSUME ~LateWork, DeliverWebhook(w) PROVE Prompt(w)' /\ Matches(e)'
  <2>1. row[e] = s \/ (row[e] = "running" /\ s = "failed")
    BY <1>6, Zenon DEF DeliverWebhook, MatchInv, Prompt
  <2>2. pc'[w] = "ack" /\ results' = results
    BY <1>4, <1>6, Zenon DEF DeliverWebhook, Goto
  <2>3. events'[e] \subseteq {s}
    BY <1>4, <1>6, Zenon DEF DeliverWebhook, EventStatus
  <2>4. Prompt(w)'
    BY <2>2, Zenon DEF Prompt, Holding
  <2>5. results[e] \subseteq {row[e]}
    BY <1>6, Zenon DEF MatchInv, Matches
  <2>. QED  BY <1>4, <2>1, <2>2, <2>3, <2>4, <2>5, Zenon DEF Matches
<1>. QED  BY <1>2, <1>3, <1>5, <1>6, OwnStep, Zenon

\* Nothing is said and nobody works at the start.
LEMMA MatchInit == Init => MatchInv
<1>. SUFFICES ASSUME Init PROVE MatchInv
  OBVIOUS
<1>1. \A w \in Workers : pc[w] = "idle"
  BY Zenon DEF Init
<1>2. \A e \in Exec : results[e] = {} /\ events[e] = {}
  BY Zenon DEF Init
<1>. QED  BY <1>1, <1>2, Zenon DEF MatchInv, Prompt, Matches, Holding

\* Every step keeps the invariant.
LEMMA MatchNext == TypeInv /\ SafetyInv /\ MatchInv /\ [Next]_vars => MatchInv'
<1>. SUFFICES ASSUME TypeInv, SafetyInv, MatchInv, [Next]_vars PROVE MatchInv'
  OBVIOUS
<1>1. ASSUME NEW w \in Workers, Worker(w) PROVE MatchInv'
  <2>1. CASE \/ Claim(w) \/ Requeue(w) \/ Finish(w) \/ PublishResult(w) \/ DeliverWebhook(w)
    <3>1. cur[w] \in Exec
      BY <2>1, Zenon DEF Claim, Requeue, Finish, PublishResult, DeliverWebhook, Holding, TypeInv, WorkersInv,
         WorkersOK
    <3>. QED  BY <2>1, <3>1, ClaimMatch, RequeueMatch, FinishMatch, SayMatch, Zenon
  <2>. QED  BY <1>1, <2>1, QuietWorker, Zenon DEF Worker
<1>2. ASSUME NEW e \in Exec, Gateway(e) PROVE MatchInv'
  BY <1>2, InsertMatch, QuietOthers, ReapSteps, Zenon DEF Gateway
<1>3. ASSUME NEW d \in Dispatcher, ReaperOf(d) PROVE MatchInv'
  BY <1>3, QuietOthers, ReapSteps, Zenon DEF ReaperOf
<1>4. ASSUME NEW w \in Workers, WorkerReturns(w) PROVE MatchInv'
  BY <1>4, QuietWorker, Zenon
<1>. QED  BY <1>1, <1>2, <1>3, <1>4, QuietOthers, ReapSteps, Zenon DEF Next

\* Under the margins of Deadlines (LateWork FALSE), what PublishResult and the
\* webhook say of an execution is what its row says, whatever else fails.
THEOREM ResultsMatch == Spec => [](~LateWork => ResultMatchesRow)
<1>1. MatchInv => (~LateWork => ResultMatchesRow)
  BY Zenon DEF MatchInv, Matches, ResultMatchesRow
<1>. QED  BY <1>1, MatchInit, MatchNext, Safety, PTL DEF Spec
=============================================================================
