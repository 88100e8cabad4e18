----------------------------- MODULE Deadlines -----------------------------
(***************************************************************************)
(* The clocks of one execution: the consumer's AckWait, NAK delay and      *)
(* MaxDeliver, the time limits of a run, the retries of its webhook, and   *)
(* the ages at which the reaper gives the row up.  Dispatch abstracts them *)
(* to two facts (LateWork = FALSE): live work is never reaped, and a       *)
(* queued row is reaped only when no delivery is left.  This module says   *)
(* which relations between the settings make those facts true.             *)
(*                                                                         *)
(* Time is counted in ticks, Second of them to a second, and is zero when  *)
(* the row is inserted (created_at).  Whatever has a deadline is in        *)
(* progress until then at the latest: Tick waits for it.                   *)
(***************************************************************************)
EXTENDS Integers

CONSTANTS
  Second,           \* ticks to a second
  MaxDeliver,       \* maxDeliver (5)
  AckWait,          \* ackWait (90 s)
  NakDelay,         \* nakDelay (5 s)
  PublishLag,       \* at most this long from the insert to the publish
  PullWait,         \* at most this long from a message being due to its delivery
  RunMax,           \* longest Runner.Run: start-up, timeout_s, kill, logs
  FinishMax,        \* longest finish: its attempts and backoff
  PostMax,          \* the webhook client's Timeout (10 s)
  RetryDelay,       \* a wait between two POSTs (retryDelays: 1 s, 5 s)
  Retries,          \* len(retryDelays) (2)
  StaleAfter,       \* REAP_STALE_AFTER (5 m)
  StaleQueuedAfter, \* STALE_QUEUED_AFTER (10 m)
  SweepEvery,       \* longest time between two sweeps that reach Postgres
  MaxTime           \* bound on the clock

ASSUME DeadlineAssumption ==
  /\ Second \in Nat \ {0} /\ MaxDeliver \in Nat \ {0} /\ Retries \in Nat
  /\ AckWait \in Nat \ {0} /\ NakDelay \in Nat /\ PublishLag \in Nat /\ PullWait \in Nat
  /\ RunMax \in Nat /\ FinishMax \in Nat /\ PostMax \in Nat /\ RetryDelay \in Nat
  /\ StaleAfter \in Nat /\ StaleQueuedAfter \in Nat /\ SweepEvery \in Nat \ {0}
  /\ MaxTime \in Nat

VARIABLES
  now,
  row,      \* status; "stale" and "reaped" are "failed" by one sweep or the other
  updated,  \* updated_at
  msg,      \* the submit message: "none", "ready", "out", "gone"
  msgDue,   \* when it is published, delivered or redelivered at the latest
  num,      \* deliveries so far
  st,       \* the stage of each delivery
  due,      \* when the stage ends at the latest
  posts,    \* POSTs to the webhook so far
  swept     \* the time of the last sweep

vars == <<now, row, updated, msg, msgDue, num, st, due, posts, swept>>
queue == <<msg, msgDue, num>>

Delivery == 1..MaxDeliver
\* Stages that end by themselves.  A delivery waits in its worker's iterator
\* ("buffered") for as long as the worker is busy with others.
Timed == {"run", "finish", "post", "wait", "nak"}
Stage == Timed \cup {"none", "buffered", "acked", "naked", "lost"}

\* The type invariant: no delivery beyond MaxDeliver.
TypeOK ==
  /\ now \in Nat /\ updated \in Nat /\ swept \in Nat /\ posts \in Nat
  /\ row \in {"queued", "running", "done", "stale", "reaped"}
  /\ msg \in {"none", "ready", "out", "gone"} /\ msgDue \in Nat /\ num \in 0..MaxDeliver
  /\ st \in [Delivery -> Stage] /\ due \in [Delivery -> Nat]

Init ==
  /\ now = 0 /\ row = "queued" /\ updated = 0
  /\ msg = "none" /\ msgDue = PublishLag /\ num = 0
  /\ st = [d \in Delivery |-> "none"] /\ due = [d \in Delivery |-> 0]
  /\ posts = 0 /\ swept = 0

Enter(d, stage, last) == st' = [st EXCEPT ![d] = stage] /\ due' = [due EXCEPT ![d] = last]
Leave(d, stage) == Enter(d, stage, 0)
Settle == msg' = "gone" /\ msgDue' = 0

-----------------------------------------------------------------------------
\* The queue.

\* The publish succeeds, or the message is lost with the gateway.
Publish ==
  /\ msg = "none"
  /\ \/ msg' = "ready" /\ msgDue' = now + PullWait
     \/ Settle
  /\ UNCHANGED <<now, row, updated, num, st, due, posts, swept>>

Deliver ==
  /\ msg = "ready"
  /\ msg' = "out" /\ msgDue' = now + AckWait /\ num' = num + 1
  /\ Leave(num + 1, "buffered")
  /\ UNCHANGED <<now, row, updated, posts, swept>>

\* AckWait or the delay of a NAK is over; JetStream gives up at MaxDeliver.
AckWaitExpires_Mutant ==
  /\ msg = "out" /\ now = msgDue
  /\ \/ num <= MaxDeliver /\ msg' = "ready" /\ msgDue' = now + PullWait
     \/ num > MaxDeliver /\ Settle
  /\ UNCHANGED <<now, row, updated, num, st, due, posts, swept>>
AckWaitExpires ==
  /\ msg = "out" /\ now = msgDue
  /\ \/ num < MaxDeliver /\ msg' = "ready" /\ msgDue' = now + PullWait
     \/ num >= MaxDeliver /\ Settle
  /\ UNCHANGED <<now, row, updated, num, st, due, posts, swept>>

\* An ack of any delivery settles the message.
Ack(d) == Leave(d, "acked") /\ Settle /\ UNCHANGED num

\* NakWithDelay sets the timer of a message that is out.  (The mutant restarts
\* AckWait before the delay.)
Nak_Mutant(d) ==
  /\ st[d] = "nak" /\ Leave(d, "naked")
  /\ msgDue' = IF msg = "out" THEN now + AckWait + NakDelay ELSE msgDue
  /\ UNCHANGED <<now, row, updated, msg, num, posts, swept>>
Nak(d) ==
  /\ st[d] = "nak" /\ Leave(d, "naked")
  /\ msgDue' = IF msg = "out" THEN now + NakDelay ELSE msgDue
  /\ UNCHANGED <<now, row, updated, msg, num, posts, swept>>

-----------------------------------------------------------------------------
\* A worker's handle of one delivery.

\* MarkExecutionRunning: the claim, or no row and an ack, or an error (with
\* the claim made or not) and a NAK.
Claim(d) ==
  /\ st[d] = "buffered"
  /\ \/ /\ row = "queued" /\ row' = "running" /\ updated' = now
        /\ Enter(d, "run", now + RunMax) /\ UNCHANGED queue
     \/ row # "queued" /\ Ack(d) /\ UNCHANGED <<row, updated>>
     \/ Enter(d, "nak", now) /\ UNCHANGED <<row, updated, queue>>
     \/ /\ row = "queued" /\ row' = "running" /\ updated' = now
        /\ Enter(d, "nak", now) /\ UNCHANGED queue
  /\ UNCHANGED <<now, posts, swept>>

\* Run failed before the container started: give the row back and NAK.  The
\* requeue itself may fail.
Requeue(d) ==
  /\ st[d] = "run" /\ Enter(d, "nak", now)
  /\ \/ row = "running" /\ row' = "queued" /\ updated' = now
     \/ UNCHANGED <<row, updated>>
  /\ UNCHANGED <<now, queue, posts, swept>>

RunReturns(d) ==
  /\ st[d] = "run" /\ Enter(d, "finish", now + FinishMax)
  /\ UNCHANGED <<now, row, updated, queue, posts, swept>>

\* Deliver starts with the first POST, or refuses the URL or the missing
\* secret, and handle acks.
StartDeliver(d) ==
  \/ Enter(d, "post", now + PostMax) /\ posts' = posts + 1 /\ UNCHANGED queue
  \/ Ack(d) /\ UNCHANGED posts

\* finish writes the result, or runs out of attempts, the last of which may have
\* written it: then a result is NAKed, while the failure of a runner error is
\* dropped.
Finish(d) ==
  /\ st[d] = "finish"
  /\ \/ /\ row' = IF row = "running" THEN "done" ELSE row
        /\ updated' = IF row = "running" THEN now ELSE updated
     \/ UNCHANGED <<row, updated>>
  /\ StartDeliver(d) \/ (Enter(d, "nak", now) /\ UNCHANGED <<queue, posts>>)
  /\ UNCHANGED <<now, swept>>

\* deliverOnce returned.  A 2xx or a status that is not worth retrying ends
\* the delivery; a transport error, a 5xx or a 429 is retried after a delay,
\* at most Retries times.
PostReturns_Mutant(d) ==
  /\ st[d] = "post"
  /\ \/ Ack(d)
     \/ posts <= Retries + 1 /\ Enter(d, "wait", now + RetryDelay) /\ UNCHANGED queue
  /\ UNCHANGED <<now, row, updated, posts, swept>>
PostReturns(d) ==
  /\ st[d] = "post"
  /\ \/ Ack(d)
     \/ posts <= Retries /\ Enter(d, "wait", now + RetryDelay) /\ UNCHANGED queue
  /\ UNCHANGED <<now, row, updated, posts, swept>>

PostAgain(d) ==
  /\ st[d] = "wait" /\ now = due[d]
  /\ Enter(d, "post", now + PostMax) /\ posts' = posts + 1
  /\ UNCHANGED <<now, row, updated, queue, swept>>

\* The worker's process crashes or is told to stop.
Die(d) ==
  /\ st[d] \in Timed \cup {"buffered"} /\ Leave(d, "lost")
  /\ UNCHANGED <<now, row, updated, queue, posts, swept>>

-----------------------------------------------------------------------------
\* The reaper.

\* int32(d / time.Second) drops the fraction of a second.
Secs(t) == t \div Second

\* Older than make_interval(secs).  (The mutant hands over the ticks.)
OlderThan_Mutant(t, limit) == now - t > limit * Second
OlderThan(t, limit) == now - t > Secs(limit) * Second

\* reapOnce: first the running rows, then, unless it is disabled, the queued
\* ones.  The mutant measures a running row from its insert.
Sweep_Mutant ==
  /\ swept' = now
  /\ row' = CASE row = "running" /\ OlderThan(0, StaleAfter) -> "reaped"
              [] row = "queued" /\ StaleQueuedAfter > 0 /\ OlderThan(0, StaleQueuedAfter) -> "stale"
              [] OTHER -> row
  /\ updated' = IF row' # row THEN now ELSE updated
  /\ UNCHANGED <<now, queue, st, due, posts>>
Sweep ==
  /\ swept' = now
  /\ row' = CASE row = "running" /\ OlderThan(updated, StaleAfter) -> "reaped"
              [] row = "queued" /\ StaleQueuedAfter > 0 /\ OlderThan(0, StaleQueuedAfter) -> "stale"
              [] OTHER -> row
  /\ updated' = IF row' # row THEN now ELSE updated
  /\ UNCHANGED <<now, queue, st, due, posts>>

\* Time passes unless something is due.
Tick ==
  /\ \A d \in Delivery : st[d] \in Timed => now < due[d]
  /\ msg # "gone" => now < msgDue
  /\ now < swept + SweepEvery /\ now < MaxTime
  /\ now' = now + 1
  /\ UNCHANGED <<row, updated, queue, st, due, posts, swept>>

Next ==
  \/ Publish \/ Deliver \/ AckWaitExpires \/ Sweep \/ Tick
  \/ \E d \in Delivery :
       \/ Claim(d) \/ Requeue(d) \/ RunReturns(d) \/ Finish(d)
       \/ PostReturns(d) \/ PostAgain(d) \/ Nak(d) \/ Die(d)

Spec == Init /\ [][Next]_vars

-----------------------------------------------------------------------------
\* StaleAfter, in whole seconds, covers the longest run and the write of its
\* result ("must comfortably exceed the maximum timeout_s plus sandbox
\* startup", reaper.go).
RunMargin == RunMax + FinishMax <= Secs(StaleAfter) * Second

\* The reaper never fails a row whose worker still runs the code or writes the
\* result: what Dispatch assumes with LateWork = FALSE.
LiveWorkKept ==
  RunMargin => \A d \in Delivery : st[d] \in {"run", "finish"} => row = "running"

\* StaleQueuedAfter, in whole seconds, covers every delivery with its wait in
\* the stream, its AckWait and the delay of a NAK.
Cycle == PullWait + AckWait + NakDelay
QueuedMargin == PublishLag + MaxDeliver * Cycle <= Secs(StaleQueuedAfter) * Second

\* "A message still being redelivered is not failed out from under its own
\* retry" (reaper.go): once the sweep has failed the queued row, JetStream
\* delivers its message no more.
RetryKept == QueuedMargin => (row = "stale" => msg = "gone")

\* However often the message is redelivered, requeued or NAKed, the receiver
\* sees at most len(retryDelays)+1 POSTs for an execution.
PostsBounded == posts <= Retries + 1

\* A row, and with it an active slot of its tenant's quota, is settled by a
\* fixed time after the insert: it ages in the queue, is claimed and given
\* back once per delivery at most, and ages once more when its last worker died.
SettleBy ==
  Secs(StaleQueuedAfter) * Second + SweepEvery + (MaxDeliver - 1) * (RunMax + SweepEvery)
    + Secs(StaleAfter) * Second + SweepEvery
SettledInTime ==
  StaleQueuedAfter > 0 /\ now > SettleBy => row \notin {"queued", "running"}
=============================================================================
