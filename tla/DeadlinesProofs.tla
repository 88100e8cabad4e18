--------------------------- MODULE DeadlinesProofs ---------------------------
(***************************************************************************)
(* Proofs about Deadlines, for all settings and any number of deliveries:  *)
(* which settings keep the reaper off live work, how long a message can be *)
(* redelivered, and how long a row can stay unsettled.  The inductive      *)
(* invariant says that nothing is overdue, that at most one delivery works *)
(* on the row, and that a message is due within what its deliveries and    *)
(* their NAKs add up to; SettleInv adds the age of the row.                *)
(***************************************************************************)
EXTENDS Deadlines, FiniteSetTheorems, TLAPS

\* Nothing is overdue.
OnTime ==
  /\ \A d \in Delivery : st[d] \in Timed => now <= due[d]
  /\ msg # "gone" => now <= msgDue

\* One delivery works on the row at most, and once a POST was made the row is
\* never given back.
Working == {"run", "finish", "post", "wait"}
Sole ==
  /\ \A d, e \in Delivery : st[d] \in Working /\ st[e] \in Working => d = e
  /\ \A d \in Delivery :
       /\ st[d] \in Working => row # "queued"
       /\ st[d] = "wait" => posts <= Retries
       /\ posts > 0 => st[d] \notin {"run", "finish"}
  /\ posts > 0 => row # "queued"
  /\ posts <= Retries + 1

\* Work is counted from the claim.
Claimed ==
  RunMargin => \A d \in Delivery :
    /\ st[d] \in {"run", "finish"} => row = "running"
    /\ st[d] = "run" => due[d] <= updated + RunMax
    /\ st[d] = "finish" => due[d] <= updated + RunMax + FinishMax

\* A message is delivered, and waits for its ack, num times, and each of its
\* deliveries is NAKed once at most.
Naked == {d \in Delivery : st[d] = "naked"}
Budget(n, k) == PublishLag + n * (PullWait + AckWait) + k * NakDelay
Queued ==
  /\ \A d \in Delivery : d > num => st[d] = "none"
  /\ msg = "none" => num = 0 /\ msgDue = PublishLag
  /\ msg = "ready" => num < MaxDeliver /\ msgDue <= Budget(num, Cardinality(Naked)) + PullWait
  /\ msg = "out" => msgDue <= Budget(num, Cardinality(Naked))

Inv == TypeOK /\ OnTime /\ Sole /\ Claimed /\ Queued /\ RetryKept
-----------------------------------------------------------------------------
(* Arithmetic                                                               *)

\* The ages the reaper hands over are natural numbers.
LEMMA SecsNat == ASSUME NEW t \in Nat PROVE Secs(t) * Second \in Nat
<1>1. Secs(t) \in Nat
  BY DeadlineAssumption DEF Secs
<1> QED
  BY <1>1, DeadlineAssumption

\* What one more delivery and one more NAK add to the budget of a message.
LEMMA BudgetGrows ==
  ASSUME NEW n \in Nat, NEW k \in Nat
  PROVE  /\ Budget(n, k) \in Nat
         /\ Budget(n + 1, k) = Budget(n, k) + PullWait + AckWait
         /\ Budget(n, k + 1) = Budget(n, k) + NakDelay
         /\ n = 0 => Budget(n, k) >= PublishLag
<1> DEFINE w == PullWait + AckWait
<1>1. w \in Nat /\ NakDelay \in Nat /\ PublishLag \in Nat
  BY DeadlineAssumption
<1> HIDE DEF w
<1>2. n * w \in Nat /\ k * NakDelay \in Nat
  BY <1>1
<1>3. (n + 1) * w = n * w + w /\ (k + 1) * NakDelay = k * NakDelay + NakDelay
  BY <1>1
<1>4. /\ Budget(n, k) = PublishLag + n * w + k * NakDelay
      /\ Budget(n + 1, k) = PublishLag + (n + 1) * w + k * NakDelay
      /\ Budget(n, k + 1) = PublishLag + n * w + (k + 1) * NakDelay
  BY Zenon DEF Budget, w
<1>5. w = PullWait + AckWait /\ PullWait \in Nat /\ AckWait \in Nat
  BY DeadlineAssumption, Zenon DEF w
<1> QED
  BY <1>1, <1>2, <1>3, <1>4, <1>5

\* The budget of a message is at most what MaxDeliver cycles take.
LEMMA BudgetBounded ==
  ASSUME NEW n \in Nat, NEW k \in Nat, k <= n, n <= MaxDeliver
  PROVE  Budget(n, k) <= PublishLag + MaxDeliver * Cycle
<1> DEFINE w == PullWait + AckWait
<1>1. w \in Nat /\ NakDelay \in Nat /\ PublishLag \in Nat /\ MaxDeliver \in Nat
  BY DeadlineAssumption
<1> HIDE DEF w
<1>2. n * w <= MaxDeliver * w /\ k * NakDelay <= MaxDeliver * NakDelay
  BY <1>1
<1>3. n * w \in Nat /\ k * NakDelay \in Nat /\ MaxDeliver * w \in Nat /\ MaxDeliver * NakDelay \in Nat
  BY <1>1
<1>4. MaxDeliver * (w + NakDelay) = MaxDeliver * w + MaxDeliver * NakDelay
  BY <1>1
<1>5. Budget(n, k) = PublishLag + n * w + k * NakDelay /\ Cycle = w + NakDelay
  BY Zenon DEF Budget, w, Cycle
<1> QED
  BY <1>1, <1>2, <1>3, <1>4, <1>5

\* A NAKed delivery is one of the num that were made.
LEMMA NakedCount ==
  ASSUME TypeOK, Queued
  PROVE  IsFiniteSet(Naked) /\ Cardinality(Naked) \in Nat /\ Cardinality(Naked) <= num
<1>1. num \in Nat /\ Naked \subseteq 1..num
  BY DeadlineAssumption DEF TypeOK, Queued, Naked, Delivery
<1>2. IsFiniteSet(1..num) /\ Cardinality(1..num) = num
  BY <1>1, FS_Interval
<1> QED
  BY <1>1, <1>2, FS_Subset, FS_CardinalityType, Zenon
-----------------------------------------------------------------------------
(* Steps                                                                    *)

\* What Enter changes.
LEMMA Entered ==
  ASSUME TypeOK, NEW d \in Delivery, NEW s \in Stage, NEW last \in Nat, Enter(d, s, last)
  PROVE  /\ st' \in [Delivery -> Stage] /\ due' \in [Delivery -> Nat]
         /\ st'[d] = s /\ due'[d] = last
         /\ \A e \in Delivery \ {d} : st'[e] = st[e] /\ due'[e] = due[e]
  BY Zenon DEF TypeOK, Enter

\* A worker's step: what it does not decide by its own stage.
LEMMA WorkerStep ==
  ASSUME Inv, NEW d \in Delivery, st[d] \in Timed \cup {"buffered"},
         NEW s \in Stage \ {"none", "naked"}, NEW last \in Nat, Enter(d, s, last),
         s \in Timed => now <= last, UNCHANGED <<now, swept>>,
         UNCHANGED queue \/ (Settle /\ UNCHANGED num),
         row' \in {"queued", "running", "done", "stale", "reaped"}, updated' \in Nat, posts' \in Nat,
         row' = "stale" => row = "stale", Sole', Claimed'
  PROVE  Inv'
<1>1. /\ st' \in [Delivery -> Stage] /\ due' \in [Delivery -> Nat]
      /\ st'[d] = s /\ due'[d] = last
      /\ \A e \in Delivery \ {d} : st'[e] = st[e] /\ due'[e] = due[e]
  BY Entered, Zenon DEF Inv
<1>2. /\ num' = num /\ (msg' = "gone" \/ (msg' = msg /\ msgDue' = msgDue))
      /\ msg' \in {"none", "ready", "out", "gone"} /\ msgDue' \in Nat
  BY DEF Inv, TypeOK, queue, Settle
<1>3. TypeOK'
  BY <1>1, <1>2, Zenon DEF Inv, TypeOK
<1>4. OnTime'
  BY <1>1, <1>2, Zenon DEF Inv, OnTime
<1>5. Queued'
  <2>1. Naked' = Naked
    BY <1>1, Zenon DEF Naked, Timed
  <2>2. ASSUME NEW e \in Delivery, e > num' PROVE st'[e] = "none"
    <3>1. st[e] = "none"
      BY <1>2, <2>2, Zenon DEF Inv, Queued
    <3>2. e # d
      BY <3>1, Zenon DEF Timed
    <3> QED
      BY <1>1, <3>1, <3>2, Zenon
  <2> QED
    BY <1>2, <2>1, <2>2, Zenon DEF Inv, Queued
<1>6. RetryKept'
  BY <1>2, Zenon DEF Inv, RetryKept
<1> QED
  BY <1>3, <1>4, <1>5, <1>6, Zenon DEF Inv

\* A worker's step that leaves the row alone or was the only one to work on
\* it, and does no more work afterwards.
LEMMA DropStep ==
  ASSUME Inv, NEW d \in Delivery, st[d] \in Timed \cup {"buffered"},
         NEW s \in {"nak", "acked", "lost"}, NEW last \in Nat, Enter(d, s, last),
         s = "nak" => now <= last, UNCHANGED <<now, swept, posts>>,
         UNCHANGED queue \/ (Settle /\ UNCHANGED num),
         \/ UNCHANGED <<row, updated>>
         \/ st[d] = "buffered" /\ row = "queued" /\ row' = "running" /\ updated' = now
         \/ st[d] = "run" /\ row = "running" /\ row' = "queued" /\ updated' = now
         \/ st[d] = "finish" /\ row = "running" /\ row' = "done" /\ updated' = now
  PROVE  Inv'
<1>1. /\ st'[d] = s /\ \A e \in Delivery \ {d} : st'[e] = st[e] /\ due'[e] = due[e]
      /\ s \in Stage \ {"none", "naked"} /\ (s \in Timed => s = "nak")
  BY Entered, Zenon DEF Inv, Stage, Timed
<1>2. Sole'
  BY <1>1, Zenon DEF Inv, Sole, Working
<1>3. Claimed'
  <2>1. ASSUME NEW e \in Delivery, st'[e] \in {"run", "finish"}
        PROVE  e # d /\ st[e] = st'[e] /\ due'[e] = due[e] /\ row' = row /\ updated' = updated
    <3>1. e # d /\ st[e] = st'[e] /\ due'[e] = due[e]
      BY <1>1, <2>1, Zenon
    <3> QED
      BY <2>1, <3>1, Zenon DEF Inv, Sole, Working
  <2> QED
    BY <2>1, Zenon DEF Inv, Claimed
<1>4. /\ row' \in {"queued", "running", "done", "stale", "reaped"} /\ updated' \in Nat /\ posts' \in Nat
      /\ row' = "stale" => row = "stale"
  BY Zenon DEF Inv, TypeOK
<1> QED
  BY <1>1, <1>2, <1>3, <1>4, WorkerStep, Zenon

\* Claim
LEMMA ClaimStep ==
  ASSUME Inv, NEW d \in Delivery, Claim(d)
  PROVE  Inv'
<1> USE DeadlineAssumption DEF Claim
<1>0. now \in Nat /\ 0 \in Nat
  BY Zenon DEF Inv, TypeOK
<1>1. CASE /\ row = "queued" /\ row' = "running" /\ updated' = now
           /\ Enter(d, "run", now + RunMax) /\ UNCHANGED queue
  <2>1. /\ st'[d] = "run" /\ due'[d] = now + RunMax
        /\ \A e \in Delivery \ {d} : st'[e] = st[e] /\ due'[e] = due[e]
    BY <1>0, <1>1, Entered DEF Inv, Stage, Timed
  <2>2. /\ \A e \in Delivery : st[e] \notin Working
        /\ posts = 0 /\ posts' = 0
    BY <1>1 DEF Inv, Sole, TypeOK
  <2>3. Sole'
    BY <1>1, <2>1, <2>2 DEF Sole, Working
  <2>4. Claimed'
    BY <1>0, <1>1, <2>1, <2>2 DEF Claimed, Working
  <2> QED
    BY <1>0, <1>1, <2>2, <2>3, <2>4, WorkerStep DEF Stage, Timed
<1>2. CASE row # "queued" /\ Ack(d) /\ UNCHANGED <<row, updated>>
  BY <1>0, <1>2, DropStep, Zenon DEF Ack, Leave
<1>3. CASE Enter(d, "nak", now) /\ UNCHANGED <<row, updated, queue>>
  BY <1>0, <1>3, DropStep
<1>4. CASE /\ row = "queued" /\ row' = "running" /\ updated' = now
           /\ Enter(d, "nak", now) /\ UNCHANGED queue
  BY <1>0, <1>4, DropStep
<1> QED
  BY <1>1, <1>2, <1>3, <1>4, Zenon

\* Requeue, Die
LEMMA GiveUpStep ==
  ASSUME Inv, NEW d \in Delivery, Requeue(d) \/ Die(d)
  PROVE  Inv'
<1>0. now \in Nat /\ 0 \in Nat
  BY Zenon DEF Inv, TypeOK
<1>1. CASE Requeue(d)
  BY <1>0, <1>1, DropStep DEF Requeue, Timed
<1>2. CASE Die(d)
  BY <1>0, <1>2, DropStep, Zenon DEF Die, Leave
<1> QED
  BY <1>1, <1>2, Zenon

\* RunReturns
LEMMA RunReturnsStep ==
  ASSUME Inv, NEW d \in Delivery, RunReturns(d)
  PROVE  Inv'
<1> USE DeadlineAssumption DEF RunReturns
<1>0. now \in Nat /\ now + FinishMax \in Nat /\ updated \in Nat /\ due[d] \in Nat /\ now <= due[d]
  BY DEF Inv, TypeOK, OnTime, Timed
<1>1. /\ st'[d] = "finish" /\ due'[d] = now + FinishMax
      /\ \A e \in Delivery \ {d} : st'[e] = st[e] /\ due'[e] = due[e]
  BY <1>0, Entered, Zenon DEF Inv, Stage, Timed
<1>2. Sole'
  BY <1>1, Zenon DEF Inv, Sole, Working
<1>3. Claimed'
  <2>1. RunMargin => due[d] <= updated + RunMax /\ row = "running"
    BY Zenon DEF Inv, Claimed
  <2>2. RunMargin => due'[d] <= updated + RunMax + FinishMax
    BY <1>0, <1>1, <2>1
  <2> QED
    BY <1>1, <2>1, <2>2, Zenon DEF Inv, Claimed
<1> QED
  BY <1>0, <1>2, <1>3, WorkerStep DEF Stage, Timed, Inv, TypeOK

\* Finish
LEMMA FinishStep ==
  ASSUME Inv, NEW d \in Delivery, Finish(d)
  PROVE  Inv'
<1> USE DeadlineAssumption
<1>0. now \in Nat /\ now + PostMax \in Nat /\ updated \in Nat /\ 0 \in Nat /\ posts \in Nat
  BY DEF Inv, TypeOK
<1>1. /\ st[d] = "finish" /\ UNCHANGED <<now, swept>>
      /\ \/ UNCHANGED <<row, updated>>
         \/ row = "running" /\ row' = "done" /\ updated' = now
      /\ StartDeliver(d) \/ (Enter(d, "nak", now) /\ UNCHANGED <<queue, posts>>)
  BY Zenon DEF Finish
<1>2. CASE Enter(d, "nak", now) /\ UNCHANGED <<queue, posts>>
  BY <1>0, <1>1, <1>2, DropStep DEF Timed
<1>3. CASE Ack(d) /\ UNCHANGED posts
  BY <1>0, <1>1, <1>3, DropStep, Zenon DEF Timed, Ack, Leave
<1>4. CASE Enter(d, "post", now + PostMax) /\ posts' = posts + 1 /\ UNCHANGED queue
  <2>1. /\ st'[d] = "post" /\ \A e \in Delivery \ {d} : st'[e] = st[e] /\ due'[e] = due[e]
    BY <1>0, <1>4, Entered, Zenon DEF Inv, Stage, Timed
  <2>2. /\ \A e \in Delivery \ {d} : st[e] \notin Working
        /\ posts' = 1 /\ row # "queued"
    BY <1>0, <1>1, <1>4 DEF Inv, Sole, Working
  <2>3. Sole'
    BY <1>1, <2>1, <2>2 DEF Sole, Working
  <2>4. Claimed'
    BY <2>1, <2>2, Zenon DEF Claimed, Working
  <2> QED
    BY <1>0, <1>1, <1>4, <2>2, <2>3, <2>4, WorkerStep DEF Stage, Timed, Inv, TypeOK
<1> QED
  BY <1>1, <1>2, <1>3, <1>4, Zenon DEF StartDeliver

\* PostReturns and PostAgain
LEMMA PostStep ==
  ASSUME Inv, NEW d \in Delivery, PostReturns(d) \/ PostAgain(d)
  PROVE  Inv'
<1> USE DeadlineAssumption
<1>0. /\ now \in Nat /\ now + PostMax \in Nat /\ now + RetryDelay \in Nat /\ 0 \in Nat /\ posts \in Nat
  BY DEF Inv, TypeOK
<1>1. CASE st[d] = "post" /\ Ack(d) /\ UNCHANGED <<now, row, updated, posts, swept>>
  BY <1>0, <1>1, DropStep, Zenon DEF Timed, Ack, Leave
<1>2. ASSUME NEW s \in {"post", "wait"}, NEW last \in Nat, now <= last, Enter(d, s, last), s # st[d],
             st[d] \in {"post", "wait"}, UNCHANGED <<now, row, updated, queue, swept>>,
             \/ s = "wait" /\ posts <= Retries /\ posts' = posts
             \/ s = "post" /\ posts' = posts + 1
      PROVE  Inv'
  <2>1. /\ st'[d] = s /\ \A e \in Delivery \ {d} : st'[e] = st[e] /\ due'[e] = due[e]
    BY <1>2, Entered, Zenon DEF Inv, Stage, Timed
  <2>2. \A e \in Delivery \ {d} : st[e] \notin Working
    BY <1>2, Zenon DEF Inv, Sole, Working
  <2>3. row # "queued" /\ posts' \in Nat /\ posts' <= Retries + 1
    BY <1>0, <1>2 DEF Inv, Sole, Working
  <2>4. Sole'
    BY <1>2, <2>1, <2>2, <2>3, Zenon DEF Sole, Working
  <2>5. Claimed'
    BY <1>2, <2>1, <2>2, Zenon DEF Claimed, Working
  <2> QED
    BY <1>2, <2>3, <2>4, <2>5, WorkerStep, Zenon DEF Stage, Timed, Inv, TypeOK
<1>3. now <= now + RetryDelay /\ now <= now + PostMax
  BY <1>0
<1>4. CASE /\ st[d] = "post" /\ posts <= Retries /\ Enter(d, "wait", now + RetryDelay)
           /\ UNCHANGED <<queue, now, row, updated, posts, swept>>
  BY <1>0, <1>2, <1>3, <1>4, Zenon
<1>5. CASE PostAgain(d)
  BY <1>0, <1>2, <1>3, <1>5, Zenon DEF PostAgain
<1> QED
  BY <1>1, <1>4, <1>5, Zenon DEF PostReturns

\* Nak: one more of the num NAKs.
LEMMA NakStep ==
  ASSUME Inv, NEW d \in Delivery, Nak(d)
  PROVE  Inv'
<1> USE DeadlineAssumption DEF Nak
<1> DEFINE k == Cardinality(Naked)
<1>0. now \in Nat /\ now + NakDelay \in Nat /\ msgDue \in Nat /\ num \in Nat /\ 0 \in Nat
  BY DEF Inv, TypeOK
<1>1. /\ st' \in [Delivery -> Stage] /\ due' \in [Delivery -> Nat] /\ st'[d] = "naked"
      /\ \A e \in Delivery \ {d} : st'[e] = st[e] /\ due'[e] = due[e]
  BY <1>0, Entered, Zenon DEF Inv, Leave, Stage
<1>2. msgDue' \in Nat /\ (msg # "out" => msgDue' = msgDue) /\ (msg = "out" => msgDue' = now + NakDelay)
  BY <1>0, Zenon
<1>3. TypeOK'
  BY <1>1, <1>2, Zenon DEF Inv, TypeOK
<1>4. OnTime'
  BY <1>0, <1>1, <1>2 DEF Inv, OnTime, Timed
<1>5. Sole' /\ Claimed'
  BY <1>1, Zenon DEF Inv, Sole, Claimed, Working
<1>6. Queued'
  <2>1. Naked' = Naked \cup {d} /\ d \notin Naked
    BY <1>1, Zenon DEF Naked
  <2>2. IsFiniteSet(Naked) /\ k \in Nat
    BY NakedCount, Zenon DEF Inv
  <2>3. Cardinality(Naked') = k + 1
    BY <2>1, <2>2, FS_AddElement, Zenon
  <2>4. /\ Budget(num, k) \in Nat /\ Budget(num, k + 1) = Budget(num, k) + NakDelay
    BY <1>0, <2>2, BudgetGrows, Zenon
  <2>5. \A e \in Delivery : e > num' => st'[e] = "none"
    BY <1>1, Zenon DEF Inv, Queued
  <2>6. msg = "out" => now <= msgDue /\ msgDue <= Budget(num, k)
    BY Zenon DEF Inv, OnTime, Queued
  <2>7. msg = "ready" => num < MaxDeliver /\ msgDue <= Budget(num, k) + PullWait
    BY Zenon DEF Inv, Queued
  <2>8. msg = "out" => msgDue' <= Budget(num, k + 1)
    BY <1>0, <1>2, <2>4, <2>6
  <2>9. msg = "ready" => msgDue' <= Budget(num, k + 1) + PullWait
    BY <1>0, <1>2, <2>4, <2>7
  <2>10. msg = "none" => num = 0 /\ msgDue' = PublishLag
    BY <1>2, Zenon DEF Inv, Queued
  <2> HIDE DEF k
  <2> QED
    BY <2>3, <2>5, <2>7, <2>8, <2>9, <2>10, Zenon DEF Queued
<1>7. RetryKept'
  BY Zenon DEF Inv, RetryKept
<1> QED
  BY <1>3, <1>4, <1>5, <1>6, <1>7, Zenon DEF Inv

\* Publish, Deliver and AckWaitExpires
LEMMA QueueStep ==
  ASSUME Inv, Publish \/ Deliver \/ AckWaitExpires
  PROVE  Inv'
<1> USE DeadlineAssumption
<1> DEFINE k == Cardinality(Naked)
           b == Budget(num, k)
<1>0. now \in Nat /\ msgDue \in Nat /\ num \in Nat /\ num <= MaxDeliver /\ k \in Nat
  BY NakedCount DEF Inv, TypeOK
<1>1. /\ b \in Nat /\ Budget(num + 1, k) = b + PullWait + AckWait
      /\ num = 0 => b >= PublishLag
  BY <1>0, BudgetGrows, Zenon
<1>2. /\ msg = "none" => num = 0 /\ now <= PublishLag
      /\ msg = "ready" => num < MaxDeliver /\ now <= b + PullWait
      /\ msg = "out" => now <= b
  <2>1. /\ msg = "none" => num = 0 /\ msgDue = PublishLag
        /\ msg = "ready" => num < MaxDeliver /\ msgDue <= b + PullWait
        /\ msg = "out" => msgDue <= b
        /\ msg # "gone" => now <= msgDue
    BY Zenon DEF Inv, OnTime, Queued
  <2> QED
    BY <1>0, <1>1, <2>1
<1>3. ASSUME UNCHANGED <<now, row, updated, num, st, due, posts, swept>>, msg # "gone",
             \/ /\ msg' = "ready" /\ msgDue' = now + PullWait /\ num < MaxDeliver
                /\ msgDue' <= b + PullWait
             \/ Settle
      PROVE  Inv'
  <2>1. /\ msg' \in {"none", "ready", "out", "gone"} /\ msgDue' \in Nat
        /\ msg' # "gone" => now' <= msgDue'
    BY <1>0, <1>3 DEF Settle
  <2>2. TypeOK' /\ OnTime'
    BY <1>3, <2>1, Zenon DEF Inv, TypeOK, OnTime
  <2>3. Sole' /\ Claimed'
    BY <1>3, Zenon DEF Inv, Sole, Claimed
  <2>4. Queued'
    BY <1>3, Zenon DEF Inv, Queued, Settle, Naked
  <2>5. RetryKept'
    BY <1>3, Zenon DEF Inv, RetryKept, Settle
  <2> QED
    BY <2>2, <2>3, <2>4, <2>5, Zenon DEF Inv
<1>4. CASE Publish
  BY <1>0, <1>1, <1>2, <1>3, <1>4 DEF Publish
<1>5. CASE AckWaitExpires
  BY <1>0, <1>1, <1>2, <1>3, <1>5 DEF AckWaitExpires
<1>6. CASE Deliver
  <2> USE <1>6 DEF Deliver
  <2>0. num + 1 \in Delivery /\ 0 \in Nat /\ now + AckWait \in Nat
    BY <1>0, <1>2 DEF Delivery
  <2>1. /\ st' \in [Delivery -> Stage] /\ due' \in [Delivery -> Nat] /\ st'[num + 1] = "buffered"
        /\ \A e \in Delivery \ {num + 1} : st'[e] = st[e] /\ due'[e] = due[e]
        /\ st[num + 1] = "none"
    <3>1. st[num + 1] = "none"
      BY <1>0, <2>0 DEF Inv, Queued
    <3> QED
      BY <2>0, <3>1, Entered, Zenon DEF Inv, Leave, Stage
  <2>2. num' = num + 1 /\ num' \in 0..MaxDeliver /\ msgDue' = now + AckWait
    BY <1>0, <1>2
  <2>3. TypeOK'
    BY <2>0, <2>1, <2>2, Zenon DEF Inv, TypeOK
  <2>4. OnTime'
    BY <1>0, <2>1, <2>2 DEF Inv, OnTime, Timed
  <2>5. Sole' /\ Claimed'
    BY <2>1, Zenon DEF Inv, Sole, Claimed, Working
  <2>6. Queued'
    <3>1. Naked' = Naked
      BY <2>1, Zenon DEF Naked
    <3>2. msgDue' <= Budget(num + 1, k)
      BY <1>0, <1>1, <1>2, <2>2
    <3>3. ASSUME NEW e \in Delivery, e > num' PROVE st'[e] = "none"
      BY <1>0, <2>1, <2>2, <3>3 DEF Inv, Queued, Delivery
    <3> QED
      BY <2>2, <3>1, <3>2, <3>3, Zenon DEF Queued
  <2>7. RetryKept'
    BY Zenon DEF Inv, RetryKept
  <2> QED
    BY <2>3, <2>4, <2>5, <2>6, <2>7, Zenon DEF Inv
<1> QED
  BY <1>4, <1>5, <1>6, Zenon

\* Sweep: a row whose work is on time is not old enough, and a queued row that
\* is old enough has no delivery left.
LEMMA SweepStep ==
  ASSUME Inv, Sweep
  PROVE  Inv'
<1> USE DeadlineAssumption DEF Sweep
<1>0. /\ now \in Nat /\ updated \in Nat /\ msgDue \in Nat /\ num \in Nat /\ num <= MaxDeliver
      /\ Secs(StaleAfter) * Second \in Nat /\ Secs(StaleQueuedAfter) * Second \in Nat
  BY SecsNat DEF Inv, TypeOK
<1>1. /\ row' = "queued" => row = "queued" /\ updated' = updated
      /\ row # "queued" => row' # "queued"
      /\ row' \in {"queued", "running", "done", "stale", "reaped"} /\ updated' \in Nat
      /\ row' # row => row \in {"queued", "running"}
      /\ row' = "stale" => row = "stale" \/ (row = "queued" /\ OlderThan(0, StaleQueuedAfter))
      /\ row = "running" => row' = row \/ OlderThan(updated, StaleAfter)
      /\ row' = row => updated' = updated
  BY <1>0, Zenon DEF Inv, TypeOK
<1>2. TypeOK' /\ OnTime' /\ Queued'
  BY <1>1, Zenon DEF Inv, TypeOK, OnTime, Queued, Naked, queue
<1>3. Sole'
  BY <1>1, Zenon DEF Inv, Sole
<1>4. Claimed'
  <2>1. ASSUME RunMargin, NEW d \in Delivery, st[d] \in {"run", "finish"}
        PROVE  row = "running" /\ ~OlderThan(updated, StaleAfter)
    <3>1. /\ due[d] \in Nat /\ now <= due[d] /\ row = "running"
          /\ due[d] <= updated + RunMax \/ due[d] <= updated + RunMax + FinishMax
      BY <2>1, Zenon DEF Inv, TypeOK, OnTime, Timed, Claimed
    <3>2. now - updated <= RunMax + FinishMax
      BY <1>0, <3>1
    <3> QED
      BY <1>0, <2>1, <3>1, <3>2 DEF RunMargin, OlderThan
  <2> QED
    BY <1>1, <2>1, Zenon DEF Inv, Claimed
<1>5. RetryKept'
  <2>1. ASSUME QueuedMargin, OlderThan(0, StaleQueuedAfter) PROVE msg = "gone"
    <3> SUFFICES ASSUME msg # "gone" PROVE FALSE
      OBVIOUS
    <3> DEFINE k == Cardinality(Naked)
               b == Budget(num, k)
               w == PublishLag + MaxDeliver * Cycle
    <3>1. k \in Nat /\ k <= num
      BY NakedCount, Zenon DEF Inv
    <3>2. b \in Nat /\ b <= w /\ (num = 0 => b >= PublishLag)
      BY <1>0, <3>1, BudgetGrows, BudgetBounded, Zenon
    <3>3. now <= msgDue
      BY Zenon DEF Inv, OnTime
    <3>4. w \in Nat
      <4>1. Cycle \in Nat
        BY DEF Cycle
      <4> QED
        BY <4>1
    <3>5. msgDue <= w
      <4>1. CASE msg = "none"
        <5>1. num = 0 /\ msgDue = PublishLag
          BY <4>1, Zenon DEF Inv, Queued
        <5> QED
          BY <3>2, <3>4, <5>1
      <4>2. CASE msg = "ready"
        <5>1. num < MaxDeliver /\ msgDue <= b + PullWait
          BY <4>2, Zenon DEF Inv, Queued
        <5>2. num + 1 \in Nat /\ k <= num + 1 /\ num + 1 <= MaxDeliver
          BY <1>0, <3>1, <5>1
        <5>3. Budget(num + 1, k) <= w
          BY <3>1, <5>2, BudgetBounded, Zenon
        <5>4. Budget(num + 1, k) = b + PullWait + AckWait
          BY <1>0, <3>1, BudgetGrows, Zenon
        <5> HIDE DEF b, w
        <5> QED
          BY <1>0, <3>2, <3>4, <5>1, <5>3, <5>4
      <4>3. CASE msg = "out"
        <5>1. msgDue <= b
          BY <4>3, Zenon DEF Inv, Queued
        <5> HIDE DEF b, w
        <5> QED
          BY <1>0, <3>2, <3>4, <5>1
      <4> QED
        BY <4>1, <4>2, <4>3, Zenon DEF Inv, TypeOK
    <3>6. w <= Secs(StaleQueuedAfter) * Second
      BY <2>1, Zenon DEF QueuedMargin
    <3>7. now > Secs(StaleQueuedAfter) * Second
      BY <1>0, <2>1 DEF OlderThan
    <3> HIDE DEF w
    <3> QED
      BY <1>0, <3>3, <3>4, <3>5, <3>6, <3>7
  <2> QED
    BY <1>1, <2>1, Zenon DEF Inv, RetryKept, queue
<1> QED
  BY <1>2, <1>3, <1>4, <1>5, Zenon DEF Inv

\* Tick waits for whatever is due.
LEMMA TickStep ==
  ASSUME Inv, Tick
  PROVE  Inv'
<1> USE DEF Tick
<1>1. now \in Nat /\ now' = now + 1 /\ msgDue \in Nat /\ due \in [Delivery -> Nat]
  BY Zenon DEF Inv, TypeOK
<1>2. TypeOK'
  BY <1>1 DEF Inv, TypeOK, queue
<1>3. OnTime'
  BY <1>1 DEF Inv, OnTime, queue
<1>4. Sole' /\ Claimed' /\ RetryKept'
  BY Zenon DEF Inv, Sole, Claimed, RetryKept, queue
<1>5. Queued'
  BY Zenon DEF Inv, Queued, Naked, queue
<1> QED
  BY <1>2, <1>3, <1>4, <1>5, Zenon DEF Inv

\* The initial states satisfy the invariant.
LEMMA InitInv == Init => Inv
<1> SUFFICES ASSUME Init PROVE Inv
  OBVIOUS
<1> USE DeadlineAssumption DEF Init
<1>1. TypeOK
  BY DEF TypeOK, Stage
<1>2. OnTime /\ Sole /\ Claimed /\ Queued /\ RetryKept
  BY DEF OnTime, Sole, Claimed, Queued, RetryKept, Timed, Working
<1> QED
  BY <1>1, <1>2, Zenon DEF Inv

\* Every step keeps the invariant.
LEMMA InvStep == Inv /\ [Next]_vars => Inv'
<1> SUFFICES ASSUME Inv, [Next]_vars PROVE Inv'
  OBVIOUS
<1>1. CASE Next
  BY <1>1, QueueStep, SweepStep, TickStep, ClaimStep, GiveUpStep, RunReturnsStep, FinishStep,
     PostStep, NakStep, Zenon DEF Next
<1>2. CASE UNCHANGED vars
  BY <1>2, Zenon DEF vars, Inv, TypeOK, OnTime, Sole, Claimed, Queued, RetryKept, Naked
<1> QED
  BY <1>1, <1>2, Zenon

\* The invariant holds of Spec.
THEOREM DeadlinesInv == Spec => []Inv
  BY InitInv, InvStep, PTL DEF Spec

\* LiveWorkKept: REAP_STALE_AFTER against the longest run, for all settings.
THEOREM WorkKept == Spec => []LiveWorkKept
<1>1. Inv => LiveWorkKept
  BY Zenon DEF Inv, Claimed, LiveWorkKept
<1> QED
  BY <1>1, DeadlinesInv, PTL

\* RetryKept: STALE_QUEUED_AFTER against MaxDeliver, AckWait, the NAK delay and
\* the time in the stream, for all settings.
THEOREM RetriesKept == Spec => []RetryKept
<1>1. Inv => RetryKept
  BY Zenon DEF Inv
<1> QED
  BY <1>1, DeadlinesInv, PTL

\* PostsBounded: retryDelays bounds the POSTs of an execution, not of a
\* delivery.
THEOREM PostsKept == Spec => []PostsBounded
<1>1. Inv => PostsBounded
  BY Zenon DEF Inv, Sole, PostsBounded
<1> QED
  BY <1>1, DeadlinesInv, PTL
-----------------------------------------------------------------------------
(* How long a row can stay unsettled                                        *)

\* The deliveries that a worker has taken: each claims the row once at most, so
\* the n-th claim is made by ClaimBy(n).
Taken == {d \in Delivery : st[d] \notin {"none", "buffered"}}
QueuedAge == Secs(StaleQueuedAfter) * Second
RunningAge == Secs(StaleAfter) * Second
ClaimBy(n) == QueuedAge + SweepEvery + (n - 1) * (RunMax + SweepEvery)

\* No sweep is late, and the last one left the row because it was too young.
SweptInTime == swept <= now /\ now <= swept + SweepEvery
Young ==
  LET n == Cardinality(Taken) IN
  /\ row = "queued" => \/ swept <= QueuedAge
                       \/ n >= 1 /\ swept <= ClaimBy(n) + RunMax /\ swept <= ClaimBy(n) + RunningAge
  /\ row = "running" => n >= 1 /\ updated <= ClaimBy(n) /\ swept <= updated + RunningAge
  /\ \A d \in Delivery : st[d] = "run" /\ row = "running" => due[d] <= updated + RunMax
SettleInv == Inv /\ SweptInTime /\ (StaleQueuedAfter > 0 => Young)

\* The time of a claim grows with each claim before it.
LEMMA ClaimGrows ==
  ASSUME NEW n \in Nat \ {0}
  PROVE  /\ ClaimBy(n) \in Nat /\ QueuedAge \in Nat /\ RunningAge \in Nat
         /\ QueuedAge + SweepEvery <= ClaimBy(n)
         /\ ClaimBy(n + 1) = ClaimBy(n) + RunMax + SweepEvery
         /\ \A m \in Nat : n <= m => ClaimBy(m) \in Nat /\ ClaimBy(n) <= ClaimBy(m)
<1> DEFINE w == RunMax + SweepEvery
<1>1. QueuedAge \in Nat /\ RunningAge \in Nat /\ w \in Nat /\ SweepEvery \in Nat /\ RunMax \in Nat
  BY SecsNat, DeadlineAssumption DEF QueuedAge, RunningAge
<1>2. \A m : ClaimBy(m) = QueuedAge + SweepEvery + (m - 1) * w
  BY Zenon DEF ClaimBy, w
<1>3. w = RunMax + SweepEvery
  OBVIOUS
<1> HIDE DEF w
<1>4. (n - 1) * w \in Nat /\ (n + 1) - 1 = n /\ n * w = (n - 1) * w + w
  BY <1>1
<1>5. ASSUME NEW m \in Nat, n <= m PROVE (m - 1) * w \in Nat /\ (n - 1) * w <= (m - 1) * w
  BY <1>1, <1>5
<1>6. ASSUME NEW m \in Nat, n <= m PROVE ClaimBy(m) \in Nat /\ ClaimBy(n) <= ClaimBy(m)
  <2>1. /\ ClaimBy(m) = QueuedAge + SweepEvery + (m - 1) * w
        /\ ClaimBy(n) = QueuedAge + SweepEvery + (n - 1) * w
    BY <1>2, Zenon
  <2> QED BY <1>1, <1>4, <1>5, <1>6, <2>1
<1>7. /\ ClaimBy(n) = QueuedAge + SweepEvery + (n - 1) * w
      /\ ClaimBy(n + 1) = QueuedAge + SweepEvery + n * w
  BY <1>2, <1>4, Zenon
<1> QED BY <1>1, <1>3, <1>4, <1>6, <1>7

\* No more deliveries are taken than MaxDeliver.
LEMMA TakenCount ==
  ASSUME TypeOK
  PROVE  IsFiniteSet(Taken) /\ Cardinality(Taken) \in Nat /\ Cardinality(Taken) <= MaxDeliver
<1>1. Taken \subseteq 1..MaxDeliver /\ MaxDeliver \in Nat
  BY DeadlineAssumption, Zenon DEF Taken, Delivery
<1>2. IsFiniteSet(1..MaxDeliver) /\ Cardinality(1..MaxDeliver) = MaxDeliver
  BY <1>1, FS_Interval
<1> QED BY <1>1, <1>2, FS_Subset, FS_CardinalityType, Zenon

\* A step that leaves the row, and starts no run.
LEMMA YoungKept ==
  ASSUME TypeOK, TypeOK', Young, UNCHANGED <<row, updated, swept>>, Taken \subseteq Taken',
         \A d \in Delivery : st'[d] = "run" => st[d] = "run" /\ due'[d] = due[d]
  PROVE  Young'
<1> DEFINE n == Cardinality(Taken)
           m == Cardinality(Taken')
<1>1. n \in Nat /\ m \in Nat /\ n <= m
  <2>1. IsFiniteSet(Taken)'
    BY TakenCount, PTL
  <2> QED BY <2>1, TakenCount, FS_Subset, FS_CardinalityType, Zenon
<1>2. swept \in Nat /\ updated \in Nat /\ RunMax \in Nat
  BY DeadlineAssumption, Zenon DEF TypeOK
<1>3. n >= 1 => /\ m >= 1 /\ ClaimBy(n) \in Nat /\ ClaimBy(m) \in Nat /\ ClaimBy(n) <= ClaimBy(m)
                /\ RunningAge \in Nat
  BY <1>1, ClaimGrows
<1>4. /\ row = "queued" => \/ swept <= QueuedAge
                           \/ n >= 1 /\ swept <= ClaimBy(n) + RunMax /\ swept <= ClaimBy(n) + RunningAge
      /\ row = "running" => n >= 1 /\ updated <= ClaimBy(n) /\ swept <= updated + RunningAge
  BY Zenon DEF Young
<1> HIDE DEF n, m
<1>5. /\ row = "queued" => \/ swept <= QueuedAge
                           \/ m >= 1 /\ swept <= ClaimBy(m) + RunMax /\ swept <= ClaimBy(m) + RunningAge
      /\ row = "running" => m >= 1 /\ updated <= ClaimBy(m) /\ swept <= updated + RunningAge
  BY <1>2, <1>3, <1>4
<1>6. \A d \in Delivery : st'[d] = "run" /\ row = "running" => due'[d] <= updated + RunMax
  BY Zenon DEF Young
<1> QED BY <1>5, <1>6, Zenon DEF Young, m, ClaimBy, QueuedAge, RunningAge, Secs

\* A worker's step that leaves the row, and starts no run.
LEMMA YoungWorker ==
  ASSUME TypeOK, TypeOK', Young, NEW d \in Delivery, NEW s \in Stage \ {"none", "buffered", "run"}, NEW last,
         Enter(d, s, last), UNCHANGED <<row, updated, swept>>
  PROVE  Young'
<1>1. /\ st'[d] = s /\ \A e \in Delivery \ {d} : st'[e] = st[e] /\ due'[e] = due[e]
  BY Zenon DEF TypeOK, Enter
<1>2. Taken \subseteq Taken'
  BY <1>1, Zenon DEF Taken
<1> QED BY <1>1, <1>2, YoungKept, Zenon

\* The claim: no sweep is late, so the row was young when it was claimed.
LEMMA YoungClaim ==
  ASSUME Inv, TypeOK', SweptInTime, Young, NEW d \in Delivery, st[d] = "buffered", row = "queued", row' = "running",
         updated' = now, UNCHANGED <<now, swept>>,
         Enter(d, "run", now + RunMax) \/ Enter(d, "nak", now)
  PROVE  Young'
<1> DEFINE n == Cardinality(Taken)
<1>0. /\ now \in Nat /\ swept \in Nat /\ RunMax \in Nat /\ SweepEvery \in Nat /\ RunningAge \in Nat /\ QueuedAge \in Nat
      /\ n \in Nat /\ IsFiniteSet(Taken)
  BY DeadlineAssumption, SecsNat, TakenCount, Zenon DEF Inv, TypeOK, RunningAge, QueuedAge
<1>1. /\ st'[d] # "none" /\ st'[d] # "buffered" /\ (st'[d] = "run" => due'[d] = now + RunMax)
      /\ \A e \in Delivery \ {d} : st'[e] = st[e] /\ due'[e] = due[e]
  BY Zenon DEF Inv, TypeOK, Enter
<1>2. Taken' = Taken \cup {d} /\ d \notin Taken
  BY <1>1, Zenon DEF Taken
<1>3. Cardinality(Taken') = n + 1
  BY <1>0, <1>2, FS_AddElement, Zenon
<1>4. swept <= QueuedAge \/ (n >= 1 /\ swept <= ClaimBy(n) + RunMax)
  BY Zenon DEF Young
<1>5. \A e \in Delivery : st[e] # "run"
  BY Zenon DEF Inv, Sole, Working
<1> HIDE DEF n
<1>6. now <= ClaimBy(n + 1)
  <2>1. n + 1 \in Nat \ {0} /\ now <= swept + SweepEvery
    BY <1>0 DEF SweptInTime
  <2>2. ClaimBy(n + 1) \in Nat /\ QueuedAge + SweepEvery <= ClaimBy(n + 1)
    BY <2>1, ClaimGrows, Zenon
  <2>3. n >= 1 => ClaimBy(n) \in Nat /\ ClaimBy(n + 1) = ClaimBy(n) + RunMax + SweepEvery
    BY <1>0, ClaimGrows
  <2> QED BY <1>0, <1>4, <2>1, <2>2, <2>3
<1>7. n + 1 >= 1 /\ swept <= now + RunningAge /\ now + RunMax <= now + RunMax
  BY <1>0 DEF SweptInTime
<1>8. \A e \in Delivery : st'[e] = "run" => due'[e] <= now + RunMax
  BY <1>1, <1>5, <1>7, Zenon
<1> QED BY <1>3, <1>6, <1>7, <1>8, Zenon DEF Young, ClaimBy, QueuedAge, RunningAge, Secs

\* The requeue: the run it ends began at the claim.
LEMMA YoungRequeue ==
  ASSUME Inv, TypeOK', SweptInTime, Young, NEW d \in Delivery, st[d] = "run", row = "running", row' = "queued",
         updated' = now, UNCHANGED <<now, swept>>, Enter(d, "nak", now)
  PROVE  Young'
<1> DEFINE n == Cardinality(Taken)
<1>0. /\ now \in Nat /\ swept \in Nat /\ updated \in Nat /\ RunMax \in Nat /\ RunningAge \in Nat /\ due[d] \in Nat
      /\ n \in Nat
  BY DeadlineAssumption, SecsNat, TakenCount, Zenon DEF Inv, TypeOK, RunningAge
<1>1. st'[d] = "nak" /\ \A e \in Delivery \ {d} : st'[e] = st[e]
  BY Zenon DEF Inv, TypeOK, Enter
<1>2. Taken' = Taken
  BY <1>1, Zenon DEF Taken
<1>3. n >= 1 /\ updated <= ClaimBy(n) /\ swept <= updated + RunningAge /\ due[d] <= updated + RunMax
  BY Zenon DEF Young
<1>4. now <= due[d] /\ swept <= now
  BY Zenon DEF Inv, OnTime, SweptInTime, Timed
<1> HIDE DEF n
<1>5. ClaimBy(n) \in Nat
  BY <1>0, <1>3, ClaimGrows
<1>6. swept <= ClaimBy(n) + RunMax /\ swept <= ClaimBy(n) + RunningAge
  BY <1>0, <1>3, <1>4, <1>5
<1> QED BY <1>2, <1>3, <1>6, Zenon DEF Young, ClaimBy, QueuedAge, RunningAge, Secs, n

\* A settled row has no age.
LEMMA YoungSettled == ASSUME row' \notin {"queued", "running"} PROVE Young'
  BY Zenon DEF Young

\* The steps of a worker.
LEMMA YoungWork ==
  ASSUME Inv, TypeOK', SweptInTime, Young, NEW d \in Delivery,
         \/ Claim(d) \/ Requeue(d) \/ RunReturns(d) \/ Finish(d)
         \/ PostReturns(d) \/ PostAgain(d) \/ Nak(d) \/ Die(d)
  PROVE  Young'
<1>1. ASSUME NEW s \in {"finish", "post", "wait", "nak", "acked", "naked", "lost"}, NEW last,
             Enter(d, s, last), UNCHANGED <<row, updated, swept>>
      PROVE  Young'
  BY <1>1, YoungWorker, Zenon DEF Inv, Stage, Timed
<1>2. CASE Claim(d)
  BY <1>1, <1>2, YoungClaim, Zenon DEF Claim, Ack, Leave
<1>3. CASE Requeue(d)
  BY <1>1, <1>3, YoungRequeue, Zenon DEF Requeue
<1>4. CASE Finish(d)
  <2>1. CASE row' = "done"
    BY <2>1, YoungSettled, Zenon
  <2>2. CASE UNCHANGED <<row, updated>>
    BY <1>1, <1>4, <2>2, Zenon DEF Finish, StartDeliver, Ack, Leave
  <2> QED BY <1>4, <2>1, <2>2, Zenon DEF Finish
<1>5. CASE RunReturns(d) \/ Die(d) \/ Nak(d)
  BY <1>1, <1>5, Zenon DEF RunReturns, Die, Nak, Leave
<1>6. CASE PostReturns(d) \/ PostAgain(d)
  BY <1>1, <1>6, Zenon DEF PostReturns, PostAgain, Ack, Leave
<1> QED BY <1>2, <1>3, <1>4, <1>5, <1>6, Zenon

\* A sweep leaves a row only when it is younger than the age it is reaped at.
LEMMA YoungSweep ==
  ASSUME Inv, TypeOK', Young, Sweep, StaleQueuedAfter > 0
  PROVE  Young'
<1>0. now \in Nat /\ updated \in Nat /\ QueuedAge \in Nat /\ RunningAge \in Nat
  BY DeadlineAssumption, SecsNat, Zenon DEF Inv, TypeOK, QueuedAge, RunningAge
<1>1. CASE row' \notin {"queued", "running"}
  BY <1>1, YoungSettled, Zenon
<1>2. CASE row' \in {"queued", "running"}
  <2>1. /\ row' = row /\ updated' = updated /\ UNCHANGED <<st, due>> /\ swept' = now
        /\ row = "running" => ~OlderThan(updated, StaleAfter)
        /\ row = "queued" => ~OlderThan(0, StaleQueuedAfter)
    BY <1>2, Zenon DEF Sweep
  <2>2. (row = "running" => now <= updated + RunningAge) /\ (row = "queued" => now <= QueuedAge)
    <3>1. /\ row = "running" => ~(now - updated > RunningAge)
          /\ row = "queued" => ~(now - 0 > QueuedAge)
      BY <2>1, Zenon DEF OlderThan, RunningAge, QueuedAge
    <3> QED BY <1>0, <3>1
  <2> QED BY <2>1, <2>2, Zenon DEF Young, Taken, ClaimBy, QueuedAge, RunningAge, Secs
<1> QED BY <1>1, <1>2, Zenon

\* The steps of the queue and of the clock.
LEMMA YoungQueue ==
  ASSUME Inv, TypeOK', Young, Publish \/ Deliver \/ AckWaitExpires \/ Tick
  PROVE  Young'
<1>1. CASE Publish \/ AckWaitExpires \/ Tick
  <2>1. UNCHANGED <<row, updated, swept, st, due>>
    BY <1>1, Zenon DEF Publish, AckWaitExpires, Tick
  <2>2. Taken' = Taken
    BY <2>1, Zenon DEF Taken
  <2> QED BY <2>1, <2>2, YoungKept, Zenon DEF Inv
<1>2. CASE Deliver
  <2>1. num + 1 \in Delivery /\ num + 1 > num
    BY <1>2, DeadlineAssumption DEF Deliver, Inv, TypeOK, Queued, Delivery
  <2>2. st[num + 1] = "none"
    BY <2>1, Zenon DEF Inv, Queued
  <2>3. st'[num + 1] = "buffered" /\ \A e \in Delivery \ {num + 1} : st'[e] = st[e] /\ due'[e] = due[e]
    BY <1>2, <2>1, Zenon DEF Deliver, Leave, Enter, Inv, TypeOK
  <2>4. Taken \subseteq Taken'
    BY <2>2, <2>3, Zenon DEF Taken
  <2>5. UNCHANGED <<row, updated, swept>>
    BY <1>2, Zenon DEF Deliver
  <2> QED BY <2>3, <2>4, <2>5, YoungKept, Zenon DEF Inv
<1> QED BY <1>1, <1>2, Zenon

\* No sweep is late: the clock waits for it.
LEMMA SweptStep ==
  ASSUME Inv, SweptInTime, [Next]_vars
  PROVE  SweptInTime'
<1>1. now \in Nat /\ swept \in Nat /\ SweepEvery \in Nat
  BY DeadlineAssumption, Zenon DEF Inv, TypeOK
<1>2. CASE Tick
  <2>1. now' = now + 1 /\ now < swept + SweepEvery /\ swept' = swept
    BY <1>2, Zenon DEF Tick
  <2> QED BY <1>1, <2>1 DEF SweptInTime
<1>3. CASE Sweep
  <2>1. swept' = now /\ now' = now
    BY <1>3, Zenon DEF Sweep
  <2> QED BY <1>1, <2>1 DEF SweptInTime
<1>4. CASE UNCHANGED <<now, swept>>
  BY <1>4, Zenon DEF SweptInTime
<1>5. \/ Tick \/ Sweep \/ UNCHANGED <<now, swept>>
  BY Zenon DEF Next, vars, Publish, Deliver, AckWaitExpires, Claim, Requeue, RunReturns, Finish, PostReturns,
     PostAgain, Nak, Die
<1> QED BY <1>2, <1>3, <1>4, <1>5, Zenon

\* SettleInv is inductive.
LEMMA SettleStep == SettleInv /\ [Next]_vars => SettleInv'
<1> SUFFICES ASSUME SettleInv, [Next]_vars PROVE SettleInv'
  OBVIOUS
<1>1. Inv' /\ TypeOK'
  BY InvStep, Zenon DEF SettleInv, Inv
<1>2. SweptInTime'
  BY SweptStep, Zenon DEF SettleInv
<1>3. ASSUME StaleQueuedAfter > 0 PROVE Young'
  <2>1. Young /\ Inv /\ SweptInTime
    BY <1>3, Zenon DEF SettleInv
  <2>2. CASE UNCHANGED vars
    BY <2>1, <2>2, Zenon DEF Young, vars, Taken, ClaimBy, QueuedAge, RunningAge, Secs
  <2> QED BY <1>1, <1>3, <2>1, <2>2, YoungWork, YoungSweep, YoungQueue, Zenon DEF Next
<1> QED BY <1>1, <1>2, <1>3, Zenon DEF SettleInv

\* It holds when the row is inserted.
LEMMA SettleInit == Init => SettleInv
<1> SUFFICES ASSUME Init PROVE SettleInv
  OBVIOUS
<1>1. SweptInTime
  BY DeadlineAssumption DEF Init, SweptInTime
<1>2. Young
  <2>1. QueuedAge \in Nat
    BY SecsNat, DeadlineAssumption, Zenon DEF QueuedAge
  <2>2. swept <= QueuedAge
    BY <2>1 DEF Init
  <2> QED BY <2>2, Zenon DEF Init, Young
<1> QED BY <1>1, <1>2, InitInv, Zenon DEF SettleInv

\* The inductive invariant of the reaper's promise.
THEOREM SettlingInv == Spec => []SettleInv
  BY SettleInit, SettleStep, PTL DEF Spec

\* SettledInTime: a row is settled by SettleBy, whatever crashes and however
\* often it is requeued, for all settings: no margin is assumed.
THEOREM RowsSettled == Spec => []SettledInTime
<1>1. ASSUME SettleInv PROVE SettledInTime
  <2> SUFFICES ASSUME StaleQueuedAfter > 0, row \in {"queued", "running"} PROVE ~(now > SettleBy)
    BY Zenon DEF SettledInTime
  <2> DEFINE n == Cardinality(Taken)
  <2>1. /\ now \in Nat /\ swept \in Nat /\ updated \in Nat /\ RunMax \in Nat /\ SweepEvery \in Nat /\ n \in Nat
        /\ n <= MaxDeliver /\ MaxDeliver \in Nat \ {0} /\ now <= swept + SweepEvery
    BY <1>1, DeadlineAssumption, TakenCount, Zenon DEF SettleInv, Inv, TypeOK, SweptInTime
  <2>2. SettleBy = ClaimBy(MaxDeliver) + RunningAge + SweepEvery
    BY Zenon DEF SettleBy, ClaimBy, QueuedAge, RunningAge
  <2>3. /\ ClaimBy(MaxDeliver) \in Nat /\ QueuedAge \in Nat /\ RunningAge \in Nat
        /\ QueuedAge + SweepEvery <= ClaimBy(MaxDeliver)
    BY <2>1, ClaimGrows, Zenon
  <2>4. ASSUME n >= 1 PROVE ClaimBy(n) \in Nat /\ ClaimBy(n) <= ClaimBy(MaxDeliver)
    <3>1. n \in Nat \ {0} /\ n <= MaxDeliver /\ MaxDeliver \in Nat
      BY <2>1, <2>4
    <3> HIDE DEF n
    <3> QED BY <3>1, ClaimGrows, Zenon
  <2>5. \/ swept <= QueuedAge
        \/ n >= 1 /\ swept <= ClaimBy(n) + RunningAge
        \/ n >= 1 /\ updated <= ClaimBy(n) /\ swept <= updated + RunningAge
    BY <1>1, Zenon DEF SettleInv, Young
  <2> HIDE DEF n
  <2> QED BY <2>1, <2>2, <2>3, <2>4, <2>5
<1> QED BY <1>1, SettlingInv, PTL

\* TypeOK: the variables keep their types, and no delivery is made beyond
\* MaxDeliver.
THEOREM DeadlinesTypes == Spec => []TypeOK
<1>1. Inv => TypeOK
  BY Zenon DEF Inv
<1> QED
  BY <1>1, DeadlinesInv, PTL
=============================================================================
