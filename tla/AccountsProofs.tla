--------------------------- MODULE AccountsProofs ---------------------------
(***************************************************************************)
(* Proofs about Accounts, for any number of requests, names and retries.   *)
(* The inductive invariant says what a transaction has inserted at each of *)
(* its steps, that a key of a unique index has one owner, committed or     *)
(* not, and that every failed answer was paid for by a fault.              *)
(***************************************************************************)
EXTENDS Accounts, FiniteSetTheorems, TLAPS

\* What CreateUser inserts in the transaction of a registration.
User(r) == IF actor[r] = r THEN {"email", "name"} ELSE {}
Inserted(r) ==
  CASE pc[r] = "name"   -> {"email"}
    [] pc[r] = "slug"   -> User(r)
    [] pc[r] = "member" -> User(r) \cup {"slug"}
    [] pc[r] = "commit" -> User(r) \cup {"slug", "member"}
    [] OTHER            -> {}

\* Where a request stands.
Stands(r) ==
  /\ put[r] = Inserted(r)
  /\ pc[r] # "new" => actor[r] \in Req /\ (actor[r] # r => actor[r] \in users)
  /\ pc[r] \in {"email", "name", "session"} => actor[r] = r
  /\ pc[r] \in InTx => base[r] \in Base /\ slug[r] \in Slugs
  /\ pc[r] \in InTx \cup {"new"} => r \notin users /\ tenants[r] = None
  /\ pc[r] = "session" => r \in users
  /\ pc[r] = "201" /\ r \in users => r \in sess[r]
  /\ r \in users => actor[r] = r /\ tenants[r] # None
  /\ tenants[r] # None => actor[r] \in users /\ <<actor[r], r>> \in members

\* The keys of the unique indexes a request owns.
OwnsEmail(r) == r \in users \/ "email" \in put[r]
OwnsName(r) == r \in users \/ "name" \in put[r]
OwnsSlug(r, s) == tenants[r] = s \/ ("slug" \in put[r] /\ slug[r] = s)
Apart(r, q) ==
  /\ OwnsEmail(r) /\ OwnsEmail(q) => email[r] # email[q]
  /\ OwnsName(r) /\ OwnsName(q) => name[r] # name[q]
  /\ \A s \in Slugs : ~(OwnsSlug(r, s) /\ OwnsSlug(q, s))

\* A 409 has a cause, and the 500s are no more than the faults.
Cause(r) ==
  pc[r] = "409" =>
    \/ att[r] = MaxRetry
    \/ \E u \in users \ {r} : email[u] = email[r] \/ name[u] = name[r]
Failed == {r \in Req : pc[r] = "500"}
Paid == IsFiniteSet(Failed) /\ Cardinality(Failed) <= faults

Inv ==
  /\ TypeOK /\ Paid
  /\ \A r \in Req : Stands(r) /\ Cause(r)
  /\ \A r, q \in Req : r # q => Apart(r, q)
-----------------------------------------------------------------------------
(* Frames: what the step of one request leaves alone.                       *)

\* A request that is not the one the step is about.
Same(q) ==
  /\ pc'[q] = pc[q] /\ put'[q] = put[q] /\ slug'[q] = slug[q] /\ att'[q] = att[q]
  /\ email'[q] = email[q] /\ name'[q] = name[q] /\ base'[q] = base[q] /\ actor'[q] = actor[q]
  /\ sess'[q] = sess[q] /\ tenants'[q] = tenants[q] /\ (q \in users' <=> q \in users)

\* Rows are only added, and the inputs of a registration are kept.
Grown ==
  /\ users \subseteq users' /\ members \subseteq members'
  /\ \A u \in users : email'[u] = email[u] /\ name'[u] = name[u]

\* The request owns no more than it did.
OwnsNoMore(r) ==
  /\ email'[r] = email[r] /\ name'[r] = name[r]
  /\ OwnsEmail(r)' => OwnsEmail(r)
  /\ OwnsName(r)' => OwnsName(r)
  /\ \A s \in Slugs : OwnsSlug(r, s)' => OwnsSlug(r, s)

\* A step of one request keeps the invariant if it does so for that request.
LEMMA FrameOthers ==
  ASSUME Inv, TypeOK', Paid', NEW r \in Req, \A q \in Req \ {r} : Same(q), Grown,
         Stands(r)', Cause(r)', \A q \in Req \ {r} : Apart(r, q)'
  PROVE  Inv'
<1>1. ASSUME NEW q \in Req \ {r} PROVE Stands(q)' /\ Cause(q)'
  <2>1. Same(q) /\ Stands(q) /\ Cause(q)
    BY Zenon DEF Inv
  <2>2. Stands(q)'
    <3>1. Inserted(q)' = Inserted(q)
      BY <2>1, Zenon DEF Same, Inserted, User
    <3> QED
      BY <2>1, <3>1, Zenon DEF Same, Grown, Stands
  <2>3. Cause(q)'
    BY <2>1, Zenon DEF Same, Grown, Cause
  <2> QED
    BY <2>2, <2>3, Zenon
<1>2. ASSUME NEW p \in Req, NEW q \in Req, p # q PROVE Apart(p, q)'
  <2>1. CASE p = r
    BY <1>2, <2>1, Zenon
  <2>2. CASE q = r
    <3>1. Apart(q, p)'
      BY <1>2, <2>2, Zenon
    <3> QED
      BY <3>1, Zenon DEF Apart
  <2>3. CASE p # r /\ q # r
    <3>1. Apart(p, q) /\ Same(p) /\ Same(q)
      BY <1>2, <2>3, Zenon DEF Inv
    <3> QED
      BY <3>1 DEF Apart, Same, OwnsEmail, OwnsName, OwnsSlug
  <2> QED
    BY <2>1, <2>2, <2>3, Zenon
<1> QED
  BY <1>1, <1>2, Zenon DEF Inv

\* A request that owns no more than it did stays apart from the others.
LEMMA StaysApart ==
  ASSUME Inv, NEW r \in Req, OwnsNoMore(r), \A q \in Req \ {r} : Same(q)
  PROVE  \A q \in Req \ {r} : Apart(r, q)'
<1> TAKE q \in Req \ {r}
<1>1. Apart(r, q) /\ Same(q)
  BY Zenon DEF Inv
<1> QED
  BY <1>1 DEF OwnsNoMore, Apart, Same, OwnsEmail, OwnsName, OwnsSlug

\* A step without a fault answers no 500.
LEMMA PaidAlready ==
  ASSUME Inv, TypeOK', NEW r \in Req, \A q \in Req \ {r} : Same(q), pc[r] # "500", pc'[r] # "500",
         UNCHANGED faults
  PROVE  Paid'
<1>1. Failed' = Failed
  BY Zenon DEF Failed, Same
<1> QED
  BY <1>1, Zenon DEF Inv, Paid

\* A step with a fault answers at most one.
LEMMA PaidByFault ==
  ASSUME Inv, TypeOK', NEW r \in Req, \A q \in Req \ {r} : Same(q), pc[r] # "500", pc'[r] = "500",
         faults' = faults + 1
  PROVE  Paid'
<1>1. Failed' = Failed \cup {r} /\ r \notin Failed
  BY DEF Failed, Same
<1>2. IsFiniteSet(Failed) /\ Cardinality(Failed) <= faults /\ faults \in Nat
  BY AccountsAssumption DEF Inv, Paid, TypeOK
<1>3. /\ IsFiniteSet(Failed \cup {r}) /\ Cardinality(Failed) \in Nat
      /\ Cardinality(Failed \cup {r}) = Cardinality(Failed) + 1
  BY <1>1, <1>2, FS_AddElement, FS_CardinalityType, Zenon
<1> QED
  BY <1>1, <1>2, <1>3 DEF Paid

\* The initial states satisfy the invariant.
LEMMA InitInv == Init => Inv
<1> SUFFICES ASSUME Init PROVE Inv
  OBVIOUS
<1> USE AccountsAssumption
<1>1. TypeOK
  BY DEF Init, TypeOK
<1>2. Paid
  <2>1. Failed = {}
    BY Zenon DEF Init, Failed
  <2> QED
    BY <2>1, FS_EmptySet DEF Paid, Init
<1>3. ASSUME NEW r \in Req PROVE Stands(r) /\ Cause(r)
  BY Zenon DEF Init, Stands, Cause, Inserted, InTx
<1>4. \A r, q \in Req : r # q => Apart(r, q)
  BY Zenon DEF Init, Apart, OwnsEmail, OwnsName, OwnsSlug, Slugs
<1> QED
  BY <1>1, <1>2, <1>3, <1>4, Zenon DEF Inv

\* Register
LEMMA RegisterStep ==
  ASSUME Inv, NEW r \in Req, Register(r)
  PROVE  Inv'
<1> USE AccountsAssumption DEF Register
<1>1. PICK e \in Email, n \in Name :
       /\ email' = [email EXCEPT ![r] = e] /\ name' = [name EXCEPT ![r] = n]
       /\ base' = [base EXCEPT ![r] = slugify[n]] /\ actor' = [actor EXCEPT ![r] = r]
       /\ slug' = [slug EXCEPT ![r] = <<slugify[n], None>>]
  OBVIOUS
<1>2. slugify[n] \in Base /\ <<slugify[n], None>> \in Slugs
  BY Zenon DEF Slugs
<1>3. TypeOK'
  BY <1>1, <1>2, Zenon DEF Inv, TypeOK, Goto, store, InTx
<1>4. /\ \A q \in Req \ {r} : Same(q)
      /\ pc'[r] = "email" /\ pc[r] = "new" /\ Stands(r)
  BY <1>1 DEF Inv, TypeOK, Goto, store, Same
<1>5. Grown
  BY <1>1, <1>4 DEF Inv, TypeOK, store, Grown, Stands
<1>6. /\ put'[r] = {} /\ r \notin users' /\ tenants'[r] = None
      /\ actor'[r] = r /\ base'[r] \in Base /\ slug'[r] \in Slugs
  BY <1>1, <1>2, <1>4 DEF Inv, TypeOK, store, Stands, Inserted, InTx
<1>7. Stands(r)' /\ Cause(r)'
  BY <1>4, <1>6, Zenon DEF Stands, Cause, Inserted, InTx
<1>8. \A q \in Req \ {r} : Apart(r, q)'
  BY <1>6, Zenon DEF Apart, OwnsEmail, OwnsName, OwnsSlug, Slugs
<1>9. Paid'
  BY <1>3, <1>4, PaidAlready, Zenon
<1> QED
  BY <1>3, <1>4, <1>5, <1>7, <1>8, <1>9, FrameOthers, Zenon

\* Create
LEMMA CreateStep ==
  ASSUME Inv, NEW r \in Req, Create(r)
  PROVE  Inv'
<1> USE AccountsAssumption DEF Create
<1>1. PICK u \in users, b \in Base :
       /\ base' = [base EXCEPT ![r] = b] /\ actor' = [actor EXCEPT ![r] = u]
       /\ slug' = [slug EXCEPT ![r] = <<b, None>>]
  OBVIOUS
<1>2. <<b, None>> \in Slugs /\ u \in Req
  BY Zenon DEF Slugs, Inv, TypeOK
<1>3. TypeOK'
  BY <1>1, <1>2, Zenon DEF Inv, TypeOK, Goto, store, InTx
<1>4. /\ \A q \in Req \ {r} : Same(q)
      /\ pc'[r] = "slug" /\ pc[r] = "new" /\ Stands(r)
  BY <1>1 DEF Inv, TypeOK, Goto, store, Same
<1>5. Grown
  BY Zenon DEF store, Grown
<1>6. /\ put'[r] = {} /\ r \notin users' /\ tenants'[r] = None /\ u # r
      /\ actor'[r] = u /\ u \in users' /\ base'[r] \in Base /\ slug'[r] \in Slugs
  BY <1>1, <1>2, <1>4 DEF Inv, TypeOK, store, Stands, Inserted, InTx
<1>7. Stands(r)' /\ Cause(r)'
  BY <1>2, <1>4, <1>6, Zenon DEF Stands, Cause, Inserted, User, InTx
<1>8. \A q \in Req \ {r} : Apart(r, q)'
  BY <1>6, Zenon DEF Apart, OwnsEmail, OwnsName, OwnsSlug, Slugs
<1>9. Paid'
  BY <1>3, <1>4, PaidAlready, Zenon
<1> QED
  BY <1>3, <1>4, <1>5, <1>7, <1>8, <1>9, FrameOthers, Zenon

\* A transaction ends without a commit, or after it: the answer of a conflict
\* or of a fault.
LEMMA ReplyStep ==
  ASSUME Inv, NEW r \in Req, NEW code \in {"409", "500"}, Reply(r, code),
         UNCHANGED <<store, input, slug, att, sess>>, pc[r] \in InTx \cup {"session"},
         Cause(r)',
         \/ code = "409" /\ UNCHANGED faults
         \/ code = "500" /\ Fault
  PROVE  Inv'
<1> USE AccountsAssumption DEF Reply, Rollback
<1>1. TypeOK'
  <2>1. faults' \in 0..MaxFaults
    BY DEF Inv, TypeOK, Fault
  <2>2. put' \in [Req -> SUBSET {"email", "name", "slug", "member"}]
    BY Zenon DEF Inv, TypeOK
  <2> QED
    BY <2>1, <2>2, Zenon DEF Inv, TypeOK, Goto, store, input, Answers
<1>2. /\ \A q \in Req \ {r} : Same(q)
      /\ pc'[r] = code /\ put'[r] = {} /\ Stands(r) /\ pc[r] # "500"
  BY DEF Inv, TypeOK, Goto, store, input, Same, InTx
<1>3. Grown
  BY Zenon DEF store, input, Grown
<1>4. Stands(r)'
  BY <1>2, Zenon DEF Stands, Inserted, InTx, store, input
<1>5. OwnsNoMore(r)
  BY <1>2, Zenon DEF OwnsNoMore, OwnsEmail, OwnsName, OwnsSlug, store, input
<1>6. Paid'
  BY <1>1, <1>2, PaidAlready, PaidByFault, Zenon DEF Fault
<1> QED
  BY <1>1, <1>2, <1>3, <1>4, <1>5, <1>6, StaysApart, FrameOthers, Zenon

\* An insert that succeeds.
LEMMA InsertStep ==
  ASSUME Inv, NEW r \in Req, NEW x \in {"email", "name", "slug", "member"}, Insert(r, x),
         NEW l \in {"name", "slug", "member", "commit"}, Goto(r, l),
         UNCHANGED <<store, input, slug, att, sess, faults>>,
         \/ pc[r] = "email" /\ x = "email" /\ l = "name"
         \/ pc[r] = "name" /\ x = "name" /\ l = "slug"
         \/ pc[r] = "slug" /\ x = "slug" /\ l = "member"
         \/ pc[r] = "member" /\ x = "member" /\ l = "commit",
         \A q \in Req \ {r} : Apart(r, q)'
  PROVE  Inv'
<1> USE AccountsAssumption DEF Insert
<1>1. TypeOK'
  <2>1. put' \in [Req -> SUBSET {"email", "name", "slug", "member"}]
    BY Zenon DEF Inv, TypeOK
  <2> QED
    BY <2>1, Zenon DEF Inv, TypeOK, Goto, store, input, InTx
<1>2. /\ \A q \in Req \ {r} : Same(q)
      /\ pc'[r] = l /\ put'[r] = put[r] \cup {x} /\ Stands(r) /\ pc[r] # "500"
      /\ UNCHANGED <<users, tenants, members, actor, base, slug, sess>>
  BY DEF Inv, TypeOK, Goto, store, input, Same
<1>3. Grown
  BY Zenon DEF store, input, Grown
<1>4. put'[r] = Inserted(r)'
  <2>1. put[r] = Inserted(r) /\ (pc[r] \in {"email", "name"} => actor[r] = r) /\ User(r)' = User(r)
    BY <1>2, Zenon DEF Stands, User
  <2>2. CASE pc[r] = "email" /\ x = "email" /\ l = "name"
    BY <1>2, <2>1, <2>2, Zenon DEF Inserted
  <2>3. CASE pc[r] = "name" /\ x = "name" /\ l = "slug"
    BY <1>2, <2>1, <2>3, Zenon DEF Inserted, User
  <2>4. CASE pc[r] = "slug" /\ x = "slug" /\ l = "member"
    BY <1>2, <2>1, <2>4, Zenon DEF Inserted
  <2>5. CASE pc[r] = "member" /\ x = "member" /\ l = "commit"
    BY <1>2, <2>1, <2>5 DEF Inserted
  <2> QED
    BY <2>2, <2>3, <2>4, <2>5, Zenon
<1>5. Stands(r)' /\ Cause(r)'
  BY <1>2, <1>4, Zenon DEF Stands, InTx, Cause
<1>6. Paid'
  BY <1>1, <1>2, PaidAlready, Zenon
<1> QED
  BY <1>1, <1>2, <1>3, <1>5, <1>6, FrameOthers, Zenon

\* InsertEmail and InsertName
LEMMA InsertUserStep ==
  ASSUME Inv, NEW r \in Req, InsertEmail(r) \/ InsertName(r)
  PROVE  Inv'
<1> USE AccountsAssumption
<1>1. CASE InsertEmail(r)
  <2> DEFINE same == {q \in Req \ {r} : email[q] = email[r]}
  <2>1. /\ pc[r] = "email" /\ \A q \in same : "email" \notin put[q]
        /\ \/ same \cap users = {} /\ Insert(r, "email") /\ Goto(r, "name")
           \/ same \cap users # {} /\ Reply(r, "409")
        /\ UNCHANGED <<store, input, slug, att, sess, faults>>
    BY <1>1, Zenon DEF InsertEmail
  <2>2. CASE same \cap users # {} /\ Reply(r, "409")
    <3>1. Cause(r)'
      BY <2>1, <2>2, Zenon DEF Cause, store, input
    <3> QED
      BY <2>1, <2>2, <3>1, ReplyStep, Zenon DEF InTx
  <2>3. CASE same \cap users = {} /\ Insert(r, "email") /\ Goto(r, "name")
    <3>1. ASSUME NEW q \in Req \ {r} PROVE Apart(r, q)'
      <4>1. Apart(r, q) /\ put'[q] = put[q] /\ put'[r] = put[r] \cup {"email"}
        BY <2>3, Zenon DEF Inv, TypeOK, Insert
      <4>2. email[q] # email[r] \/ ("email" \notin put[q] /\ q \notin users)
        BY <2>1, <2>3, Zenon
      <4> QED
        BY <2>1, <4>1, <4>2, Zenon DEF Apart, OwnsEmail, OwnsName, OwnsSlug, store, input
    <3> QED
      BY <2>1, <2>3, <3>1, InsertStep, Zenon
  <2> QED
    BY <2>1, <2>2, <2>3, Zenon
<1>2. CASE InsertName(r)
  <2> DEFINE same == {q \in Req \ {r} : name[q] = name[r]}
  <2>1. /\ pc[r] = "name" /\ \A q \in same : "name" \notin put[q]
        /\ \/ same \cap users = {} /\ Insert(r, "name") /\ Goto(r, "slug")
           \/ same \cap users # {} /\ Reply(r, "409")
        /\ UNCHANGED <<store, input, slug, att, sess, faults>>
    BY <1>2, Zenon DEF InsertName
  <2>2. CASE same \cap users # {} /\ Reply(r, "409")
    <3>1. Cause(r)'
      BY <2>1, <2>2, Zenon DEF Cause, store, input
    <3> QED
      BY <2>1, <2>2, <3>1, ReplyStep, Zenon DEF InTx
  <2>3. CASE same \cap users = {} /\ Insert(r, "name") /\ Goto(r, "slug")
    <3>1. ASSUME NEW q \in Req \ {r} PROVE Apart(r, q)'
      <4>1. Apart(r, q) /\ put'[q] = put[q] /\ put'[r] = put[r] \cup {"name"}
        BY <2>3, Zenon DEF Inv, TypeOK, Insert
      <4>2. name[q] # name[r] \/ ("name" \notin put[q] /\ q \notin users)
        BY <2>1, <2>3, Zenon
      <4> QED
        BY <2>1, <4>1, <4>2, Zenon DEF Apart, OwnsEmail, OwnsName, OwnsSlug, store, input
    <3> QED
      BY <2>1, <2>3, <3>1, InsertStep, Zenon
  <2> QED
    BY <2>1, <2>2, <2>3, Zenon
<1> QED
  BY <1>1, <1>2, Zenon

\* TryCreateTenant
LEMMA TryCreateTenantStep ==
  ASSUME Inv, NEW r \in Req, TryCreateTenant(r)
  PROVE  Inv'
<1> USE AccountsAssumption
<1>1. /\ pc[r] = "slug" /\ Stands(r) /\ UNCHANGED <<store, input, sess, faults>>
      /\ \A q \in Req \ {r} : "slug" \in put[q] => slug[q] # slug[r]
  BY Zenon DEF TryCreateTenant, Inv
<1>2. CASE /\ \A q \in Req : tenants[q] # slug[r]
           /\ Insert(r, "slug") /\ Goto(r, "member") /\ UNCHANGED <<slug, att>>
  <2>1. ASSUME NEW q \in Req \ {r} PROVE Apart(r, q)'
    <3>1. Apart(r, q) /\ put'[q] = put[q] /\ put'[r] = put[r] \cup {"slug"}
      BY <1>2, Zenon DEF Inv, TypeOK, Insert
    <3>2. /\ tenants[q] # slug[r] /\ ("slug" \in put[q] => slug[q] # slug[r])
          /\ tenants[r] = None /\ None \notin Slugs
      BY <1>1, <1>2, Zenon DEF Stands, InTx, Slugs
    <3>3. \A s \in Slugs : ~(OwnsSlug(r, s)' /\ OwnsSlug(q, s)')
      BY <1>1, <1>2, <3>1, <3>2, Zenon DEF OwnsSlug, store
    <3> QED
      BY <1>1, <3>1, <3>3, Zenon DEF Apart, OwnsEmail, OwnsName, store, input
  <2> QED
    BY <1>1, <1>2, <2>1, InsertStep, Zenon
<1>3. CASE att[r] >= MaxRetry /\ Reply(r, "409") /\ UNCHANGED <<slug, att>>
  <2>1. att[r] = MaxRetry
    BY <1>3 DEF Inv, TypeOK
  <2>2. Cause(r)'
    BY <1>3, <2>1, Zenon DEF Cause
  <2> QED
    BY <1>1, <1>3, <2>2, ReplyStep, Zenon DEF InTx
<1>4. CASE /\ att[r] < MaxRetry /\ att' = [att EXCEPT ![r] = @ + 1]
           /\ \E x \in Suffix : slug' = [slug EXCEPT ![r] = <<base[r], x>>]
           /\ UNCHANGED <<pc, put>>
  <2>1. PICK x \in Suffix : slug' = [slug EXCEPT ![r] = <<base[r], x>>]
    BY <1>4, Zenon
  <2>2. <<base[r], x>> \in Slugs
    BY <1>1, Zenon DEF Stands, InTx, Slugs
  <2>3. TypeOK'
    <3>1. att' \in [Req -> 0..MaxRetry]
      BY <1>4 DEF Inv, TypeOK
    <3>2. slug' \in [Req -> Slugs \cup {None}]
      BY <2>1, <2>2, Zenon DEF Inv, TypeOK
    <3> QED
      BY <1>1, <1>4, <3>1, <3>2, Zenon DEF Inv, TypeOK, store, input
  <2>4. /\ \A q \in Req \ {r} : Same(q)
        /\ slug'[r] = <<base[r], x>>
        /\ UNCHANGED <<users, tenants, members, actor, base, put, pc, sess, email, name>>
    BY <1>1, <1>4, <2>1 DEF Inv, TypeOK, store, input, Same
  <2>5. Grown
    BY <2>4, Zenon DEF Grown
  <2>6. "slug" \notin put[r]
    BY <1>1, Zenon DEF Stands, Inserted, User
  <2>7. Stands(r)' /\ Cause(r)'
    BY <1>1, <2>2, <2>4, Zenon DEF Stands, Inserted, User, Cause
  <2>8. OwnsNoMore(r)
    BY <2>4, <2>6, Zenon DEF OwnsNoMore, OwnsEmail, OwnsName, OwnsSlug
  <2>9. Paid'
    BY <1>1, <2>3, <2>4, PaidAlready, Zenon
  <2> QED
    BY <2>3, <2>4, <2>5, <2>7, <2>8, <2>9, StaysApart, FrameOthers, Zenon
<1> QED
  BY <1>2, <1>3, <1>4, Zenon DEF TryCreateTenant, SlugTaken

\* AddMembership
LEMMA AddMembershipStep ==
  ASSUME Inv, NEW r \in Req, AddMembership(r)
  PROVE  Inv'
<1> USE DEF AddMembership
<1>1. ASSUME NEW q \in Req \ {r} PROVE Apart(r, q)'
  <2>1. Apart(r, q) /\ put'[q] = put[q] /\ put'[r] = put[r] \cup {"member"}
    BY Zenon DEF Inv, TypeOK, Insert
  <2> QED
    BY <2>1, Zenon DEF Apart, OwnsEmail, OwnsName, OwnsSlug, store, input
<1> QED
  BY <1>1, InsertStep, Zenon

\* Commit: the request owns afterwards what its transaction had inserted.
LEMMA CommitStep ==
  ASSUME Inv, NEW r \in Req, Commit(r)
  PROVE  Inv'
<1> USE AccountsAssumption DEF Commit
<1>1. /\ pc[r] = "commit" /\ Stands(r) /\ put[r] = User(r) \cup {"slug", "member"}
      /\ slug[r] \in Slugs /\ actor[r] \in Req /\ (actor[r] # r => actor[r] \in users)
      /\ r \notin users /\ tenants[r] = None
  BY Zenon DEF Inv, Stands, Inserted, InTx
<1>2. /\ users' = IF actor[r] = r THEN users \cup {r} ELSE users
      /\ tenants' = [tenants EXCEPT ![r] = slug[r]]
      /\ members' = members \cup {<<actor[r], r>>}
      /\ UNCHANGED <<input, slug, att, sess>>
  BY <1>1, Zenon DEF Visible, User
<1>3. PICK code \in {"session", "201", "500"} : Reply(r, code)
  BY <1>1, Zenon
<1>4. /\ pc' = [pc EXCEPT ![r] = code] /\ put' = [put EXCEPT ![r] = {}]
      /\ pc'[r] = code
  BY <1>3 DEF Reply, Rollback, Goto, Inv, TypeOK
<1>5. /\ code = "session" => actor[r] = r
      /\ code = "201" => actor[r] # r
      /\ code = "500" => Fault
      /\ code # "500" => UNCHANGED faults
  BY <1>3, <1>4 DEF Reply, Goto, Inv, TypeOK
<1>6. TypeOK'
  <2>1. faults' \in 0..MaxFaults
    BY <1>5 DEF Inv, TypeOK, Fault
  <2>2. put' \in [Req -> SUBSET {"email", "name", "slug", "member"}]
    BY <1>4, Zenon DEF Inv, TypeOK
  <2>3. /\ users' \subseteq Req /\ tenants' \in [Req -> Slugs \cup {None}]
        /\ members' \subseteq Req \X Req
    BY <1>1, <1>2 DEF Inv, TypeOK
  <2>4. pc' \in [Req -> {"new", "session"} \cup InTx \cup Answers]
    BY <1>4, Zenon DEF Inv, TypeOK, Answers
  <2>5. UNCHANGED <<email, name, base, actor, slug, att, sess>>
    BY <1>2, Zenon DEF input
  <2> QED
    BY <2>1, <2>2, <2>3, <2>4, <2>5, Zenon DEF Inv, TypeOK
<1>7. /\ \A q \in Req \ {r} : Same(q)
      /\ tenants'[r] = slug[r] /\ put'[r] = {}
      /\ UNCHANGED <<email, name, actor, slug>>
  BY <1>2, <1>4 DEF Inv, TypeOK, input, Same
<1>8. Grown
  BY <1>2, <1>7, Zenon DEF Grown
<1>9. Stands(r)' /\ Cause(r)'
  <2>1. slug[r] # None
    BY <1>1, Zenon DEF Slugs
  <2>2. r \in users' <=> actor[r] = r
    BY <1>1, <1>2, Zenon
  <2>3. actor[r] \in users' /\ <<actor[r], r>> \in members'
    BY <1>1, <1>2, Zenon
  <2>4. Inserted(r)' = {}
    BY <1>4, Zenon DEF Inserted
  <2> QED
    BY <1>1, <1>4, <1>5, <1>7, <2>1, <2>2, <2>3, <2>4, Zenon DEF Stands, Cause, InTx
<1>10. OwnsNoMore(r)
  <2>1. OwnsEmail(r)' => OwnsEmail(r)
    BY <1>1, <1>2, <1>7, Zenon DEF OwnsEmail, User
  <2>2. OwnsName(r)' => OwnsName(r)
    BY <1>1, <1>2, <1>7, Zenon DEF OwnsName, User
  <2>3. \A s \in Slugs : OwnsSlug(r, s)' => OwnsSlug(r, s)
    BY <1>1, <1>7, Zenon DEF OwnsSlug
  <2> QED
    BY <1>7, <2>1, <2>2, <2>3, Zenon DEF OwnsNoMore
<1>11. Paid'
  BY <1>1, <1>4, <1>5, <1>6, <1>7, PaidAlready, PaidByFault, Zenon DEF Fault
<1> QED
  BY <1>6, <1>7, <1>8, <1>9, <1>10, <1>11, StaysApart, FrameOthers, Zenon

\* WriteSession
LEMMA WriteSessionStep ==
  ASSUME Inv, NEW r \in Req, WriteSession(r)
  PROVE  Inv'
<1> USE DEF WriteSession
<1>1. TypeOK'
  BY Zenon DEF Inv, TypeOK, Goto, store, input, work, Answers
<1>2. /\ \A q \in Req \ {r} : Same(q)
      /\ pc'[r] = "201" /\ pc[r] = "session" /\ Stands(r)
      /\ sess'[r] = {t \in Req : <<r, t>> \in members}
      /\ UNCHANGED <<users, tenants, members, actor, base, put, slug, email, name>>
  BY Zenon DEF Inv, TypeOK, Goto, store, input, work, Same
<1>3. Grown
  BY <1>2, Zenon DEF Grown
<1>4. r \in sess'[r]
  BY <1>2, Zenon DEF Stands
<1>5. Stands(r)' /\ Cause(r)'
  BY <1>2, <1>4, Zenon DEF Stands, Inserted, Cause, InTx
<1>6. OwnsNoMore(r)
  BY <1>2, Zenon DEF OwnsNoMore, OwnsEmail, OwnsName, OwnsSlug
<1>7. Paid'
  BY <1>1, <1>2, PaidAlready, Zenon
<1> QED
  BY <1>1, <1>2, <1>3, <1>5, <1>6, <1>7, StaysApart, FrameOthers, Zenon

\* Fail
LEMMA FailStep ==
  ASSUME Inv, NEW r \in Req, Fail(r)
  PROVE  Inv'
<1>1. pc'[r] = "500"
  BY Zenon DEF Fail, Reply, Goto, Inv, TypeOK
<1>2. Cause(r)'
  BY <1>1, Zenon DEF Cause
<1> QED
  BY <1>2, ReplyStep, Zenon DEF Fail
-----------------------------------------------------------------------------
\* Every step keeps the invariant.
LEMMA InvStep == Inv /\ [Next]_vars => Inv'
<1> SUFFICES ASSUME Inv, [Next]_vars PROVE Inv'
  OBVIOUS
<1>1. ASSUME NEW r \in Req, Register(r) \/ Create(r) \/ Handle(r) \/ Fail(r)
      PROVE  Inv'
  BY <1>1, RegisterStep, CreateStep, FailStep, InsertUserStep, TryCreateTenantStep,
     AddMembershipStep, CommitStep, WriteSessionStep, Zenon DEF Handle
<1>2. CASE UNCHANGED vars
  <2> USE <1>2 DEF vars, store, input, work
  <2>1. TypeOK' /\ Paid'
    BY Zenon DEF Inv, TypeOK, Paid, Failed
  <2>2. ASSUME NEW r \in Req PROVE Stands(r)' /\ Cause(r)'
    BY DEF Inv, Stands, Inserted, User, Cause
  <2>3. \A r, q \in Req : r # q => Apart(r, q)'
    BY DEF Inv, Apart, OwnsEmail, OwnsName, OwnsSlug
  <2> QED
    BY <2>1, <2>2, <2>3, Zenon DEF Inv
<1> QED
  BY <1>1, <1>2, Zenon DEF Next, Done

\* The invariant holds of Spec.
THEOREM AccountsInv == Spec => []Inv
  BY InitInv, InvStep, PTL DEF Spec

\* AccountsWhole: register's and POST /tenants' single transaction, whatever
\* fails around it.
THEOREM Whole == Spec => []AccountsWhole
<1>1. Inv => AccountsWhole
  BY Zenon DEF Inv, TypeOK, AccountsWhole, Stands
<1> QED
  BY <1>1, AccountsInv, PTL

\* KeysUnique: the unique indexes and the retries of createTenantTx.
THEOREM Unique == Spec => []KeysUnique
<1>1. ASSUME Inv PROVE KeysUnique
  <2>1. \A u, v \in users : u # v => email[u] # email[v] /\ name[u] # name[v]
    BY <1>1, Zenon DEF Inv, TypeOK, Apart, OwnsEmail, OwnsName
  <2>2. \A t, s \in Req : tenants[t] # None /\ tenants[t] = tenants[s] => t = s
    BY <1>1, Zenon DEF Inv, TypeOK, Apart, OwnsSlug
  <2> QED
    BY <2>1, <2>2, Zenon DEF KeysUnique
<1> QED
  BY <1>1, AccountsInv, PTL

\* ErrorsHaveCauses: createTenantTx's savepoints keep a collision from
\* becoming a 500.
THEOREM Causes == Spec => []ErrorsHaveCauses
<1>1. Inv => ErrorsHaveCauses
  BY Zenon DEF Inv, ErrorsHaveCauses, Paid, Failed, Cause
<1> QED
  BY <1>1, AccountsInv, PTL
=============================================================================
