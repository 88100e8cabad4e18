------------------------------ MODULE Accounts ------------------------------
(***************************************************************************)
(* POST /auth/register and POST /tenants: one transaction that inserts a   *)
(* user (register only), a tenant under a free slug, and the owner         *)
(* membership.  createTenantTx tries the slug of the name first and then   *)
(* suffixed ones, each in a savepoint.  An insert waits for the open       *)
(* transaction that holds the same key of a unique index, conflicts if     *)
(* that transaction commits, and goes on if it rolls back.                 *)
(*                                                                         *)
(* The user and the tenant a request creates are named after the request.  *)
(* A failed call, a client that disconnects and a crash take one unit of   *)
(* MaxFaults each.                                                         *)
(***************************************************************************)
EXTENDS Integers, FiniteSets

CONSTANTS
  Req,         \* requests
  Email, Name, \* of the users that register
  Base,        \* what slugify makes of names
  slugify,     \* Name -> Base: "Bob" and "bob" share a slug
  Suffix,      \* the suffixes uuid.NewString()[:4] may draw
  MaxRetry,    \* suffixed attempts of createTenantTx (4 in the code)
  MaxFaults,   \* bound on the faults of a behaviour
  None

ASSUME AccountsAssumption ==
  /\ slugify \in [Name -> Base] /\ None \notin Req \cup Email \cup Name \cup Suffix
  /\ None \notin Base \X (Suffix \cup {None})
  /\ MaxRetry \in Nat /\ MaxFaults \in Nat

VARIABLES
  users,    \* committed users
  tenants,  \* slug of each committed tenant, or None
  members,  \* committed memberships <<user, tenant>>, all with role owner
  pc,       \* the call a request makes next, or its answer
  email, name, base, actor,  \* its inputs; actor is the user that owns the tenant
  put,      \* what its open transaction has inserted
  slug,     \* the slug createTenantTx tries, or has inserted
  att,      \* suffixed attempts so far
  sess,     \* the tenants listed in the session of a registration
  faults

store == <<users, tenants, members>>
input == <<email, name, base, actor>>
work  == <<put, slug, att>>
vars  == <<store, pc, input, work, sess, faults>>

Slugs == Base \X (Suffix \cup {None})
InTx == {"email", "name", "slug", "member", "commit"}
Answers == {"201", "409", "500"}

\* The type invariant: createTenantTx makes at most MaxRetry further attempts.
TypeOK ==
  /\ users \subseteq Req /\ tenants \in [Req -> Slugs \cup {None}]
  /\ members \subseteq Req \X Req
  /\ pc \in [Req -> {"new", "session"} \cup InTx \cup Answers]
  /\ email \in [Req -> Email \cup {None}] /\ name \in [Req -> Name \cup {None}]
  /\ base \in [Req -> Base \cup {None}] /\ actor \in [Req -> Req \cup {None}]
  /\ put \in [Req -> SUBSET {"email", "name", "slug", "member"}]
  /\ slug \in [Req -> Slugs \cup {None}] /\ att \in [Req -> 0..MaxRetry]
  /\ sess \in [Req -> SUBSET Req]
  /\ faults \in 0..MaxFaults

Init ==
  /\ users = {} /\ tenants = [r \in Req |-> None] /\ members = {}
  /\ pc = [r \in Req |-> "new"]
  /\ email = [r \in Req |-> None] /\ name = [r \in Req |-> None]
  /\ base = [r \in Req |-> None] /\ actor = [r \in Req |-> None]
  /\ put = [r \in Req |-> {}] /\ slug = [r \in Req |-> None] /\ att = [r \in Req |-> 0]
  /\ sess = [r \in Req |-> {}] /\ faults = 0

Fault == faults < MaxFaults /\ faults' = faults + 1
Goto(r, l) == pc' = [pc EXCEPT ![r] = l]
Insert(r, x) == put' = [put EXCEPT ![r] = @ \cup {x}]

\* tx.Rollback, deferred by both handlers, drops what the transaction inserted.
Rollback_Mutant(r) == UNCHANGED put
Rollback(r) == put' = [put EXCEPT ![r] = {}]
Reply(r, code) == Goto(r, code) /\ Rollback(r)

-----------------------------------------------------------------------------
\* Register after validation and hashing, and Create after validation by a
\* user that is registered: Begin.
Register(r) ==
  /\ pc[r] = "new" /\ Goto(r, "email")
  /\ \E e \in Email, n \in Name :
       /\ email' = [email EXCEPT ![r] = e] /\ name' = [name EXCEPT ![r] = n]
       /\ base' = [base EXCEPT ![r] = slugify[n]] /\ actor' = [actor EXCEPT ![r] = r]
       /\ slug' = [slug EXCEPT ![r] = <<slugify[n], None>>]
  /\ UNCHANGED <<store, put, att, sess, faults>>

Create(r) ==
  /\ pc[r] = "new" /\ Goto(r, "slug")
  /\ \E u \in users, b \in Base :
       /\ base' = [base EXCEPT ![r] = b] /\ actor' = [actor EXCEPT ![r] = u]
       /\ slug' = [slug EXCEPT ![r] = <<b, None>>]
  /\ UNCHANGED <<store, email, name, put, att, sess, faults>>

\* CreateUser enters the row into the index on email and then into the one on
\* username; a duplicate of either is answered 409.
InsertEmail(r) ==
  LET same == {q \in Req \ {r} : email[q] = email[r]} IN
  /\ pc[r] = "email" /\ \A q \in same : "email" \notin put[q]
  /\ \/ same \cap users = {} /\ Insert(r, "email") /\ Goto(r, "name")
     \/ same \cap users # {} /\ Reply(r, "409")
  /\ UNCHANGED <<store, input, slug, att, sess, faults>>

InsertName(r) ==
  LET same == {q \in Req \ {r} : name[q] = name[r]} IN
  /\ pc[r] = "name" /\ \A q \in same : "name" \notin put[q]
  /\ \/ same \cap users = {} /\ Insert(r, "name") /\ Goto(r, "slug")
     \/ same \cap users # {} /\ Reply(r, "409")
  /\ UNCHANGED <<store, input, slug, att, sess, faults>>

\* A slug that is taken aborts the savepoint only, and another one is tried
\* until the attempts run out.
\* (Without the savepoint the transaction would be lost and the next statement
\* fail with 25P02.)
SlugTaken_Mutant(r) == Reply(r, "500") /\ UNCHANGED <<slug, att>>
SlugTaken(r) ==
  \/ /\ att[r] < MaxRetry /\ att' = [att EXCEPT ![r] = @ + 1]
     /\ \E x \in Suffix : slug' = [slug EXCEPT ![r] = <<base[r], x>>]
     /\ UNCHANGED <<pc, put>>
  \/ att[r] >= MaxRetry /\ Reply(r, "409") /\ UNCHANGED <<slug, att>>

\* tryCreateTenantTx.  (The mutant looks the slug up instead of relying on the
\* unique index.)
TryCreateTenant_Mutant(r) ==
  /\ pc[r] = "slug"
  /\ \/ /\ \A q \in Req : tenants[q] # slug[r]
        /\ Insert(r, "slug") /\ Goto(r, "member") /\ UNCHANGED <<slug, att>>
     \/ (\E q \in Req : tenants[q] = slug[r]) /\ SlugTaken(r)
  /\ UNCHANGED <<store, input, sess, faults>>
TryCreateTenant(r) ==
  /\ pc[r] = "slug"
  /\ \A q \in Req \ {r} : "slug" \in put[q] => slug[q] # slug[r]
  /\ \/ /\ \A q \in Req : tenants[q] # slug[r]
        /\ Insert(r, "slug") /\ Goto(r, "member") /\ UNCHANGED <<slug, att>>
     \/ (\E q \in Req : tenants[q] = slug[r]) /\ SlugTaken(r)
  /\ UNCHANGED <<store, input, sess, faults>>

AddMembership(r) ==
  /\ pc[r] = "member" /\ Insert(r, "member") /\ Goto(r, "commit")
  /\ UNCHANGED <<store, input, slug, att, sess, faults>>

\* What the transaction inserted becomes visible at once.  (The mutant commits
\* the tenant and adds the owner outside the transaction.)
Visible_Mutant(r) ==
  /\ users' = IF "email" \in put[r] THEN users \cup {r} ELSE users
  /\ tenants' = [tenants EXCEPT ![r] = slug[r]]
  /\ UNCHANGED members
Visible(r) ==
  /\ users' = IF "email" \in put[r] THEN users \cup {r} ELSE users
  /\ tenants' = [tenants EXCEPT ![r] = slug[r]]
  /\ members' = IF "member" \in put[r] THEN members \cup {<<actor[r], r>>} ELSE members

\* Commit; its reply may be lost.
Commit(r) ==
  /\ pc[r] = "commit" /\ Visible(r)
  /\ \/ UNCHANGED faults /\ Reply(r, IF actor[r] = r THEN "session" ELSE "201")
     \/ Fault /\ Reply(r, "500")
  /\ UNCHANGED <<input, slug, att, sess>>

\* writeSession resolves the memberships of the new user.
WriteSession(r) ==
  /\ pc[r] = "session" /\ Goto(r, "201")
  /\ sess' = [sess EXCEPT ![r] = {t \in Req : <<r, t>> \in members}]
  /\ UNCHANGED <<store, input, work, faults>>

\* A call fails, the client disconnects or the gateway dies: the transaction
\* is rolled back, and a session that could not be written does not undo the
\* account.
Fail(r) ==
  /\ pc[r] \in InTx \cup {"session"} /\ Fault /\ Reply(r, "500")
  /\ UNCHANGED <<store, input, slug, att, sess>>

Handle(r) ==
  \/ InsertEmail(r) \/ InsertName(r) \/ TryCreateTenant(r) \/ AddMembership(r)
  \/ Commit(r) \/ WriteSession(r)
Done == (\A r \in Req : pc[r] \in Answers) /\ UNCHANGED vars
Next == (\E r \in Req : Register(r) \/ Create(r) \/ Handle(r) \/ Fail(r)) \/ Done

Spec == Init /\ [][Next]_vars
\* A handler goes on as soon as Postgres lets it.
FairSpec == Spec /\ \A r \in Req : WF_vars(Handle(r))

-----------------------------------------------------------------------------
\* Accounts are whole: at every moment a committed tenant has its owner, a
\* registered user owns its personal tenant, and the session of a registration
\* lists it ("a brand-new user always has exactly one", auth.go:345), whatever
\* failed or crashed in between.
AccountsWhole ==
  /\ \A t \in Req : tenants[t] # None => actor[t] \in users /\ <<actor[t], t>> \in members
  /\ \A u \in users : tenants[u] # None /\ (pc[u] = "201" => u \in sess[u])

\* No two users share an email or a username, and no two tenants a slug.
KeysUnique ==
  /\ \A u, v \in users : u # v => email[u] # email[v] /\ name[u] # name[v]
  /\ \A t, s \in Req : tenants[t] # None /\ tenants[t] = tenants[s] => t = s

\* An error has a cause: 500 is a call that failed, never a slug collision
\* (createTenantTx's savepoints), and 409 is an email or username that another
\* user has, or a collision in every attempt.
ErrorsHaveCauses ==
  /\ Cardinality({r \in Req : pc[r] = "500"}) <= faults
  /\ \A r \in Req : pc[r] = "409" =>
       \/ att[r] = MaxRetry
       \/ \E u \in users \ {r} : email[u] = email[r] \/ name[u] = name[r]

\* Requests that wait for each other's unique keys are all answered: no
\* deadlock, and no key is held by a transaction that is over.
EveryoneAnswered == \A r \in Req : pc[r] # "new" ~> pc[r] \in Answers
=============================================================================
