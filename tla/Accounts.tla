----------------------------- MODULE Accounts -----------------------------
(***************************************************************************)
(* Users and API keys as the administration API changes them               *)
(* (src/src/admin/users.rs, api_keys/handlers.rs, auth/).  A caller is who *)
(* his token says: auth_middleware looks up whether the user is in the     *)
(* cache of active users, and takes the role from the token, which is      *)
(* never revoked.  A handler then finds the rows it needs, writes, and     *)
(* fills the cache of users or that of keys anew; any of its statements    *)
(* may fail, and it is dropped when its client leaves.  One tenant; of the *)
(* usernames, only "admin" matters.  Passwords are left out, limits are in *)
(* UserCache.                                                              *)
(***************************************************************************)
EXTENDS Naturals, FiniteSets

CONSTANTS
  Users, Keys,    \* ids, which do not return
  Unborn, Gone,   \* an id without a row: not yet, no longer
  Nobody,         \* the caller of register
  Keep,           \* a field that a request leaves out
  Tasks,          \* requests at work
  Asked,          \* bound: what the handlers are asked for, a subset of Jobs
  MaxJobs         \* bound: requests per behavior

Names == {"admin", "own"}
UserRows == [name : Names, admin : BOOLEAN, active : BOOLEAN]
KeyRows == [owner : Users, active : BOOLEAN]
Field == BOOLEAN \cup {Keep}

Creates == [op : {"create"}, user : Users, name : Names, admin : BOOLEAN]
Edits == [op : {"edit"}, user : Users, admin : Field, active : Field]
Deletes == [op : {"delete"}, user : Users]
KeyJobs == [op : {"issue"}, key : Keys, user : Users]
             \cup [op : {"toggle"}, key : Keys, active : BOOLEAN]
             \cup [op : {"revoke"}, key : Keys]
UserJobs == Creates \cup Edits \cup Deletes
Jobs == UserJobs \cup KeyJobs
NoJob == [op |-> "none"]
NoCaller == [user |-> Nobody, admin |-> FALSE]

ASSUME AccountsAssumption ==
  /\ Unborn \notin UserRows \cup KeyRows /\ Gone \notin UserRows \cup KeyRows
  /\ Unborn # Gone /\ Keep \notin BOOLEAN /\ Nobody \notin Users
  /\ Asked \subseteq Jobs
  /\ MaxJobs \in Nat

VARIABLES
  row,       \* row[u]: table users
  key,       \* key[k]: table api_keys
  known,     \* StoreManager.users: the ids in it
  honoured,  \* StoreManager.api_keys: the ids in it
  tokens,    \* <<user, whether the token says admin>>
  pc,        \* where the handler of task t is
  job,       \* job[t]: what it was asked for
  caller,    \* caller[t]: AuthUser, as the token has it
  snap,      \* snap[t]: what its reload has fetched
  jobs,      \* requests so far
  outdated,  \* history: users were changed by one who was no administrator
  crossed,   \* history: tasks whose reload overlapped another of that cache
  hazy       \* history: caches whose last reload overlapped or failed

tables == <<row, key>>
caches == <<known, honoured>>
local == <<job, caller>>
accounts == <<tables, caches, tokens, pc, local, snap, jobs, outdated,
              crossed, hazy>>

IsUser(u) == row[u] \notin {Unborn, Gone}
IsKey(k) == key[k] \notin {Unborn, Gone}
ActiveAdmin(u) == IsUser(u) /\ row[u].admin /\ row[u].active

\* admin_exists: a user with role 'admin' and status 'active'.
AdminExists == \E u \in Users : ActiveAdmin(u)

NameTaken(name) == name = "admin" /\ \E u \in Users : IsUser(u) /\ row[u].name = "admin"

\* What the two reloads select.
ActiveUsers == {u \in Users : IsUser(u) /\ row[u].active}
ActiveKeys == {k \in Keys : IsKey(k) /\ key[k].active}

Cache(j) == IF j \in UserJobs THEN "users" ELSE "keys"
Quiet == \A t \in Tasks : pc[t] = "idle"

AccountsTypeOK ==
  /\ row \in [Users -> UserRows \cup {Unborn, Gone}]
  /\ key \in [Keys -> KeyRows \cup {Unborn, Gone}]
  /\ known \in SUBSET Users /\ honoured \in SUBSET Keys
  /\ tokens \in SUBSET (Users \X BOOLEAN)
  /\ pc \in [Tasks -> {"idle", "find", "write", "fetch", "install"}]
  /\ job \in [Tasks -> Jobs \cup {NoJob}]
  /\ \A t \in Tasks : pc[t] # "idle" => job[t] \in Jobs
  /\ caller \in [Tasks -> [user : Users \cup {Nobody}, admin : BOOLEAN]]
  /\ snap \in [Tasks -> (SUBSET Users) \cup (SUBSET Keys)]
  /\ \A t \in Tasks : pc[t] = "install" =>
       snap[t] \subseteq IF job[t] \in UserJobs THEN Users ELSE Keys
  /\ jobs \in Nat
  /\ outdated \in BOOLEAN
  /\ crossed \in SUBSET Tasks
  /\ hazy \in SUBSET {"users", "keys"}

\* A new database, before the first start.
AccountsInit ==
  /\ row = [u \in Users |-> Unborn]
  /\ key = [k \in Keys |-> Unborn]
  /\ known = {} /\ honoured = {} /\ tokens = {}
  /\ pc = [t \in Tasks |-> "idle"]
  /\ job = [t \in Tasks |-> NoJob]
  /\ caller = [t \in Tasks |-> NoCaller]
  /\ snap = [t \in Tasks |-> {}]
  /\ jobs = 0
  /\ outdated = FALSE
  /\ crossed = {} /\ hazy = {}

\* The handler of t is over, and its locals with it.
Return(t) ==
  /\ pc' = [pc EXCEPT ![t] = "idle"]
  /\ job' = [job EXCEPT ![t] = NoJob]
  /\ caller' = [caller EXCEPT ![t] = NoCaller]
  /\ snap' = [snap EXCEPT ![t] = {}]
-----------------------------------------------------------------------------
\* login: the token takes its role from the row.
Login(u) ==
  /\ u \in ActiveUsers
  /\ tokens' = tokens \cup {<<u, row[u].admin>>}
  /\ UNCHANGED <<tables, caches, pc, local, snap, jobs, outdated, crossed, hazy>>

\* Mutant of Allowed: an administrator may disable himself.
AllowedSelf(u, admin, j) ==
  /\ j \in UserJobs => admin
  /\ j \in Deletes => j.user # u
  /\ j \in Edits /\ j.user = u => j.admin # FALSE
  /\ j.op = "issue" /\ ~admin => j.user = u

\* What the claims decide before anything is read: who may change users, that
\* he may not demote, disable or delete himself, and that a user who is no
\* administrator gets keys for himself, whatever user_id he sends.
Allowed(u, admin, j) ==
  /\ j \in UserJobs => admin
  /\ j \in Deletes => j.user # u
  /\ j \in Edits /\ j.user = u => j.admin # FALSE /\ j.active # FALSE
  /\ j.op = "issue" /\ ~admin => j.user = u

Accept(t, j, u, admin) ==
  /\ pc[t] = "idle" /\ jobs < MaxJobs
  /\ jobs' = jobs + 1
  /\ job' = [job EXCEPT ![t] = j]
  /\ caller' = [caller EXCEPT ![t] = [user |-> u, admin |-> admin]]
  /\ pc' = [pc EXCEPT ![t] = "find"]
  /\ UNCHANGED <<tables, caches, tokens, snap, outdated, crossed, hazy>>

\* A request that auth_middleware and its handler let in.
Ask(t) == \E tok \in tokens, j \in Asked :
  /\ tok[1] \in known
  /\ Allowed(tok[1], tok[2], j)
  /\ Accept(t, j, tok[1], tok[2])

\* register needs no token and creates a user without rights.
Register(t) == \E j \in Asked \cap Creates :
  ~j.admin /\ Accept(t, j, Nobody, FALSE)

\* What a handler must find, and may not find, before it writes.
Found(t) == LET j == job[t] IN
  /\ j \in Creates => ~NameTaken(j.name)
  /\ j \in Edits \cup Deletes => IsUser(j.user)
  /\ j \in Deletes => ~row[j.user].admin            \* users::delete
  /\ j.op = "issue" /\ caller[t].admin => IsUser(j.user)
  /\ j.op \in {"toggle", "revoke"} =>
       IsKey(j.key) /\ (caller[t].admin \/ key[j.key].owner = caller[t].user)

Find(t) ==
  /\ pc[t] = "find"
  /\ IF Found(t)
     THEN pc' = [pc EXCEPT ![t] = "write"] /\ UNCHANGED <<local, snap>>
     ELSE Return(t)
  /\ UNCHANGED <<tables, caches, tokens, jobs, outdated, crossed, hazy>>

\* The fields of a user that COALESCE leaves or sets.
Edited(old, j) ==
  [old EXCEPT !.admin = IF j.admin = Keep THEN @ ELSE j.admin,
              !.active = IF j.active = Keep THEN @ ELSE j.active]

WriteUser(j) ==
  /\ UNCHANGED key
  /\ \/ /\ j \in Creates
        /\ row[j.user] = Unborn /\ ~NameTaken(j.name)
        /\ row' = [row EXCEPT ![j.user] =
                     [name |-> j.name, admin |-> j.admin, active |-> TRUE]]
     \/ /\ j \in Edits
        /\ IsUser(j.user)
        /\ row' = [row EXCEPT ![j.user] = Edited(@, j)]
     \/ /\ j \in Deletes
        /\ IsUser(j.user)
        /\ \A k \in Keys : IsKey(k) => key[k].owner # j.user  \* foreign keys
        /\ row' = [row EXCEPT ![j.user] = Gone]

WriteKey(j) ==
  /\ UNCHANGED row
  /\ \/ /\ j.op = "issue"
        /\ key[j.key] = Unborn /\ IsUser(j.user)
        /\ key' = [key EXCEPT ![j.key] = [owner |-> j.user, active |-> TRUE]]
     \/ /\ j.op = "toggle"
        /\ IsKey(j.key)
        /\ key' = [key EXCEPT ![j.key].active = j.active]
     \/ /\ j.op = "revoke"
        /\ IsKey(j.key)
        /\ key' = [key EXCEPT ![j.key] = Gone]

\* The statement that changes the row.
Write(t) ==
  /\ pc[t] = "write"
  /\ \/ job[t] \in UserJobs /\ WriteUser(job[t])
     \/ job[t] \in KeyJobs /\ WriteKey(job[t])
  /\ pc' = [pc EXCEPT ![t] = "fetch"]
  /\ outdated' = (outdated \/ /\ job[t] \in UserJobs
                              /\ caller[t].user # Nobody
                              /\ ~ActiveAdmin(caller[t].user))
  /\ UNCHANGED <<caches, tokens, local, snap, jobs, crossed, hazy>>

\* Tasks with a reload of the same cache between its query and its end.
Rivals(t) == {o \in Tasks \ {t} : pc[o] = "install" /\ Cache(job[o]) = Cache(job[t])}

\* A statement fails, changes no row, or is refused by a constraint, or the
\* client has left: the handler ends here, before its reload.
Abort(t) ==
  /\ pc[t] \in {"find", "write", "fetch"}
  /\ Return(t)
  /\ IF pc[t] = "fetch"
     THEN hazy' = hazy \cup {Cache(job[t])} /\ crossed' = crossed \cup Rivals(t)
     ELSE UNCHANGED <<hazy, crossed>>
  /\ UNCHANGED <<tables, caches, tokens, jobs, outdated>>

\* reload_users, reload_api_keys: the query.
Fetch(t) ==
  /\ pc[t] = "fetch"
  /\ snap' = [snap EXCEPT ![t] = IF job[t] \in UserJobs THEN ActiveUsers ELSE ActiveKeys]
  /\ crossed' = IF Rivals(t) = {} THEN crossed \ {t} ELSE crossed \cup Rivals(t) \cup {t}
  /\ pc' = [pc EXCEPT ![t] = "install"]
  /\ UNCHANGED <<tables, caches, tokens, local, jobs, outdated, hazy>>

\* Mutant of Install: the reload adds what it fetched and clears nothing.
InstallOver(t) ==
  /\ pc[t] = "install"
  /\ IF job[t] \in UserJobs
     THEN known' = known \cup snap[t] /\ UNCHANGED honoured
     ELSE honoured' = honoured \cup snap[t] /\ UNCHANGED known
  /\ hazy' = IF t \in crossed THEN hazy \cup {Cache(job[t])} ELSE hazy \ {Cache(job[t])}
  /\ crossed' = crossed \ {t}
  /\ Return(t)
  /\ UNCHANGED <<tables, tokens, jobs, outdated>>

\* reload_users, reload_api_keys: the cache is cleared and filled.
Install(t) ==
  /\ pc[t] = "install"
  /\ IF job[t] \in UserJobs
     THEN known' = snap[t] /\ UNCHANGED honoured
     ELSE honoured' = snap[t] /\ UNCHANGED known
  /\ hazy' = IF t \in crossed THEN hazy \cup {Cache(job[t])} ELSE hazy \ {Cache(job[t])}
  /\ crossed' = crossed \ {t}
  /\ Return(t)
  /\ UNCHANGED <<tables, tokens, jobs, outdated>>

TaskStep(t) == Find(t) \/ Write(t) \/ Abort(t) \/ Fetch(t) \/ Install(t)
=============================================================================
