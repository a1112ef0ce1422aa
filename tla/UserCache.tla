----------------------------- MODULE UserCache -----------------------------
(***************************************************************************)
(* StoreManager's cache of active users and the request quota that is      *)
(* counted beside it (src/src/store/mod.rs).  Every handler that changes a *)
(* user writes the database and then calls reload_users, which fetches all *)
(* active users, clears the cache, fills it again, lists the users that    *)
(* are then in it and drops the quota counters of all others.  Nothing     *)
(* keeps two reloads apart, or a reload and the requests that read the     *)
(* cache.  A DashMap is locked one shard at a time, so each of the four    *)
(* passes goes user by user.                                               *)
(***************************************************************************)
EXTENDS Integers, FiniteSets

CONSTANTS
  Users,
  Tasks,          \* administrator and registration requests at work
  Gates,          \* proxy requests between get_user and the quota check
  Limits,         \* bound: daily_request_limit values in use
  None,           \* no row, no entry, nothing held
  MaxWrites,      \* bound: database writes per behavior
  MaxDay,         \* bound: days per behavior
  MaxServed       \* bound: requests one user gets through on one day

Rows == [active : BOOLEAN, limit : Limits]

ASSUME UserCacheAssumption ==
  /\ Limits \subseteq Nat \ {0}    \* 0 means no limit: such users are not counted
  /\ None \notin Rows
  /\ MaxWrites \in Nat /\ MaxDay \in Nat /\ MaxServed \in Nat

VARIABLES
  db,       \* db[u]: the row of u in table users
  born,     \* users ever created: a deleted id does not come back
  cache,    \* cache[u]: the entry of u in StoreManager.users
  count,    \* count[u]: user_quota_counts, the requests and their date
  pc,       \* where the handler of task t is
  snap,     \* snap[t]: the rows t has fetched
  todo,     \* todo[t]: users the current pass of t has not reached
  alive,    \* alive[t]: active_user_ids
  held,     \* held[g]: the cloned user of request g and when it was read
  day,      \* today
  writes,   \* database writes so far
  crossed,  \* history: t's reload overlapped another one
  hazy,     \* history: no reload has run alone since one overlapped or failed
  served,   \* history: requests of u let through today
  resets    \* history: how often today's counter of u was thrown away

base == <<db, born, writes>>
reloads == <<pc, snap, todo, alive, crossed>>
quota == <<count, served, resets>>
vars == <<db, born, cache, count, pc, snap, todo, alive, held, day, writes,
          crossed, hazy, served, resets>>

Passes == {"clear", "fill", "survey", "prune"}

TypeOK ==
  /\ db \in [Users -> Rows \cup {None}]
  /\ born \in SUBSET Users
  /\ cache \in [Users -> Rows \cup {None}]
  /\ count \in [Users -> [n : Nat, date : 0..MaxDay]]
  /\ pc \in [Tasks -> {"idle", "fetch"} \cup Passes]
  /\ snap \in [Tasks -> [Users -> Rows \cup {None}]]
  /\ todo \in [Tasks -> SUBSET Users]
  /\ alive \in [Tasks -> SUBSET Users]
  /\ held \in [Gates -> [user : Users, row : Rows, since : 0..MaxDay] \cup {None}]
  /\ day \in 0..MaxDay
  /\ writes \in 0..MaxWrites
  /\ crossed \in [Tasks -> BOOLEAN]
  /\ hazy \in BOOLEAN
  /\ served \in [Users -> Nat]
  /\ resets \in [Users -> Nat]
-----------------------------------------------------------------------------
\* The rows a reload selects: WHERE status = 'active'.
Visible(rows) ==
  [u \in Users |-> IF rows[u] # None /\ rows[u].active THEN rows[u] ELSE None]

Present(rows) == {u \in Users : rows[u] # None}

Reloading(t) == pc[t] \in Passes
Quiet == \A t \in Tasks : pc[t] = "idle"

NoCount == [n |-> 0, date |-> 0]
NoRows == [u \in Users |-> None]

Init ==
  /\ db \in [Users -> Rows \cup {None}]
  /\ born = Present(db)
  /\ cache = Visible(db)
  /\ count = [u \in Users |-> NoCount]
  /\ pc = [t \in Tasks |-> "idle"]
  /\ snap = [t \in Tasks |-> NoRows]
  /\ todo = [t \in Tasks |-> {}]
  /\ alive = [t \in Tasks |-> {}]
  /\ held = [g \in Gates |-> None]
  /\ day = 0
  /\ writes = 0
  /\ crossed = [t \in Tasks |-> FALSE]
  /\ hazy = FALSE
  /\ served = [u \in Users |-> 0]
  /\ resets = [u \in Users |-> 0]

-----------------------------------------------------------------------------
(* The handlers that change users: one statement, then the reload. *)

\* create_user and register: a new id.
Create(u) ==
  /\ u \notin born
  /\ born' = born \cup {u}
  /\ \E n \in Limits : db' = [db EXCEPT ![u] = [active |-> TRUE, limit |-> n]]

\* update_user; a new password leaves the columns that are cached alone.
Update(u) ==
  /\ db[u] # None
  /\ \E row \in Rows : db' = [db EXCEPT ![u] = row]
  /\ UNCHANGED born

\* delete_user.
Delete(u) ==
  /\ db[u] # None
  /\ db' = [db EXCEPT ![u] = None]
  /\ UNCHANGED born

Write(t) ==
  /\ pc[t] = "idle" /\ writes < MaxWrites
  /\ \E u \in Users : Create(u) \/ Update(u) \/ Delete(u)
  /\ writes' = writes + 1
  /\ pc' = [pc EXCEPT ![t] = "fetch"]
  /\ UNCHANGED <<cache, quota, snap, todo, alive, held, day, crossed, hazy>>

\* reload_users fetches all active rows in one statement.
Fetch(t) ==
  LET others == {o \in Tasks \ {t} : Reloading(o)} IN
  /\ pc[t] = "fetch"
  /\ snap' = [snap EXCEPT ![t] = Visible(db)]
  /\ pc' = [pc EXCEPT ![t] = "clear"]
  /\ todo' = [todo EXCEPT ![t] = Users]
  /\ crossed' = [o \in Tasks |->
                   IF o = t THEN others # {} ELSE crossed[o] \/ o \in others]
  /\ hazy' = (hazy \/ others # {})
  /\ UNCHANGED <<base, cache, quota, alive, held, day>>

\* The statement fails: the administrator sees an error, the row is written.
\* A reload that has fetched already does not make up for it.
FetchFails(t) ==
  /\ pc[t] = "fetch"
  /\ pc' = [pc EXCEPT ![t] = "idle"]
  /\ crossed' = [o \in Tasks |-> crossed[o] \/ Reloading(o)]
  /\ hazy' = TRUE
  /\ UNCHANGED <<base, cache, quota, snap, todo, alive, held, day>>

\* The pass reaches user u; after the last user the next pass begins.
Reach(t, pass, u, next) ==
  /\ pc[t] = pass /\ u \in todo[t]
  /\ IF todo[t] = {u}
     THEN /\ pc' = [pc EXCEPT ![t] = next]
          /\ todo' = [todo EXCEPT ![t] = IF next = "idle" THEN {} ELSE Users]
     ELSE /\ todo' = [todo EXCEPT ![t] = @ \ {u}]
          /\ UNCHANGED pc

\* Mutant of Clear: the entries of other users stay.
ClearNothing(t) ==
  \E u \in Users :
    /\ Reach(t, "clear", u, "fill")
    /\ UNCHANGED <<base, cache, quota, snap, alive, held, day, crossed, hazy>>

\* self.users.clear()
Clear(t) ==
  \E u \in Users :
    /\ Reach(t, "clear", u, "fill")
    /\ cache' = [cache EXCEPT ![u] = None]
    /\ UNCHANGED <<base, quota, snap, alive, held, day, crossed, hazy>>

\* self.users.insert for every row that was fetched.
Fill(t) ==
  \E u \in Users :
    /\ Reach(t, "fill", u, "survey")
    /\ cache' = IF snap[t][u] # None
                THEN [cache EXCEPT ![u] = snap[t][u]] ELSE cache
    /\ UNCHANGED <<base, quota, snap, alive, held, day, crossed, hazy>>

\* Mutant of Survey: the ids are collected before the cache is filled.
SurveyNothing(t) ==
  \E u \in Users :
    /\ Reach(t, "survey", u, "prune")
    /\ UNCHANGED <<base, cache, quota, snap, alive, held, day, crossed, hazy>>

\* active_user_ids is collected from the cache.
Survey(t) ==
  \E u \in Users :
    /\ Reach(t, "survey", u, "prune")
    /\ alive' = [alive EXCEPT ![t] = IF cache[u] # None THEN @ \cup {u} ELSE @]
    /\ UNCHANGED <<base, cache, quota, snap, held, day, crossed, hazy>>

Thrown(u) == IF count[u].n > 0 /\ count[u].date = day THEN 1 ELSE 0

\* user_quota_counts.retain; the reload returns after the last user, and its
\* locals are gone.
Prune(t) ==
  \E u \in Users :
    /\ Reach(t, "prune", u, "idle")
    /\ IF u \in alive[t]
       THEN UNCHANGED quota
       ELSE /\ count' = [count EXCEPT ![u] = NoCount]
            /\ resets' = [resets EXCEPT ![u] = @ + Thrown(u)]
            /\ UNCHANGED served
    /\ IF todo[t] = {u}
       THEN /\ hazy' = (hazy /\ crossed[t])
            /\ snap' = [snap EXCEPT ![t] = NoRows]
            /\ alive' = [alive EXCEPT ![t] = {}]
            /\ crossed' = [crossed EXCEPT ![t] = FALSE]
       ELSE UNCHANGED <<hazy, snap, alive, crossed>>
    /\ UNCHANGED <<base, cache, held, day>>

-----------------------------------------------------------------------------
(* Requests of users, and the calendar. *)

\* Mutant of Look: a user without an entry is not refused.
LookUnchecked(g) ==
  /\ held[g] = None
  /\ \E u \in Users :
       held' = [held EXCEPT ![g] = [user |-> u, row |-> cache[u], since |-> day]]
  /\ UNCHANGED <<base, cache, quota, reloads, day, hazy>>

\* get_user clones the entry; a user without one is refused.
Look(g) ==
  /\ held[g] = None
  /\ \E u \in Users :
       /\ cache[u] # None
       /\ held' = [held EXCEPT ![g] = [user |-> u, row |-> cache[u], since |-> day]]
  /\ UNCHANGED <<base, cache, quota, reloads, day, hazy>>

\* Mutant of OverQuota: one request too many.
OverQuotaPast(n, limit) == n > limit

OverQuota(n, limit) == n >= limit

\* check_user_request_quota: reads the clock, then checks and counts under the
\* lock of the entry; a date that is not the entry's restarts the count.
CheckQuota(g) ==
  /\ held[g] # None
  /\ held' = [held EXCEPT ![g] = None]
  /\ \E today \in held[g].since .. day :
       LET u    == held[g].user
           n    == IF count[u].date = today THEN count[u].n ELSE 0
           over == OverQuota(n, held[g].row.limit)
       IN
       /\ served[u] < MaxServed
       /\ count' = [count EXCEPT ![u] =
                      [n |-> IF over THEN n ELSE n + 1, date |-> today]]
       /\ served' = IF over \/ today # day THEN served
                    ELSE [served EXCEPT ![u] = @ + 1]
       /\ resets' = IF today = day THEN resets
                    ELSE [resets EXCEPT ![u] = @ + Thrown(u)]
  /\ UNCHANGED <<base, cache, reloads, day, hazy>>

Midnight ==
  /\ day < MaxDay
  /\ day' = day + 1
  /\ served' = [u \in Users |-> 0]
  /\ resets' = [u \in Users |-> 0]
  /\ UNCHANGED <<base, cache, count, reloads, held, hazy>>

Next ==
  \/ \E t \in Tasks :
       \/ Write(t) \/ Fetch(t) \/ FetchFails(t)
       \/ Clear(t) \/ Fill(t) \/ Survey(t) \/ Prune(t)
  \/ \E g \in Gates : Look(g) \/ CheckQuota(g)
  \/ Midnight

Spec == Init /\ [][Next]_vars

-----------------------------------------------------------------------------
(* Properties. *)

\* When no administrator is at work, the cache shows what the database holds,
\* unless reloads overlapped or failed and none has run alone since: a stale
\* snapshot installed last survives only that long.
Agrees == Quiet /\ ~hazy => cache = Visible(db)

\* A reload that no other crosses drops the counters of exactly the users that
\* were not active when it fetched, although it lists them from the shared
\* cache in a pass of its own.
PruneSafe ==
  \A t \in Tasks : pc[t] = "prune" /\ ~crossed[t] => alive[t] = Present(snap[t])

\* Whatever overlaps, a user gets at most one allowance a day, and one more
\* for each time today's counter was thrown away: by a prune, or by a request
\* that read the clock before midnight and counted after it.
QuotaBound ==
  \A u \in Users :
    \A max \in Limits :
      (\A n \in Limits : n <= max) => served[u] <= max * (1 + resets[u])

=============================================================================
