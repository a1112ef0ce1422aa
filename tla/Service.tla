------------------------------ MODULE Service ------------------------------
(***************************************************************************)
(* The desktop program (src/src/bin/gui.rs): its window, which starts and  *)
(* stops the service and asks for the first password, and the threads that *)
(* run_service runs in, composed with the handlers of Accounts.  The       *)
(* window looks at the thread only at a tick, every 200 ms; it speaks to   *)
(* it through a shutdown channel and through a slot into which the thread  *)
(* puts the sender of a password channel.  A thread that waits for the     *)
(* password looks at nothing else.  Ports and addresses, log lines and the *)
(* settings page are left out.                                             *)
(***************************************************************************)
EXTENDS Accounts

CONSTANT MaxStarts   \* bound: starts of the service per behavior

ASSUME ServiceAssumption == MaxStarts \in Nat \ {0}

VARIABLES
  status,   \* AppState.status
  cur,      \* the latest thread: server_thread, password_request
  armed,    \* shutdown_tx is Some
  dialog,   \* show_setup_password
  told,     \* threads that have something in their shutdown channel
  slot,     \* threads whose password_request is Some
  sent,     \* threads that have a password in their channel
  stage     \* stage[s]: where run_service is in thread s

window == <<status, cur, armed, dialog>>
channels == <<told, slot, sent>>
gui == <<window, channels, stage>>
vars == <<accounts, gui>>

Threads == 1 .. MaxStarts
Stages == {"off", "config", "check", "wait", "create", "load", "bind",
           "serve", "drain", "done"}
Live(s) == stage[s] \notin {"off", "done"}
Serving == \E s \in Threads : stage[s] = "serve"

TypeOK ==
  /\ AccountsTypeOK
  /\ status \in {"Stopped", "Running"}
  /\ cur \in 0 .. MaxStarts
  /\ status = "Running" => cur # 0
  /\ armed \in BOOLEAN /\ dialog \in BOOLEAN
  /\ told \in SUBSET Threads /\ slot \in SUBSET Threads /\ sent \in SUBSET Threads
  /\ stage \in [Threads -> Stages]

Init ==
  /\ AccountsInit
  /\ status = "Stopped" /\ cur = 0
  /\ armed = FALSE /\ dialog = FALSE
  /\ told = {} /\ slot = {} /\ sent = {}
  /\ stage = [s \in Threads |-> "off"]

Goto(s, next) == stage' = [stage EXCEPT ![s] = next]
-----------------------------------------------------------------------------
\* start_service, at the launch of the program and by the button, which the
\* dialog hides.
StartService ==
  /\ ~dialog /\ status = "Stopped" /\ cur < MaxStarts
  /\ cur' = cur + 1
  /\ status' = "Running" /\ armed' = TRUE
  /\ Goto(cur', "config")
  /\ UNCHANGED <<accounts, dialog, channels>>

\* Mutant of StopService: the status follows the button, not the thread.
StopAtOnce ==
  /\ ~dialog /\ status = "Running"
  /\ told' = IF armed THEN told \cup {cur} ELSE told
  /\ armed' = FALSE /\ status' = "Stopped"
  /\ UNCHANGED <<accounts, cur, dialog, slot, sent, stage>>

\* stop_service: the status stays until a tick finds the thread finished.
StopService ==
  /\ ~dialog /\ status = "Running"
  /\ told' = IF armed THEN told \cup {cur} ELSE told
  /\ armed' = FALSE
  /\ UNCHANGED <<accounts, status, cur, dialog, slot, sent, stage>>

\* poll: check_service_finished, then the password request, if there is one.
Tick ==
  /\ status' = IF status = "Running" /\ stage[cur] = "done" THEN "Stopped" ELSE status
  /\ dialog' = (dialog \/ cur \in slot)
  /\ UNCHANGED <<accounts, cur, armed, channels, stage>>

\* A password that passed its checks is sent, if the request is still there; the
\* thread may have given up.
ConfirmSetupPassword ==
  /\ dialog
  /\ dialog' = FALSE
  /\ slot' = slot \ {cur}
  /\ sent' = IF cur \in slot /\ stage[cur] = "wait" THEN sent \cup {cur} ELSE sent
  /\ UNCHANGED <<accounts, status, cur, armed, told, stage>>

\* The program ends, by its window or by a crash; the database stays.
Exit ==
  /\ status = "Running"
  /\ status' = "Stopped" /\ armed' = FALSE /\ dialog' = FALSE
  /\ told' = {} /\ slot' = {} /\ sent' = {}
  /\ stage' = [s \in Threads |-> IF Live(s) THEN "done" ELSE stage[s]]
  /\ known' = {} /\ honoured' = {}
  /\ pc' = [t \in Tasks |-> "idle"]
  /\ job' = [t \in Tasks |-> NoJob] /\ caller' = [t \in Tasks |-> NoCaller]
  /\ snap' = [t \in Tasks |-> {}]
  /\ crossed' = {} /\ hazy' = {}
  /\ UNCHANGED <<cur, tables, tokens, jobs, outdated>>
-----------------------------------------------------------------------------
\* Configuration, first secret, database and migrations.
Configure(s) ==
  /\ stage[s] = "config"
  /\ Goto(s, "check")
  /\ UNCHANGED <<accounts, window, channels>>

\* Without an active administrator the thread asks the window for a password.
CheckAdmin(s) ==
  /\ stage[s] = "check"
  /\ IF AdminExists
     THEN Goto(s, "load") /\ outdated' = FALSE /\ UNCHANGED slot
     ELSE Goto(s, "wait") /\ slot' = slot \cup {s} /\ UNCHANGED outdated
  /\ UNCHANGED <<tables, caches, tokens, pc, local, snap, jobs, crossed, hazy,
                 window, told, sent>>

\* recv_timeout: the password.
Receive(s) ==
  /\ stage[s] = "wait" /\ s \in sent
  /\ sent' = sent \ {s}
  /\ Goto(s, "create")
  /\ UNCHANGED <<accounts, window, told, slot>>

\* Mutant of TimeOut: the thread waits as long as the password takes.
NoTimeOut(s) == FALSE /\ stage[s] = "wait" /\ UNCHANGED vars

\* recv_timeout: 300 seconds without one.  The request stays in its slot.
TimeOut(s) ==
  /\ stage[s] = "wait" /\ s \notin sent
  /\ Goto(s, "done")
  /\ UNCHANGED <<accounts, window, channels>>

\* create_admin: the name must be free, of users without rights too.
CreateAdmin(s) ==
  /\ stage[s] = "create" /\ ~NameTaken("admin")
  /\ \E u \in Users :
       /\ row[u] = Unborn
       /\ row' = [row EXCEPT ![u] = [name |-> "admin", admin |-> TRUE, active |-> TRUE]]
  /\ outdated' = FALSE
  /\ Goto(s, "load")
  /\ UNCHANGED <<key, caches, tokens, pc, local, snap, jobs, crossed, hazy,
                 window, channels>>

\* init_from_sqlite.
Load(s) ==
  /\ stage[s] = "load"
  /\ honoured' = ActiveKeys /\ known' = ActiveUsers
  /\ crossed' = {} /\ hazy' = {}
  /\ Goto(s, "bind")
  /\ UNCHANGED <<tables, tokens, pc, local, snap, jobs, outdated, window, channels>>

\* Both listeners.
Bind(s) ==
  /\ stage[s] = "bind"
  /\ \A o \in Threads : stage[o] \notin {"serve", "drain"}
  /\ Goto(s, "serve")
  /\ UNCHANGED <<accounts, window, channels>>

\* run_service returns an error; the window sees it as the end of the thread.
Fail(s) ==
  /\ stage[s] \in {"config", "check", "create", "load", "bind"}
  /\ Goto(s, "done")
  /\ UNCHANGED <<accounts, window, channels>>

\* The shutdown signal, which is first looked at here: no new requests.
Shutdown(s) ==
  /\ stage[s] = "serve" /\ s \in told
  /\ Goto(s, "drain")
  /\ UNCHANGED <<accounts, window, channels>>

\* Graceful shutdown: the admin server ends after its last request.
Drained(s) ==
  /\ stage[s] = "drain" /\ Quiet
  /\ Goto(s, "done")
  /\ known' = {} /\ honoured' = {} /\ hazy' = {}
  /\ UNCHANGED <<tables, tokens, pc, local, snap, jobs, outdated, crossed,
                 window, channels>>

ThreadStep(s) ==
  \/ Configure(s) \/ CheckAdmin(s) \/ Receive(s) \/ TimeOut(s) \/ CreateAdmin(s)
  \/ Load(s) \/ Bind(s) \/ Fail(s) \/ Shutdown(s) \/ Drained(s)

\* The handlers of the admin server, which takes requests until it is told.
Handlers ==
  \/ /\ Serving
     /\ \/ \E u \in Users : Login(u)
        \/ \E t \in Tasks : Ask(t) \/ Register(t)
     /\ UNCHANGED gui
  \/ \E t \in Tasks : TaskStep(t) /\ UNCHANGED gui

Next ==
  \/ StartService \/ StopService \/ Tick \/ ConfirmSetupPassword \/ Exit
  \/ \E s \in Threads : ThreadStep(s)
  \/ Handlers

\* Ticks come by themselves, threads are scheduled, the 300 seconds pass, and
\* statements of the database end, with an answer or after busy_timeout.  That
\* a handler ends also assumes that the client does not stall its own request:
\* the graceful shutdown has no timeout (src/src/bin/gui.rs:1074).
Fairness ==
  /\ WF_vars(Tick)
  /\ \A s \in Threads : WF_vars(ThreadStep(s))
  /\ \A t \in Tasks : WF_vars(TaskStep(t) /\ UNCHANGED gui)

Spec == Init /\ [][Next]_vars /\ Fairness
-----------------------------------------------------------------------------
\* While a service is loading or serving there is an active administrator,
\* unless users were changed by a caller who had lost his rights but not his
\* token: the checks of update_user and delete_user look at one caller each, and
\* only for himself (src/src/admin/users.rs).
LastAdmin ==
  (\E s \in Threads : stage[s] \in {"load", "bind", "serve", "drain"}) /\ ~outdated
    => AdminExists

\* The window never has two services at work: they would write one database
\* from two sets of caches (start_service, check_service_finished).
Alone == Cardinality({s \in Threads : Live(s)}) <= 1

\* When no handler is at work, those whom auth_middleware lets in are the active
\* users and the keys that are honoured are the active keys, except after a
\* reload that overlapped another one or failed.
Admitted ==
  Serving /\ Quiet =>
    /\ "users" \notin hazy => known = ActiveUsers
    /\ "keys" \notin hazy => honoured = ActiveKeys

\* A service that was told to stop does stop, also when it was told while it
\* waited for the first password, of which it takes no notice, as long as no
\* client of the admin server stalls a request while it drains.
StopEnds == (status = "Running" /\ cur \in told) ~> (status = "Stopped")
=============================================================================
