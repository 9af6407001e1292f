------------------------------- MODULE Accounts -------------------------------
(***************************************************************************)
(* Users, the first-run setup and the login providers.  Completion of the  *)
(* setup is a row; the process keeps a copy of it, the bootstrap token and *)
(* the providers' settings in memory.  A request checks in one step and    *)
(* commits in a later one: order[c] is what clerk c has under way.         *)
(***************************************************************************)
EXTENDS FiniteSets, Naturals, Sequences

CONSTANTS
  Names, Clerks,
  LoadOrder,    \* the login providers, as refresh_providers loads them
  Settings,     \* the settings a provider can be given
  NoUser, NoSettings, NoOrder,
  MaxStarts     \* bound on process starts

Roles == {"admin", "viewer"}
Providers == {LoadOrder[k] : k \in DOMAIN LoadOrder}
Requests == {"setup", "finish", "retire", "role", "delete", "store", "adopt"}

\* What a request can be about, and what it can ask for.
Subjects == Names \cup Providers
Values == {NoUser} \cup Roles \cup Settings

ASSUME AccountsAssumption ==
  /\ NoUser \notin Roles
  /\ NoOrder \notin [what : Requests, subject : Subjects, value : Values]

VARIABLES
  users,        \* users[n]: "admin", "viewer" or NoUser
  setupRow,     \* app_setup_state has a completed_at
  hasBazarr,    \* a Bazarr instance is registered
  stored,       \* stored[p]: the provider's row
  running,      \* AuthRuntime's copy of it
  setupCopy,    \* AuthRuntime._setup_completed
  token,        \* the bootstrap token is active
  order, starts

rowVars == <<users, setupRow, hasBazarr, stored>>
processVars == <<running, setupCopy, token>>
accountVars == <<rowVars, processVars, order, starts>>

Existing == {n \in Names : users[n] # NoUser}
Admins == {n \in Names : users[n] = "admin"}

\* is_setup_completed of a process that has no copy yet.
RowsSayCompleted == setupRow /\ Existing # {}

\* setup_gate_middleware lets a request through to the rest of the API.
GateIsOpen == setupCopy \/ RowsSayCompleted

AccountInit ==
  /\ users = [n \in Names |-> NoUser]
  /\ setupRow = FALSE /\ hasBazarr = FALSE
  /\ stored = [p \in Providers |-> NoSettings] /\ running = stored
  /\ setupCopy = FALSE /\ token = TRUE
  /\ order = [c \in Clerks |-> NoOrder] /\ starts = 1

Order(what, subject, value) == [what |-> what, subject |-> subject, value |-> value]

\* The request has passed its checks.
Accepts(c, what, subject, value) ==
  /\ order[c] = NoOrder
  /\ order' = [order EXCEPT ![c] = Order(what, subject, value)]
  /\ UNCHANGED <<rowVars, processVars, starts>>

\* A step of the request that leaves the rest of it to a later step, or nothing.
Proceeds(c, what, next) ==
  /\ order[c] # NoOrder /\ order[c].what = what
  /\ order' = [order EXCEPT ![c] = IF next = "" THEN NoOrder ELSE [@ EXCEPT !.what = next]]
  /\ UNCHANGED starts

\* Its commit raises; there is no commit left to fail once it adopts or retires.
RequestFails(c) ==
  /\ order[c] # NoOrder /\ order[c].what \notin {"adopt", "retire"}
  /\ order' = [order EXCEPT ![c] = NoOrder]
  /\ UNCHANGED <<rowVars, processVars, starts>>
-----------------------------------------------------------------------------
\* POST /setup: a token that is not consumed, then the count of users; the
\* password is hashed in a thread before the row is added.
BeginSetup(c, n) ==
  /\ token /\ Existing = {}
  /\ Accepts(c, "setup", n, "admin")

\* username is unique: an insert may fail.
CompleteSetup(c) ==
  /\ Proceeds(c, "setup", "")
  /\ users[order[c].subject] = NoUser
  /\ users' = [users EXCEPT ![order[c].subject] = "admin"]
  /\ token' = FALSE
  /\ UNCHANGED <<setupRow, hasBazarr, stored, running, setupCopy>>

\* POST /setup/finish by an administrator.
BeginFinish(c, a) ==
  /\ a \in Admins /\ hasBazarr
  /\ Accepts(c, "finish", a, "admin")

\* Mutant of MarkSetupCompleted: the flag is not made durable.
MarkNothing(c) ==
  /\ Proceeds(c, "finish", "retire")
  /\ UNCHANGED <<rowVars, processVars>>

\* The upsert keeps the first completed_at.
MarkSetupCompleted(c) ==
  /\ Proceeds(c, "finish", "retire")
  /\ setupRow' = TRUE
  /\ UNCHANGED <<users, hasBazarr, stored, processVars>>

\* Mutant of RetireSetup: the token a restart has minted stays active.
RetireSetupOnly(c) ==
  /\ Proceeds(c, "retire", "")
  /\ setupCopy' = TRUE
  /\ UNCHANGED <<rowVars, running, token>>

RetireSetup(c) ==
  /\ Proceeds(c, "retire", "")
  /\ setupCopy' = TRUE /\ token' = FALSE
  /\ UNCHANGED <<rowVars, running>>

\* is_setup_completed, asked by any request, keeps the answer once it is yes.
NoteCompletion ==
  /\ ~ setupCopy /\ RowsSayCompleted
  /\ setupCopy' = TRUE
  /\ UNCHANGED <<rowVars, running, token, order, starts>>

TokenExpires ==
  /\ token /\ token' = FALSE
  /\ UNCHANGED <<rowVars, running, setupCopy, order, starts>>

\* The wizard's Bazarr step, or the deletion of the last instance.
RegisterBazarr ==
  /\ Admins # {}
  /\ hasBazarr' = ~ hasBazarr
  /\ UNCHANGED <<users, setupRow, stored, processVars, order, starts>>
-----------------------------------------------------------------------------
\* POST /auth/users, and the command line's create-user, which needs no user.
CreateUser(n, role) ==
  /\ users[n] = NoUser
  /\ users' = [users EXCEPT ![n] = role]
  /\ UNCHANGED <<setupRow, hasBazarr, stored, processVars, order, starts>>

\* An identity that no subject, email or username matches; by a login with
\* OIDC or LDAP, or by any request behind forward-auth.
GetOrProvisionExternal(n, p) ==
  /\ running[p] # NoSettings /\ users[n] = NoUser
  /\ users' = [users EXCEPT ![n] = IF Existing = {} THEN "admin" ELSE "viewer"]
  /\ UNCHANGED <<setupRow, hasBazarr, stored, processVars, order, starts>>

LastAdmin(n) == Admins = {n}

BeginSetRole(c, n, role) ==
  /\ Admins # {} /\ n \in Existing
  /\ ~ (LastAdmin(n) /\ role # "admin")
  /\ Accepts(c, "role", n, role)

\* The row must still be there when the change is flushed.
SetRole(c) ==
  /\ Proceeds(c, "role", "")
  /\ users[order[c].subject] # NoUser
  /\ users' = [users EXCEPT ![order[c].subject] = order[c].value]
  /\ UNCHANGED <<setupRow, hasBazarr, stored, processVars>>

\* Mutant of BeginDelete: anybody's account, one's own too.
BeginDeleteOfAny(c, a, n) ==
  /\ a \in Admins /\ n \in Existing
  /\ Accepts(c, "delete", n, NoUser)

BeginDelete(c, a, n) ==
  /\ a \in Admins /\ n \in Existing \ {a}
  /\ ~ LastAdmin(n)
  /\ Accepts(c, "delete", n, NoUser)

DeleteUser(c) ==
  /\ Proceeds(c, "delete", "")
  /\ users' = [users EXCEPT ![order[c].subject] = NoUser]
  /\ UNCHANGED <<setupRow, hasBazarr, stored, processVars>>
-----------------------------------------------------------------------------
\* PUT of a provider's settings; what is not sent is taken from the row.
BeginPutSettings(c, p, v) ==
  /\ Admins # {}
  /\ Accepts(c, "store", p, v)

StoreSettings(c) ==
  /\ Proceeds(c, "store", "adopt")
  /\ stored' = [stored EXCEPT ![order[c].subject] = order[c].value]
  /\ UNCHANGED <<users, setupRow, hasBazarr, processVars>>

AdoptSettings(c) ==
  /\ Proceeds(c, "adopt", "")
  /\ running' = [running EXCEPT ![order[c].subject] = order[c].value]
  /\ UNCHANGED <<rowVars, setupCopy, token>>

\* A crash, and the start that follows: a provider that cannot be loaded leaves
\* those after it out, and the token is minted while setup is incomplete.
ProcessStarts(loaded) ==
  /\ starts < MaxStarts /\ starts' = starts + 1
  /\ order' = [c \in Clerks |-> NoOrder]
  /\ running' = [p \in Providers |->
       IF \E k \in 1 .. loaded : LoadOrder[k] = p THEN stored[p] ELSE NoSettings]
  /\ setupCopy' = RowsSayCompleted /\ token' = ~ RowsSayCompleted
  /\ UNCHANGED rowVars

AccountNext ==
  \/ NoteCompletion \/ TokenExpires \/ RegisterBazarr
  \/ \E loaded \in 0 .. Len(LoadOrder) : ProcessStarts(loaded)
  \/ \E n \in Names, role \in Roles : CreateUser(n, role)
  \/ \E n \in Names, p \in Providers : GetOrProvisionExternal(n, p)
  \/ \E c \in Clerks :
       \/ RequestFails(c) \/ CompleteSetup(c) \/ MarkSetupCompleted(c) \/ RetireSetup(c)
       \/ SetRole(c) \/ DeleteUser(c) \/ StoreSettings(c) \/ AdoptSettings(c)
       \/ \E p \in Providers, v \in Settings : BeginPutSettings(c, p, v)
       \/ \E n \in Names :
            \/ BeginSetup(c, n) \/ BeginFinish(c, n)
            \/ \E role \in Roles : BeginSetRole(c, n, role)
            \/ \E a \in Names : BeginDelete(c, a, n)
AccountSpec == AccountInit /\ [][AccountNext]_accountVars
-----------------------------------------------------------------------------
\* "cannot delete the last remaining admin": with one request at a time an
\* administrator stays, whoever creates, provisions, demotes and deletes users.
AnAdminRemains == [][Admins # {} => Admins' # {}]_accountVars

\* "Completion is a durable FACT": the gate, once open, is open for good, over
\* crashes within a request and restarts, and whatever users are deleted.
GateStaysOpen == [][GateIsOpen => GateIsOpen']_accountVars

\* No sequence of requests, crashes and restarts locks everybody out.
NobodyIsLockedOut == AnAdminRemains /\ GateStaysOpen

\* "Retire the startup bootstrap token on every completion path": the wizard's
\* first step retires it, but a restart before the last step mints another.
TokenIsRetired ==
  setupCopy /\ (\A c \in Clerks : order[c] = NoOrder) => ~ token

\* The settings in use are the row's, or none after a load that failed: a
\* provider never logs users in with settings that a restart would not find.
RunningIsStored ==
  \A p \in Providers :
    \/ running[p] \in {NoSettings, stored[p]}
    \/ \E c \in Clerks : order[c] # NoOrder /\ order[c].what = "adopt" /\ order[c].subject = p

\* What the process holds in memory agrees with the rows a restart would read.
MemoryAgrees == TokenIsRetired /\ RunningIsStored
=============================================================================
