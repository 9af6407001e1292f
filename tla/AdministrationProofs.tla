------------------------ MODULE AdministrationProofs ------------------------
(***************************************************************************)
(* Proofs about what administrators do and what comes of it, for every     *)
(* value of the constants: accounts, passthrough actions, dispatch         *)
(* windows, policy tables, the policy cascade and how far it reaches,      *)
(* dispatch plans.                                                         *)
(***************************************************************************)
EXTENDS Accounts, Passthrough, SchedulingWindows, PolicyAdmin, BacklogPolicy,
        PlanPreview, SumsProofs

-----------------------------------------------------------------------------
(* Accounts, for every set of names, providers and settings, and any       *)
(* number of starts, where one request is served at a time.                *)

OneClerk == \E c : Clerks = {c}

Orders == [what : Requests, subject : Subjects, value : Values]

Under(c, what) == order[c] # NoOrder /\ order[c].what = what

RowsTyped ==
  /\ users \in [Names -> Roles \cup {NoUser}]
  /\ stored \in [Providers -> Settings \cup {NoSettings}]
  /\ running \in [Providers -> Settings \cup {NoSettings}]
  /\ order \in [Clerks -> Orders \cup {NoOrder}]

\* What a request has checked is still so when it commits.
ChecksHold ==
  \A c \in Clerks :
    /\ Under(c, "role") =>
         /\ order[c].value \in Roles
         /\ order[c].value = "admin" \/ \E a \in Admins : a # order[c].subject
    /\ Under(c, "delete") => \E a \in Admins : a # order[c].subject
    /\ Under(c, "finish") => Admins # {}
    /\ Under(c, "retire") => setupRow
    /\ Under(c, "store") \/ Under(c, "adopt") =>
         order[c].value \in Settings
    /\ Under(c, "adopt") /\ order[c].subject \in Providers =>
         stored[order[c].subject] = order[c].value

\* Once setup is complete there is an administrator, and the token is retired or
\* about to be.
CompletionHolds ==
  /\ setupRow => Admins # {}
  /\ setupCopy => setupRow
  /\ setupRow /\ token => \E c \in Clerks : Under(c, "retire")

AccountsInv == RowsTyped /\ ChecksHold /\ CompletionHolds /\ RunningIsStored

-----------------------------------------------------------------------------
\* A request is none of those that are not there.
LEMMA OrderIsOrder ==
  ASSUME NEW w \in Requests, NEW s \in Subjects, NEW v \in Values
  PROVE  Order(w, s, v) \in Orders /\ Order(w, s, v) # NoOrder
BY AccountsAssumption DEF Order, Orders

\* An administrator exists.
LEMMA AdminsExist == Admins \subseteq Existing
BY AccountsAssumption DEF Admins, Existing, Roles

LEMMA AccountsInvInit == AccountInit => AccountsInv
BY DEF AccountInit, AccountsInv, RowsTyped, ChecksHold, CompletionHolds,
   RunningIsStored, Under

\* A user who joins takes nobody's place.
LEMMA JoinStep ==
  ASSUME AccountsInv, NEW n \in Names, NEW role \in Roles, users[n] = NoUser,
         users' = [users EXCEPT ![n] = role],
         UNCHANGED <<setupRow, stored, processVars, order>>
  PROVE  AccountsInv' /\ Admins \subseteq Admins'
<1>1. RowsTyped'
    BY DEF AccountsInv, RowsTyped, processVars
<1>2. Admins \subseteq Admins'
    BY AccountsAssumption DEF AccountsInv, RowsTyped, Admins, Roles
<1>3. ChecksHold'
    BY <1>2 DEF AccountsInv, ChecksHold, Under
<1>4. CompletionHolds'
    BY <1>2 DEF AccountsInv, CompletionHolds, Under, processVars
<1>5. RunningIsStored'
    BY DEF AccountsInv, RunningIsStored, processVars
<1>6. QED
    BY <1>1, <1>2, <1>3, <1>4, <1>5 DEF AccountsInv

\* What memory notes, forgets or registers beside the requests.
LEMMA BesideStep ==
  ASSUME AccountsInv, NoteCompletion \/ TokenExpires \/ RegisterBazarr
  PROVE  AccountsInv' /\ Admins' = Admins
<1>1. UNCHANGED <<users, setupRow, stored, running, order>>
    BY DEF NoteCompletion, TokenExpires, RegisterBazarr, rowVars, processVars
<1>2. /\ setupCopy' => setupCopy \/ setupRow
      /\ token' => token
    BY DEF NoteCompletion, TokenExpires, RegisterBazarr, RowsSayCompleted, rowVars,
           processVars
<1>3. RowsTyped' /\ ChecksHold' /\ RunningIsStored' /\ Admins' = Admins
    BY <1>1 DEF AccountsInv, RowsTyped, ChecksHold, RunningIsStored, Under, Admins
<1>4. CompletionHolds'
    BY <1>1, <1>2, <1>3 DEF AccountsInv, CompletionHolds, Under
<1>5. QED
    BY <1>3, <1>4 DEF AccountsInv

\* A restart drops the requests and reads the rows again.
LEMMA StartStep ==
  ASSUME AccountsInv, NEW loaded, ProcessStarts(loaded)
  PROVE  AccountsInv' /\ Admins' = Admins
<1>1. /\ order' = [c \in Clerks |-> NoOrder]
      /\ running' = [p \in Providers |->
           IF \E k \in 1 .. loaded : LoadOrder[k] = p THEN stored[p] ELSE NoSettings]
      /\ UNCHANGED <<users, setupRow, stored>>
    BY DEF ProcessStarts, rowVars
<1>2. setupCopy' = RowsSayCompleted /\ token' = ~ RowsSayCompleted
    BY DEF ProcessStarts
<1>3. RowsTyped' /\ ChecksHold' /\ Admins' = Admins
    BY <1>1 DEF AccountsInv, RowsTyped, ChecksHold, Under, Admins
<1>4. RunningIsStored'
    BY <1>1 DEF RunningIsStored
<1>5. setupRow => RowsSayCompleted
    BY AdminsExist DEF AccountsInv, CompletionHolds, RowsSayCompleted
<1>6. CompletionHolds'
    <2>1. RowsSayCompleted => setupRow
        BY DEF RowsSayCompleted
    <2>2. QED
        BY <1>1, <1>2, <1>3, <1>5, <2>1 DEF AccountsInv, CompletionHolds
<1>7. QED
    BY <1>3, <1>4, <1>6 DEF AccountsInv

\* A request is accepted: what it has checked holds now.
LEMMA AcceptStep ==
  ASSUME AccountsInv, OneClerk, NEW c \in Clerks,
         NEW w \in Requests \ {"retire", "adopt"}, NEW s \in Subjects, NEW v \in Values,
         Accepts(c, w, s, v),
         w = "role" => v \in Roles /\ (v = "admin" \/ \E a \in Admins : a # s),
         w = "delete" => \E a \in Admins : a # s,
         w = "finish" => Admins # {},
         w = "store" => v \in Settings
  PROVE  AccountsInv' /\ Admins' = Admins
<1>1. /\ order[c] = NoOrder /\ order' = [order EXCEPT ![c] = Order(w, s, v)]
      /\ UNCHANGED <<users, setupRow, stored, running, setupCopy, token>>
    BY DEF Accepts, rowVars, processVars
<1>2. Order(w, s, v) \in Orders /\ Order(w, s, v) # NoOrder
    BY OrderIsOrder
<1>3. Clerks = {c} /\ order'[c] = Order(w, s, v)
    BY <1>1 DEF OneClerk, AccountsInv, RowsTyped
<1>4. Order(w, s, v).what = w /\ Order(w, s, v).subject = s /\ Order(w, s, v).value = v
    BY DEF Order
<1>5. RowsTyped' /\ Admins' = Admins
    BY <1>1, <1>2 DEF AccountsInv, RowsTyped, Admins
<1>6. ChecksHold'
    BY <1>1, <1>3, <1>4, <1>5 DEF ChecksHold, Under
<1>7. CompletionHolds' /\ RunningIsStored'
    BY <1>1, <1>3, <1>5 DEF AccountsInv, CompletionHolds, RunningIsStored, Under
<1>8. QED
    BY <1>5, <1>6, <1>7 DEF AccountsInv

\* A request that ends leaves no check to hold.
LEMMA EndedStep ==
  ASSUME AccountsInv, OneClerk, NEW c \in Clerks, order' = [order EXCEPT ![c] = NoOrder],
         RowsTyped', setupRow' = setupRow,
         setupCopy' => setupRow, token' => token /\ ~ Under(c, "retire"),
         setupRow => Admins' # {},
         \A p \in Providers : running'[p] \in {NoSettings, stored'[p]}
  PROVE  AccountsInv'
<1>1. Clerks = {c} /\ order'[c] = NoOrder
    BY DEF OneClerk, AccountsInv, RowsTyped
<1>2. ChecksHold' /\ RunningIsStored'
    BY <1>1 DEF ChecksHold, RunningIsStored, Under
<1>3. CompletionHolds'
    BY <1>1 DEF AccountsInv, CompletionHolds, Under
<1>4. QED
    BY <1>2, <1>3 DEF AccountsInv

\* A commit of the requests that change users.
LEMMA UserCommit ==
  ASSUME AccountsInv, OneClerk, NEW c \in Clerks,
         CompleteSetup(c) \/ SetRole(c) \/ DeleteUser(c)
  PROVE  AccountsInv' /\ (Admins # {} => Admins' # {})
<1>1. /\ order' = [order EXCEPT ![c] = NoOrder]
      /\ UNCHANGED <<setupRow, stored, running, setupCopy>> /\ (token' => token)
      /\ ~ Under(c, "retire") /\ ~ Under(c, "adopt")
    BY DEF CompleteSetup, SetRole, DeleteUser, Proceeds, Under, processVars
<1>2. /\ users' \in [Names -> Roles \cup {NoUser}]
      /\ Admins # {} => Admins' # {}
    <2>1. CASE CompleteSetup(c)
        BY <2>1, AccountsAssumption
           DEF CompleteSetup, AccountsInv, RowsTyped, Admins, Roles
    <2>2. CASE SetRole(c)
        <3>1. /\ users' = [users EXCEPT ![order[c].subject] = order[c].value]
              /\ order[c].value \in Roles
              /\ order[c].value = "admin" \/ \E a \in Admins : a # order[c].subject
            BY <2>2 DEF SetRole, Proceeds, AccountsInv, ChecksHold, Under
        <3>2. Admins # {} => Admins' # {}
            BY <3>1 DEF AccountsInv, RowsTyped, Admins
        <3>3. QED
            BY <3>1, <3>2 DEF AccountsInv, RowsTyped
    <2>3. CASE DeleteUser(c)
        <3>1. /\ users' = [users EXCEPT ![order[c].subject] = NoUser]
              /\ \E a \in Admins : a # order[c].subject
            BY <2>3 DEF DeleteUser, Proceeds, AccountsInv, ChecksHold, Under
        <3>2. QED
            BY <3>1 DEF AccountsInv, RowsTyped, Admins
    <2>4. QED
        BY <2>1, <2>2, <2>3
<1>3. RowsTyped'
    BY <1>1, <1>2 DEF AccountsInv, RowsTyped
<1>4. /\ setupRow => Admins' # {}
      /\ \A p \in Providers : running'[p] \in {NoSettings, stored'[p]}
    <2>1. Clerks = {c}
        BY DEF OneClerk
    <2>2. QED
        BY <1>1, <1>2, <2>1 DEF AccountsInv, CompletionHolds, RunningIsStored, Under
<1>5. setupCopy' => setupRow
    BY <1>1 DEF AccountsInv, CompletionHolds
<1>6. QED
    BY <1>1, <1>2, <1>3, <1>4, <1>5, EndedStep DEF AccountsInv, CompletionHolds

\* The wizard's last step: the row, then the copy and the token.
LEMMA FinishCommit ==
  ASSUME AccountsInv, OneClerk, NEW c \in Clerks,
         MarkSetupCompleted(c) \/ RetireSetup(c) \/ RequestFails(c)
  PROVE  AccountsInv' /\ Admins' = Admins
<1>1. Clerks = {c} /\ UNCHANGED <<users, stored, running>>
    BY DEF OneClerk, MarkSetupCompleted, RetireSetup, RequestFails, rowVars, processVars
<1>2. CASE MarkSetupCompleted(c)
    <2>1. /\ Under(c, "finish") /\ setupRow' = TRUE
          /\ order' = [order EXCEPT ![c] = [order[c] EXCEPT !.what = "retire"]]
          /\ UNCHANGED <<setupCopy, token>>
        BY <1>2 DEF MarkSetupCompleted, Proceeds, Under, processVars
    <2>2. [order[c] EXCEPT !.what = "retire"] \in Orders
        <3>1. order[c] \in Orders
            BY <2>1 DEF AccountsInv, RowsTyped, Under
        <3> HIDE DEF Values, Subjects
        <3>2. QED
            BY <3>1 DEF Orders, Requests
    <2>3. /\ order'[c] = [order[c] EXCEPT !.what = "retire"]
          /\ order'[c] # NoOrder /\ order'[c].what = "retire"
        BY <2>1, <2>2, AccountsAssumption DEF AccountsInv, RowsTyped, Orders, Under
    <2>4. RowsTyped' /\ Admins' = Admins
        BY <1>1, <2>1, <2>2 DEF AccountsInv, RowsTyped, Admins
    <2>5. ChecksHold'
        BY <1>1, <2>1, <2>3 DEF ChecksHold, Under
    <2>6. CompletionHolds'
        BY <1>1, <2>1, <2>3, <2>4 DEF AccountsInv, ChecksHold, CompletionHolds, Under
    <2>7. RunningIsStored'
        BY <1>1, <2>1 DEF AccountsInv, RunningIsStored, Under
    <2>8. QED
        BY <2>4, <2>5, <2>6, <2>7 DEF AccountsInv
<1>3. CASE RetireSetup(c) \/ RequestFails(c)
    <2>1. /\ order' = [order EXCEPT ![c] = NoOrder] /\ setupRow' = setupRow
          /\ ~ Under(c, "adopt")
        BY <1>3 DEF RetireSetup, RequestFails, Proceeds, Under, rowVars
    <2>2. setupCopy' => setupRow
        BY <1>3 DEF RetireSetup, RequestFails, Proceeds, Under, processVars, AccountsInv,
           ChecksHold, CompletionHolds
    <2>3. token' => token /\ ~ Under(c, "retire")
        BY <1>3 DEF RetireSetup, RequestFails, Under, processVars
    <2>4. RowsTyped' /\ Admins' = Admins
        BY <1>1, <2>1 DEF AccountsInv, RowsTyped, Admins
    <2>5. \A p \in Providers : running'[p] \in {NoSettings, stored'[p]}
        BY <1>1, <2>1 DEF AccountsInv, RunningIsStored, Under
    <2>6. AccountsInv'
        BY <2>1, <2>2, <2>3, <2>4, <2>5, EndedStep DEF AccountsInv, CompletionHolds
    <2>7. QED
        BY <2>4, <2>6
<1>4. QED
    BY <1>2, <1>3

\* A provider's settings: the row, then the copy in memory.
LEMMA SettingsCommit ==
  ASSUME AccountsInv, OneClerk, NEW c \in Clerks, StoreSettings(c) \/ AdoptSettings(c)
  PROVE  AccountsInv' /\ Admins' = Admins
<1>1. Clerks = {c} /\ UNCHANGED <<users, setupRow, setupCopy, token>>
    BY DEF OneClerk, StoreSettings, AdoptSettings, rowVars, processVars
<1>2. Admins' = Admins
    BY <1>1 DEF Admins
<1>3. CASE StoreSettings(c)
    <2>1. /\ Under(c, "store") /\ running' = running
          /\ stored' = [stored EXCEPT ![order[c].subject] = order[c].value]
          /\ order' = [order EXCEPT ![c] = [order[c] EXCEPT !.what = "adopt"]]
        BY <1>3 DEF StoreSettings, Proceeds, Under, processVars
    <2>2. /\ [order[c] EXCEPT !.what = "adopt"] \in Orders
          /\ [order[c] EXCEPT !.what = "adopt"].what = "adopt"
          /\ [order[c] EXCEPT !.what = "adopt"].subject = order[c].subject
          /\ [order[c] EXCEPT !.what = "adopt"].value = order[c].value
        <3>1. order[c] \in Orders
            BY <2>1 DEF AccountsInv, RowsTyped, Under
        <3> HIDE DEF Values, Subjects
        <3>2. QED
            BY <3>1 DEF Orders, Requests
    <2>3. /\ order'[c] # NoOrder /\ order'[c].what = "adopt"
          /\ order'[c].subject = order[c].subject /\ order'[c].value = order[c].value
        BY <2>1, <2>2, AccountsAssumption DEF AccountsInv, RowsTyped, Orders, Under
    <2>4. order[c].value \in Settings
        BY <2>1 DEF AccountsInv, ChecksHold
    <2>5. RowsTyped'
        BY <1>1, <2>1, <2>2, <2>4 DEF AccountsInv, RowsTyped
    <2>6. ChecksHold'
        <3>1. order[c].subject \in Providers => stored'[order[c].subject] = order[c].value
            BY <2>1 DEF AccountsInv, RowsTyped
        <3>2. QED
            BY <1>1, <2>3, <2>4, <3>1 DEF ChecksHold, Under
    <2>7. CompletionHolds'
        BY <1>1, <1>2, <2>1 DEF AccountsInv, CompletionHolds, Under
    <2>8. RunningIsStored'
        BY <1>1, <2>1, <2>3 DEF AccountsInv, RowsTyped, RunningIsStored, Under
    <2>9. QED
        BY <1>2, <2>5, <2>6, <2>7, <2>8 DEF AccountsInv
<1>4. CASE AdoptSettings(c)
    <2>1. /\ Under(c, "adopt") /\ stored' = stored
          /\ running' = [running EXCEPT ![order[c].subject] = order[c].value]
          /\ order' = [order EXCEPT ![c] = NoOrder]
        BY <1>4 DEF AdoptSettings, Proceeds, Under, rowVars
    <2>2. /\ order[c].value \in Settings
          /\ order[c].subject \in Providers => stored[order[c].subject] = order[c].value
        BY <2>1 DEF AccountsInv, ChecksHold
    <2>3. RowsTyped'
        BY <1>1, <2>1, <2>2 DEF AccountsInv, RowsTyped
    <2>4. \A p \in Providers : running'[p] \in {NoSettings, stored'[p]}
        BY <1>1, <2>1, <2>2 DEF AccountsInv, RowsTyped, RunningIsStored, Under
    <2>5. setupCopy' => setupRow
        BY <1>1 DEF AccountsInv, CompletionHolds
    <2>6. token' => token /\ ~ Under(c, "retire")
        BY <1>1, <2>1 DEF Under
    <2>7. setupRow => Admins' # {}
        BY <1>2 DEF AccountsInv, CompletionHolds
    <2>8. QED
        BY <1>1, <1>2, <2>1, <2>3, <2>4, <2>5, <2>6, <2>7, EndedStep
<1>5. QED
    BY <1>3, <1>4

\* What a request checks before it is accepted.
LEMMA BeginStep ==
  ASSUME AccountsInv, OneClerk, NEW c \in Clerks, NEW n \in Names,
         \/ BeginSetup(c, n) \/ BeginFinish(c, n)
         \/ \E role \in Roles : BeginSetRole(c, n, role)
         \/ \E a \in Names : BeginDelete(c, a, n)
  PROVE  AccountsInv' /\ Admins' = Admins
<1>1. /\ n \in Subjects /\ NoUser \in Values
      /\ Roles \subseteq Values /\ "admin" \in Roles
    BY DEF Subjects, Values, Roles
<1>2. {"setup", "finish", "role", "delete"} \subseteq Requests \ {"retire", "adopt"}
    BY DEF Requests
<1>3. CASE BeginSetup(c, n)
    BY <1>1, <1>2, <1>3, AcceptStep DEF BeginSetup
<1>4. CASE BeginFinish(c, n)
    BY <1>1, <1>2, <1>4, AcceptStep DEF BeginFinish
<1>5. ASSUME NEW role \in Roles, BeginSetRole(c, n, role)
      PROVE AccountsInv' /\ Admins' = Admins
    <2>1. role = "admin" \/ \E a \in Admins : a # n
        BY <1>5 DEF BeginSetRole, LastAdmin
    <2>2. QED
        BY <1>1, <1>2, <1>5, <2>1, AcceptStep DEF BeginSetRole
<1>6. ASSUME NEW a \in Names, BeginDelete(c, a, n)
      PROVE AccountsInv' /\ Admins' = Admins
    BY <1>1, <1>2, <1>6, AcceptStep DEF BeginDelete
<1>7. QED
    BY <1>3, <1>4, <1>5, <1>6

LEMMA AccountsStep ==
  ASSUME AccountsInv, OneClerk, [AccountNext]_accountVars
  PROVE  AccountsInv' /\ (Admins # {} => Admins' # {})
<1>1. CASE UNCHANGED accountVars
    BY <1>1 DEF accountVars, rowVars, processVars, AccountsInv, RowsTyped, ChecksHold,
       CompletionHolds, RunningIsStored, Under, Admins
<1>2. CASE NoteCompletion \/ TokenExpires \/ RegisterBazarr
    BY <1>2, BesideStep
<1>3. ASSUME NEW loaded \in 0 .. Len(LoadOrder), ProcessStarts(loaded)
      PROVE AccountsInv' /\ Admins' = Admins
    BY <1>3, StartStep
<1>4. ASSUME NEW n \in Names, NEW role \in Roles, CreateUser(n, role)
      PROVE AccountsInv' /\ Admins \subseteq Admins'
    BY <1>4, JoinStep DEF CreateUser
<1>5. ASSUME NEW n \in Names, NEW p \in Providers, GetOrProvisionExternal(n, p)
      PROVE AccountsInv' /\ Admins \subseteq Admins'
    <2>1. PICK role \in Roles : users' = [users EXCEPT ![n] = role]
        BY <1>5 DEF GetOrProvisionExternal, Roles
    <2>2. QED
        BY <1>5, <2>1, JoinStep DEF GetOrProvisionExternal
<1>6. ASSUME NEW c \in Clerks, NEW p \in Providers, NEW v \in Settings,
             BeginPutSettings(c, p, v)
      PROVE AccountsInv' /\ Admins' = Admins
    <2>1. p \in Subjects /\ v \in Values /\ "store" \in Requests \ {"retire", "adopt"}
        BY DEF Subjects, Values, Requests
    <2>2. QED
        BY <1>6, <2>1, AcceptStep DEF BeginPutSettings
<1>7. ASSUME NEW c \in Clerks,
             \/ RequestFails(c) \/ CompleteSetup(c) \/ MarkSetupCompleted(c)
             \/ RetireSetup(c) \/ SetRole(c) \/ DeleteUser(c)
             \/ StoreSettings(c) \/ AdoptSettings(c)
      PROVE AccountsInv' /\ (Admins # {} => Admins' # {})
    BY <1>7, UserCommit, FinishCommit, SettingsCommit
<1>8. QED
    BY <1>1, <1>2, <1>3, <1>4, <1>5, <1>6, <1>7, BeginStep DEF AccountNext

\* completed_at is never taken back.
LEMMA RowIsKept ==
  ASSUME [AccountNext]_accountVars, setupRow PROVE setupRow'
BY DEF AccountNext, accountVars, rowVars, NoteCompletion, TokenExpires, RegisterBazarr,
   ProcessStarts, CreateUser, GetOrProvisionExternal, RequestFails, CompleteSetup,
   MarkSetupCompleted, RetireSetup, SetRole, DeleteUser, StoreSettings, AdoptSettings,
   BeginPutSettings, BeginSetup, BeginFinish, BeginSetRole, BeginDelete, Accepts

-----------------------------------------------------------------------------
\* Where requests are served one at a time, an administrator remains and the gate
\* stays open, whatever is created, provisioned, demoted, deleted, and whenever the
\* process restarts (UserService, setup_gate_middleware).
THEOREM EverybodyGetsIn == OneClerk => (AccountSpec => NobodyIsLockedOut)
<1> SUFFICES ASSUME OneClerk PROVE AccountSpec => NobodyIsLockedOut
    OBVIOUS
<1>1. AccountsInv /\ [AccountNext]_accountVars => AccountsInv'
    BY AccountsStep
<1>2. AccountsInv /\ [AccountNext]_accountVars => [Admins # {} => Admins' # {}]_accountVars
    BY AccountsStep
<1>3. AccountsInv /\ [AccountNext]_accountVars => [GateIsOpen => GateIsOpen']_accountVars
    <2>1. SUFFICES ASSUME AccountsInv, [AccountNext]_accountVars, GateIsOpen
                   PROVE GateIsOpen'
        OBVIOUS
    <2>2. setupRow /\ AccountsInv'
        BY <2>1, AccountsStep
           DEF GateIsOpen, RowsSayCompleted, AccountsInv, CompletionHolds
    <2>3. setupRow'
        BY <2>1, <2>2, RowIsKept
    <2>4. Admins' # {}
        BY <2>2, <2>3 DEF AccountsInv, CompletionHolds
    <2>5. Existing' # {}
        BY <2>4, AccountsAssumption DEF Admins, Existing, Roles
    <2>6. QED
        BY <2>3, <2>5 DEF GateIsOpen, RowsSayCompleted
<1>4. QED
    BY AccountsInvInit, <1>1, <1>2, <1>3, PTL
       DEF AccountSpec, NobodyIsLockedOut, AnAdminRemains, GateStaysOpen

\* Under the same condition the process's memory agrees with the rows: the token is
\* retired once setup is complete, and a provider's settings are the stored ones
\* (SetupController.finish, AuthController.write_ldap_settings).
THEOREM MemoryHolds == OneClerk => (AccountSpec => []MemoryAgrees)
<1> SUFFICES ASSUME OneClerk PROVE AccountSpec => []MemoryAgrees
    OBVIOUS
<1>1. AccountsInv /\ [AccountNext]_accountVars => AccountsInv'
    BY AccountsStep
<1>2. AccountsInv => MemoryAgrees
    BY DEF AccountsInv, CompletionHolds, MemoryAgrees, TokenIsRetired, Under
<1>3. QED
    BY AccountsInvInit, <1>1, <1>2, PTL DEF AccountSpec

-----------------------------------------------------------------------------
(* Passthrough, for every set of operators, ledger, list of requests and   *)
(* number of actions.                                                      *)

Act == [no : 1 .. MaxActs, intent : Ledger, request : 1 .. MaxRequests,
        action : Actions, status : {"sent", "ok", "failed"}]

\* What is under way, what Lingarr holds, and what is remembered of it.
TypesOK ==
  /\ acts \in Nat /\ asked \in 0 .. MaxRequests
  /\ requests \in [1 .. MaxRequests -> Asked \cup {NoRequest}]
  /\ act \in [Acting -> Act \cup {NoAct}]
  /\ performed \subseteq [no : 1 .. MaxActs, intent : Ledger, record : Asked]
  /\ audit \subseteq [no : 1 .. MaxActs, intent : Ledger, action : Actions,
                      actor : Acting, status : {"ok", "failed"}]

Busy(o) == act[o] # NoAct

\* No two actions have the same number, and none is numbered ahead.
Numbered ==
  /\ \A o \in Acting : Busy(o) => act[o].no <= acts
  /\ \A o, p \in Acting : Busy(o) /\ Busy(p) /\ act[o].no = act[p].no => o = p
  /\ \A done \in performed : done.no <= acts

\* What Lingarr did, it did for the action of that number, and an action that
\* was answered "ok" was done.
DoneForActs ==
  /\ \A done \in performed, o \in Acting :
       Busy(o) /\ act[o].no = done.no => act[o].intent = done.intent
  /\ \A o \in Acting : Busy(o) /\ act[o].status = "ok" =>
       \E done \in performed : done.no = act[o].no

\* An action is sent for the request it was matched with, or for one that has
\* gone, since numbers of requests are not used again.
RequestsStay ==
  /\ \A n \in 1 .. MaxRequests : n > asked => requests[n] = NoRequest
  /\ \A o \in Acting : Busy(o) =>
       /\ act[o].request <= asked
       /\ \/ requests[act[o].request] = NoRequest
          \/ Matches(act[o].intent, requests[act[o].request])
  /\ \A done \in performed : Matches(done.intent, done.record)

PassthroughInv == TypesOK /\ Numbered /\ DoneForActs /\ RequestsStay /\ AuditTellsAll

-----------------------------------------------------------------------------
LEMMA NoActIsNone == NoAct \notin Act
BY PassthroughAssumption DEF Act

\* Nothing is under way and nothing has been done at first.
LEMMA InvInit == PassthroughInit => PassthroughInv
BY PassthroughAssumption
   DEF PassthroughInit, PassthroughInv, TypesOK, Numbered, DoneForActs,
       RequestsStay, AuditTellsAll, Busy

\* No step of an operator, of Lingarr or of a restart breaks it.
LEMMA InvStep == PassthroughInv /\ [PassthroughNext]_passthroughVars => PassthroughInv'
<1> SUFFICES ASSUME PassthroughInv, [PassthroughNext]_passthroughVars
             PROVE PassthroughInv'
    OBVIOUS
<1> USE DEF PassthroughInv, lingarrVars
<1>1. ASSUME NEW o \in Acting, NEW intent \in Ledger, NEW n \in 1 .. MaxRequests,
             NEW action \in Actions, BeginAct(o, intent, n, action)
      PROVE PassthroughInv'
    <2> DEFINE new == [no |-> acts + 1, intent |-> intent, request |-> n,
                       action |-> action, status |-> "sent"]
    <2>1. /\ acts < MaxActs /\ acts' = acts + 1 /\ act[o] = NoAct
          /\ act' = [act EXCEPT ![o] = new]
          /\ requests[n] # NoRequest /\ Matches(intent, requests[n])
          /\ UNCHANGED <<requests, asked, performed, audit, interrupted>>
        BY <1>1 DEF BeginAct
    <2>2. new \in Act
        BY <2>1, PassthroughAssumption DEF TypesOK, Act
    <2>3. /\ act'[o] = new /\ new # NoAct
          /\ \A p \in Acting \ {o} : act'[p] = act[p]
        BY <2>1, <2>2, NoActIsNone DEF TypesOK
    <2>4. TypesOK'
        BY <2>1, <2>2 DEF TypesOK
    <2>5. Numbered'
        BY <2>1, <2>3 DEF TypesOK, Numbered, Busy, Act
    <2>6. DoneForActs'
        BY <2>1, <2>3 DEF TypesOK, Numbered, DoneForActs, Busy, Act
    <2>7. RequestsStay'
        BY <2>1, <2>3 DEF TypesOK, RequestsStay, Busy, Act
    <2>8. AuditTellsAll'
        BY <2>1, <2>3 DEF TypesOK, AuditTellsAll, Act
    <2>9. QED
        BY <2>4, <2>5, <2>6, <2>7, <2>8
<1>2. ASSUME NEW o \in Acting, Perform(o) PROVE PassthroughInv'
    <2> DEFINE n == act[o].request
    <2> DEFINE done == [no |-> act[o].no, intent |-> act[o].intent,
                        record |-> requests[n]]
    <2>1. /\ act[o] \in Act /\ act[o] # NoAct /\ act[o].status = "sent"
          /\ n \in 1 .. MaxRequests /\ requests[n] # NoRequest
          /\ performed' = performed \cup {done}
          /\ UNCHANGED <<acts, audit, interrupted>>
        BY <1>2 DEF Perform, TypesOK, Act
    <2>2. PICK status \in {"ok", "failed"} : act' = [act EXCEPT ![o].status = status]
        BY <1>2 DEF Perform, Answered
    <2>3. done \in [no : 1 .. MaxActs, intent : Ledger, record : Asked]
        BY <2>1 DEF TypesOK, Act
    <2>4. [act[o] EXCEPT !.status = status] \in Act
        BY <2>1, <2>2 DEF Act
    <2>5. /\ act'[o] = [act[o] EXCEPT !.status = status]
          /\ \A p \in Acting \ {o} : act'[p] = act[p]
        BY <2>2 DEF TypesOK
    <2>6. /\ act'[o] # NoAct
          /\ act'[o].no = act[o].no /\ act'[o].intent = act[o].intent
          /\ act'[o].request = n
        BY <2>1, <2>4, <2>5, NoActIsNone DEF Act
    <2>7. /\ requests' \in [1 .. MaxRequests -> Asked \cup {NoRequest}]
          /\ asked' \in 0 .. MaxRequests /\ asked <= asked'
          /\ \A m \in 1 .. MaxRequests : m > asked' => requests'[m] = NoRequest
          /\ \A m \in 1 .. MaxRequests : m <= asked =>
               requests'[m] = requests[m] \/ requests'[m] = NoRequest
        <3>1. CASE act[o].action = "remove"
            <4>1. requests' = [requests EXCEPT ![n] = NoRequest] /\ asked' = asked
                BY <1>2, <3>1, Zenon DEF Perform
            <4>2. \A m \in 1 .. MaxRequests :
                    requests'[m] = requests[m] \/ requests'[m] = NoRequest
                BY <4>1 DEF TypesOK
            <4>3. requests' \in [1 .. MaxRequests -> Asked \cup {NoRequest}]
                BY <4>1 DEF TypesOK
            <4>4. asked <= asked' /\ asked' \in 0 .. MaxRequests
                BY <4>1, PassthroughAssumption DEF TypesOK
            <4>5. QED
                BY <4>1, <4>2, <4>3, <4>4 DEF RequestsStay
        <3>2. CASE act[o].action = "retry"
            <4>1. /\ requests' = [requests EXCEPT ![asked + 1] = requests[n]]
                  /\ asked' = asked + 1 /\ asked < MaxRequests
                BY <1>2, <3>2 DEF Perform
            <4>2. /\ MaxRequests \in Nat /\ asked \in Nat /\ asked + 1 \in 1 .. MaxRequests
                  /\ requests \in [1 .. MaxRequests -> Asked \cup {NoRequest}]
                BY <4>1, PassthroughAssumption DEF TypesOK
            <4>3. requests[n] \in Asked \cup {NoRequest}
                BY <2>1, <4>2
            <4>4. requests' \in [1 .. MaxRequests -> Asked \cup {NoRequest}]
                BY <4>1, <4>2, <4>3
            <4>5. asked <= asked' /\ asked' \in 0 .. MaxRequests
                BY <4>1, <4>2
            <4>6. \A m \in 1 .. MaxRequests : m # asked + 1 => requests'[m] = requests[m]
                BY <4>1, <4>2
            <4>7. \A m \in 1 .. MaxRequests : m > asked => requests[m] = NoRequest
                BY DEF RequestsStay
            <4>8. QED
                BY <4>1, <4>2, <4>4, <4>5, <4>6, <4>7
        <3>3. CASE act[o].action \notin {"remove", "retry"}
            <4>1. requests' = requests /\ asked' = asked
                BY <1>2, <3>3 DEF Perform
            <4>2. QED
                BY <4>1, PassthroughAssumption DEF TypesOK, RequestsStay
        <3>4. QED
            BY <3>1, <3>2, <3>3
    <2>8. /\ done \in performed' /\ done.no = act[o].no /\ performed \subseteq performed'
          /\ \A d \in performed' : \/ d \in performed
                                   \/ /\ d.no = act[o].no /\ d.intent = act[o].intent
                                      /\ d.record = requests[n]
        BY <2>1
    <2>9. TypesOK'
        BY <2>1, <2>2, <2>3, <2>4, <2>7 DEF TypesOK
    <2> HIDE DEF done
    <2>10. \A p \in Acting : /\ act'[p] # NoAct <=> act[p] # NoAct
                             /\ act'[p].no = act[p].no
                             /\ act'[p].intent = act[p].intent
        BY <2>1, <2>5, <2>6
    <2>11. Numbered'
        BY <2>1, <2>8, <2>10 DEF Numbered, Busy
    <2>12. DoneForActs'
        <3>1. \A d \in performed', p \in Acting :
                act'[p] # NoAct /\ act'[p].no = d.no => act'[p].intent = d.intent
            BY <2>1, <2>8, <2>10 DEF DoneForActs, Numbered, Busy
        <3>2. ASSUME NEW p \in Acting, act'[p] # NoAct, act'[p].status = "ok"
              PROVE \E d \in performed' : d.no = act'[p].no
            <4>1. CASE p = o
                BY <2>6, <2>8, <4>1
            <4>2. CASE p # o
                BY <2>5, <2>8, <3>2, <4>2 DEF DoneForActs, Busy
            <4>3. QED
                BY <4>1, <4>2
        <3>3. QED
            BY <3>1, <3>2 DEF DoneForActs, Busy
    <2>13. RequestsStay'
        BY <2>1, <2>5, <2>6, <2>7, <2>8 DEF RequestsStay, Busy, TypesOK, Act
    <2>14. AuditTellsAll'
        <3>1. ASSUME NEW d \in performed'
              PROVE \/ d.no \in interrupted
                    \/ \E p \in Acting : act'[p] # NoAct /\ act'[p].no = d.no
                    \/ \E r \in audit : r.no = d.no /\ r.intent = d.intent
            <4>1. CASE d \in performed
                BY <2>10, <4>1 DEF AuditTellsAll
            <4>2. CASE d.no = act[o].no
                BY <2>6, <4>2
            <4>3. QED
                BY <2>8, <4>1, <4>2
        <3>2. \A r \in audit : r.status = "ok" => \E d \in performed' : d.no = r.no
            BY <2>8 DEF AuditTellsAll
        <3>3. QED
            BY <2>1, <3>1, <3>2 DEF AuditTellsAll
    <2>15. QED
        BY <2>9, <2>11, <2>12, <2>13, <2>14
<1>3. ASSUME NEW o \in Acting, Refuse(o) PROVE PassthroughInv'
    <2>1. /\ act[o] \in Act /\ act[o] # NoAct
          /\ act' = [act EXCEPT ![o].status = "failed"]
          /\ UNCHANGED <<requests, asked, performed, acts, audit, interrupted>>
        BY <1>3 DEF Refuse, Answered, TypesOK
    <2>2. /\ act'[o] \in Act /\ act'[o].status = "failed"
          /\ act'[o].no = act[o].no /\ act'[o].intent = act[o].intent
          /\ act'[o].request = act[o].request
          /\ \A p \in Acting \ {o} : act'[p] = act[p]
        BY <2>1 DEF TypesOK, Act
    <2>3. TypesOK'
        BY <2>1, <2>2 DEF TypesOK
    <2>4. QED
        BY <2>1, <2>2, <2>3, NoActIsNone
           DEF Numbered, DoneForActs, RequestsStay, AuditTellsAll, Busy
<1>4. ASSUME NEW o \in Acting, Audit(o) PROVE PassthroughInv'
    <2>1. /\ act[o] \in Act /\ act[o] # NoAct /\ act[o].status \in {"ok", "failed"}
          /\ act' = [act EXCEPT ![o] = NoAct]
          /\ audit' = audit \cup {AuditRow(o)}
          /\ UNCHANGED <<requests, asked, performed, acts, interrupted>>
        BY <1>4 DEF Audit, TypesOK, Act
    <2>2. /\ AuditRow(o) \in [no : 1 .. MaxActs, intent : Ledger, action : Actions,
                              actor : Acting, status : {"ok", "failed"}]
          /\ AuditRow(o).no = act[o].no /\ AuditRow(o).intent = act[o].intent
          /\ AuditRow(o).status = act[o].status
        BY <2>1 DEF AuditRow, Act
    <2>3. act'[o] = NoAct /\ \A p \in Acting \ {o} : act'[p] = act[p]
        BY <2>1 DEF TypesOK
    <2>4. TypesOK'
        BY <2>1, <2>2 DEF TypesOK
    <2>5. Numbered' /\ RequestsStay' /\ DoneForActs'
        BY <2>1, <2>3 DEF Numbered, RequestsStay, DoneForActs, Busy
    <2>6. AuditTellsAll'
        BY <2>1, <2>2, <2>3 DEF AuditTellsAll, DoneForActs, Busy
    <2>7. QED
        BY <2>4, <2>5, <2>6
<1>5. ASSUME NEW o \in Acting, Interrupt(o) PROVE PassthroughInv'
    <2>1. /\ act[o] # NoAct /\ act' = [act EXCEPT ![o] = NoAct]
          /\ interrupted' = interrupted \cup {act[o].no}
          /\ UNCHANGED <<requests, asked, performed, acts, audit>>
        BY <1>5 DEF Interrupt
    <2>2. act'[o] = NoAct /\ \A p \in Acting \ {o} : act'[p] = act[p]
        BY <2>1 DEF TypesOK
    <2>3. TypesOK'
        BY <2>1 DEF TypesOK
    <2>4. Numbered' /\ RequestsStay' /\ DoneForActs' /\ AuditTellsAll'
        BY <2>1, <2>2 DEF Numbered, RequestsStay, DoneForActs, AuditTellsAll, Busy
    <2>5. QED
        BY <2>3, <2>4
<1>6. ASSUME NEW record \in Asked, RequestArrives(record) PROVE PassthroughInv'
    <2>1. /\ asked < MaxRequests /\ asked' = asked + 1
          /\ requests' = [requests EXCEPT ![asked + 1] = record]
          /\ UNCHANGED <<act, acts, performed, audit, interrupted>>
        BY <1>6 DEF RequestArrives
    <2>2. TypesOK'
        BY <2>1, PassthroughAssumption DEF TypesOK
    <2>3. RequestsStay'
        BY <2>1, PassthroughAssumption DEF RequestsStay, Busy, TypesOK, Act
    <2>4. QED
        BY <2>1, <2>2, <2>3 DEF Numbered, DoneForActs, AuditTellsAll, Busy
<1>7. CASE ToggleLink
    BY <1>7 DEF ToggleLink, TypesOK, Numbered, DoneForActs, RequestsStay,
       AuditTellsAll, Busy
<1>8. CASE UNCHANGED passthroughVars
    BY <1>8 DEF passthroughVars, TypesOK, Numbered, DoneForActs, RequestsStay,
       AuditTellsAll, Busy
<1>9. QED
    BY <1>1, <1>2, <1>3, <1>4, <1>5, <1>6, <1>7, <1>8 DEF PassthroughNext

LEMMA InvHolds == PassthroughSpec => []PassthroughInv
BY InvInit, InvStep, PTL DEF PassthroughSpec

-----------------------------------------------------------------------------
\* Whatever Lingarr did for an operator is in the audit trail, unless the action
\* is still under way or the process stopped in it, and nothing is logged as
\* done that was not (PassthroughService.act).
THEOREM EveryActIsAudited == PassthroughSpec => []AuditTellsAll
<1>1. PassthroughInv => AuditTellsAll
    BY DEF PassthroughInv
<1>2. QED
    BY <1>1, InvHolds, PTL

\* An action reaches no request of another film, of a series for a film, or of
\* another pair of languages (matching_lingarr_records).
THEOREM OnlyOwnRequests == PassthroughSpec => []NeverActsOnOthers
<1>1. ASSUME PassthroughInv PROVE NeverActsOnOthers
    <2>1. SUFFICES ASSUME NEW done \in performed, NEW other \in Ledger,
                          other.type = done.record.type,
                          other.title = done.record.title,
                          done.record.source \in LingarrCodes(other.source),
                          done.record.target \in LingarrCodes(other.target),
                          done.record.type = "Movie" => other.media = done.record.media
                   PROVE \/ done.intent = other
                         \/ done.record.type = "Episode" /\ done.intent.type = "Episode"
                              /\ done.intent.title = other.title
        BY DEF NeverActsOnOthers
    <2>2. /\ done.intent \in Ledger /\ done.record \in Asked
          /\ Matches(done.intent, done.record)
        BY <1>1 DEF PassthroughInv, TypesOK, RequestsStay
    <2>3. CASE done.record.type = "Episode"
        BY <2>1, <2>2, <2>3 DEF Matches
    <2>4. CASE done.record.type = "Movie"
        <3>1. done.intent.media = other.media
            BY <2>1, <2>2, <2>4, PassthroughAssumption DEF Matches
        <3>2. /\ LingarrCodes(done.intent.source) \cap LingarrCodes(other.source) # {}
              /\ LingarrCodes(done.intent.target) \cap LingarrCodes(other.target) # {}
            BY <2>1, <2>2 DEF Matches
        <3>3. QED
            BY <2>1, <2>2, <2>4, <3>1, <3>2, PassthroughAssumption DEF Matches
    <2>5. QED
        BY <2>2, <2>3, <2>4, PassthroughAssumption
<1>2. QED
    BY <1>1, InvHolds, PTL

-----------------------------------------------------------------------------
(* SchedulingWindows, for any length of a day and of a week and any        *)
(* minute.                                                                 *)

\* Quotient and remainder are determined by what they add up to.
LEMMA DivisionIsUnique ==
  ASSUME NEW n \in Nat \ {0}, NEW q \in Int, NEW r \in 0..(n - 1)
  PROVE  (q * n + r) % n = r
<1> DEFINE x == q * n + r
           p == x \div n
           s == x % n
<1>1. x \in Int /\ p \in Int /\ s \in 0..(n - 1) /\ x = n * p + s
    OBVIOUS
<1>2. (q - p) * n = s - r
    BY <1>1
<1>3. s - r < n /\ r - s < n
    BY <1>1
<1> HIDE DEF x, p, s
<1>4. q = p
    <2>1. ASSUME q - p >= 1 PROVE FALSE
        <3>1. (q - p) * n >= n
            BY <1>1, <2>1
        <3>2. QED
            BY <3>1, <1>1, <1>2, <1>3
    <2>2. ASSUME p - q >= 1 PROVE FALSE
        <3>1. (p - q) * n >= n
            BY <1>1, <2>2
        <3>2. (p - q) * n = r - s
            BY <1>1, <1>2
        <3>3. QED
            BY <3>1, <3>2, <1>1, <1>3
    <2>3. QED
        BY <1>1, <2>1, <2>2
<1>5. s = r
    BY <1>1, <1>2, <1>4
<1>6. QED
    BY <1>5 DEF x, s
Week == DayLength * WeekLength

\* The minutes at t since the last time it was minute start of day d.
Since(t, d, start) == (t + 2 * Week - (d * DayLength + start)) % Week

\* A week is so many days.
LEMMA WeekIsWhole == Week \in Nat \ {0} /\ Week = WeekLength * DayLength
<1>1. Week \in Nat /\ Week = WeekLength * DayLength
    BY WindowsAssumption DEF Week
<1>2. DayLength * WeekLength >= DayLength
    BY WindowsAssumption
<1>3. QED
    BY <1>1, <1>2, WindowsAssumption DEF Week

\* Whole days and minutes since: no more than one week less a minute.
LEMMA SinceIsSplit ==
  ASSUME NEW q \in Int, NEW k \in Days, NEW r \in 0..(DayLength - 1)
  PROVE  (q * Week + k * DayLength + r) % Week = k * DayLength + r
<1> DEFINE s == k * DayLength + r
<1>1. k \in Nat /\ k <= WeekLength - 1
    BY WindowsAssumption DEF Days
<1>2. k * DayLength <= (WeekLength - 1) * DayLength
    BY <1>1, WindowsAssumption
<1>3. (WeekLength - 1) * DayLength = Week - DayLength
    BY WeekIsWhole, WindowsAssumption
<1>4. s \in 0..(Week - 1)
    <2>1. k * DayLength \in Nat
        BY <1>1, WindowsAssumption
    <2>2. QED
        BY <1>2, <1>3, <2>1, WeekIsWhole, WindowsAssumption
<1> HIDE DEF s
<1>5. (q * Week + s) % Week = s
    BY <1>4, WeekIsWhole, DivisionIsUnique
<1>6. q * Week + s = q * Week + k * DayLength + r
    <2>1. q * Week \in Int /\ k * DayLength \in Int
        BY <1>1, WeekIsWhole, WindowsAssumption
    <2>2. QED
        BY <2>1 DEF s
<1>7. QED
    BY <1>5, <1>6 DEF s

\* Days between d and e, going forward from d.
DaysFrom(d, e) == IF d <= e THEN e - d ELSE e - d + WeekLength

\* The last minute start of day d was on d if the day it is has reached that
\* minute, and else the day before is the last that has.
LEMMA SinceWhen ==
  ASSUME NEW t \in 0..(Week - 1), NEW d \in Days, NEW start \in 0..DayLength
  PROVE  LET day == Weekday(t)
             m == MinuteOfDay(t)
         IN /\ day \in Days /\ m \in 0..(DayLength - 1)
            /\ m >= start => Since(t, d, start) = DaysFrom(d, day) * DayLength + (m - start)
            /\ m < start => Since(t, d, start)
                             = DaysFrom(d, DayBefore(day)) * DayLength + (m + DayLength - start)
<1> DEFINE day == Weekday(t)
           m == MinuteOfDay(t)
<1>1. t \in Nat /\ t < Week
    BY WeekIsWhole
<1>2. /\ day \in Int /\ m \in 0..(DayLength - 1) /\ t = day * DayLength + m
    BY <1>1, WindowsAssumption DEF Weekday, MinuteOfDay
<1> HIDE DEF day, m
<1>3. day \in Days
    <2>1. day >= 0
        <3>1. SUFFICES ASSUME day <= -1 PROVE FALSE
            BY <1>2
        <3>2. day * DayLength <= -1 * DayLength
            BY <1>2, <3>1, WindowsAssumption
        <3>3. day * DayLength \in Int /\ -1 * DayLength = - DayLength
            BY <1>2, WindowsAssumption
        <3>4. QED
            BY <1>1, <1>2, <3>2, <3>3, WindowsAssumption
    <2>2. day < WeekLength
        <3>1. SUFFICES ASSUME day >= WeekLength PROVE FALSE
            BY <1>2, WindowsAssumption
        <3>2. day * DayLength >= WeekLength * DayLength
            BY <1>2, <3>1, WindowsAssumption
        <3>3. day * DayLength \in Int
            BY <1>2, WindowsAssumption
        <3>4. QED
            BY <1>1, <1>2, <3>2, <3>3, WeekIsWhole
    <2>3. QED
        BY <1>2, <2>1, <2>2, WindowsAssumption DEF Days
<1> DEFINE D == d * DayLength
           E == day * DayLength
<1>4. D \in Int /\ E \in Int /\ d \in Int /\ d >= 0 /\ d < WeekLength /\ Week \in Int
      /\ day >= 0 /\ day < WeekLength
    BY <1>3, WeekIsWhole, WindowsAssumption DEF Days
<1>5. t + 2 * Week - (d * DayLength + start) = E + m + 2 * Week - D - start
    BY <1>1, <1>2, <1>4
<1>6. ASSUME NEW e \in Days
      PROVE  /\ DaysFrom(d, e) \in Days
             /\ d <= e => DaysFrom(d, e) * DayLength = e * DayLength - D
             /\ d > e => DaysFrom(d, e) * DayLength = e * DayLength - D + Week
    <2>1. e \in Int /\ e >= 0 /\ e < WeekLength
        BY WindowsAssumption DEF Days
    <2>2. (e - d) * DayLength = e * DayLength - D
        BY <1>4, <2>1, WindowsAssumption
    <2>3. (e - d + WeekLength) * DayLength = e * DayLength - D + Week
        BY <1>4, <2>1, WindowsAssumption, WeekIsWhole
    <2>4. QED
        BY <1>4, <2>1, <2>2, <2>3, WindowsAssumption DEF DaysFrom, Days
<1>7. ASSUME m >= start PROVE Since(t, d, start) = DaysFrom(d, day) * DayLength + (m - start)
    <2> DEFINE K == DaysFrom(d, day) * DayLength
               q == IF d <= day THEN 2 ELSE 1
    <2>1. K \in Int /\ m - start \in 0..(DayLength - 1)
        BY <1>2, <1>3, <1>4, <1>6, <1>7, WindowsAssumption
    <2>2. E + m + 2 * Week - D - start = q * Week + K + (m - start)
        BY <1>2, <1>3, <1>4, <1>6, <2>1
    <2>3. (q * Week + K + (m - start)) % Week = K + (m - start)
        BY <1>3, <1>6, <2>1, SinceIsSplit
    <2>4. QED
        BY <1>5, <2>2, <2>3 DEF Since
<1>8. ASSUME m < start
      PROVE  Since(t, d, start) = DaysFrom(d, DayBefore(day)) * DayLength + (m + DayLength - start)
    <2> DEFINE e == DayBefore(day)
               K == DaysFrom(d, e) * DayLength
               F == e * DayLength
    <2>1. e = IF day = 0 THEN WeekLength - 1 ELSE day - 1
        <3>1. CASE day = 0
            <4>1. (0 * WeekLength + (WeekLength - 1)) % WeekLength = WeekLength - 1
                BY WindowsAssumption, DivisionIsUnique
            <4>2. day + WeekLength - 1 = 0 * WeekLength + (WeekLength - 1)
                BY <3>1, WindowsAssumption
            <4>3. QED
                BY <3>1, <4>1, <4>2 DEF DayBefore
        <3>2. CASE day # 0
            <4>1. (1 * WeekLength + (day - 1)) % WeekLength = day - 1
                BY <1>2, <1>4, <3>2, WindowsAssumption, DivisionIsUnique
            <4>2. day + WeekLength - 1 = 1 * WeekLength + (day - 1)
                BY <1>2, WindowsAssumption
            <4>3. QED
                BY <3>2, <4>1, <4>2 DEF DayBefore
        <3>3. QED
            BY <3>1, <3>2
    <2>2. e \in Days /\ e \in Int
        BY <1>2, <1>4, <2>1, WindowsAssumption DEF Days
    <2>3. F \in Int /\ F = IF day = 0 THEN E - DayLength + Week ELSE E - DayLength
        <3>1. CASE day = 0
            <4>1. (WeekLength - 1) * DayLength = Week - DayLength /\ E = 0
                BY <1>2, <3>1, WindowsAssumption, WeekIsWhole
            <4>2. QED
                BY <1>4, <2>1, <3>1, <4>1, WindowsAssumption
        <3>2. CASE day # 0
            <4>1. (day - 1) * DayLength = E - DayLength
                BY <1>2, WindowsAssumption
            <4>2. QED
                BY <1>4, <2>1, <3>2, <4>1, WindowsAssumption
        <3>3. QED
            BY <3>1, <3>2
    <2> HIDE DEF e, F, E, D
    <2>4. K \in Int /\ m + DayLength - start \in 0..(DayLength - 1)
          /\ K = IF d <= e THEN F - D ELSE F - D + Week
        BY <1>2, <1>4, <1>6, <1>8, <2>2, <2>3, WindowsAssumption DEF F
    <2> DEFINE q == IF d <= e THEN IF day = 0 THEN 1 ELSE 2 ELSE IF day = 0 THEN 0 ELSE 1
    <2> HIDE DEF K
    <2>5. E + m + 2 * Week - D - start = q * Week + K + (m + DayLength - start)
        BY <1>2, <1>4, <2>3, <2>4, WindowsAssumption
    <2>6. (q * Week + K + (m + DayLength - start)) % Week = K + (m + DayLength - start)
        <3>1. q \in Int /\ DaysFrom(d, e) \in Days
            BY <1>6, <2>2
        <3> HIDE DEF q
        <3>2. QED
            BY <3>1, <2>4, SinceIsSplit DEF K
    <2>7. QED
        BY <1>5, <2>5, <2>6 DEF Since, E, D, K, e
<1>9. QED
    BY <1>2, <1>3, <1>7, <1>8 DEF day, m
\* A window is open exactly while one of its openings lasts.
LEMMA OpenWithinOpening ==
  ASSUME NEW t \in 0..(Week - 1), NEW w \in Windows
  PROVE  WindowMatches(w, t) <=> WithinAnOpening(w, t)
<1> DEFINE day == Weekday(t)
           m == MinuteOfDay(t)
<1>1. /\ w.start \in 0..DayLength /\ w.end \in 0..DayLength
      /\ Duration(w) \in Int /\ Duration(w) <= DayLength
    BY WindowsAssumption DEF Windows, Duration
<1>2. WithinAnOpening(w, t)
        <=> \E d \in Days : DayAllowed(w, d) /\ Since(t, d, w.start) < Duration(w)
    BY DEF WithinAnOpening, Since, Week
<1>3. \A d, e \in Days : /\ DaysFrom(d, e) \in Nat
                         /\ d = e => DaysFrom(d, e) * DayLength = 0
                         /\ d # e => DaysFrom(d, e) * DayLength \in Int
                                     /\ DaysFrom(d, e) * DayLength >= DayLength
    <2>1. SUFFICES ASSUME NEW d \in Days, NEW e \in Days
                   PROVE  /\ DaysFrom(d, e) \in Nat
                          /\ d = e => DaysFrom(d, e) * DayLength = 0
                          /\ d # e => DaysFrom(d, e) * DayLength \in Int
                                      /\ DaysFrom(d, e) * DayLength >= DayLength
        OBVIOUS
    <2> DEFINE k == DaysFrom(d, e)
    <2>2. /\ k \in Nat
          /\ d = e => k = 0
          /\ d # e => k >= 1
        BY WindowsAssumption DEF DaysFrom, Days
    <2> HIDE DEF k
    <2>3. /\ k * DayLength \in Int
          /\ k = 0 => k * DayLength = 0
          /\ k >= 1 => k * DayLength >= DayLength
        BY <2>2, WindowsAssumption
    <2>4. QED
        BY <2>2, <2>3 DEF k
<1>4. day \in Days /\ m \in 0..(DayLength - 1) /\ DayBefore(day) \in Days
    <2>1. 0 \in Days
        BY WindowsAssumption DEF Days
    <2>2. day \in Days /\ m \in 0..(DayLength - 1)
        BY <1>1, <2>1, SinceWhen
    <2>3. DayBefore(day) \in Days
        BY <2>2, WindowsAssumption DEF DayBefore, Days
    <2>4. QED
        BY <2>2, <2>3
<1>5. CASE m >= w.start
    <2>1. \A d \in Days : Since(t, d, w.start) = DaysFrom(d, day) * DayLength + (m - w.start)
        BY <1>1, <1>5, SinceWhen
    <2> HIDE DEF day, m
    <2>2. \A d \in Days : Since(t, d, w.start) < Duration(w)
                            <=> d = day /\ m - w.start < Duration(w)
        BY <1>1, <1>3, <1>4, <1>5, <2>1, WindowsAssumption
    <2>3. WithinAnOpening(w, t) <=> DayAllowed(w, day) /\ m - w.start < Duration(w)
        BY <1>2, <1>4, <2>2
    <2>4. WindowMatches(w, t) <=> DayAllowed(w, day) /\ m - w.start < Duration(w)
        BY <1>1, <1>4, <1>5, WindowsAssumption DEF WindowMatches, Duration, day, m
    <2>5. QED
        BY <2>3, <2>4
<1>6. CASE m < w.start
    <2>1. \A d \in Days : Since(t, d, w.start)
                            = DaysFrom(d, DayBefore(day)) * DayLength + (m + DayLength - w.start)
        BY <1>1, <1>6, SinceWhen
    <2> HIDE DEF day, m
    <2>2. \A d \in Days : Since(t, d, w.start) < Duration(w)
                            <=> d = DayBefore(day) /\ m + DayLength - w.start < Duration(w)
        BY <1>1, <1>3, <1>4, <1>6, <2>1, WindowsAssumption
    <2>3. WithinAnOpening(w, t)
            <=> DayAllowed(w, DayBefore(day)) /\ m + DayLength - w.start < Duration(w)
        BY <1>2, <1>4, <2>2
    <2>4. WindowMatches(w, t)
            <=> DayAllowed(w, DayBefore(day)) /\ m + DayLength - w.start < Duration(w)
        BY <1>1, <1>4, <1>6, WindowsAssumption DEF WindowMatches, Duration, day, m
    <2>5. QED
        BY <2>3, <2>4
<1>7. QED
    BY <1>1, <1>4, <1>5, <1>6

WindowsTyped ==
  ownWindows \subseteq Windows /\ globalWindows \subseteq Windows /\ clockTime \in 0..(Week - 1)

\* Dispatch is allowed exactly within the openings of the windows in force, for
\* days and weeks of any length.
THEOREM OpeningsHold == WindowsInit /\ [][WindowsNext]_windowVars => []OpenExactlyInOpenings
<1>1. WindowsInit => WindowsTyped
    BY WeekIsWhole DEF WindowsInit, WindowsTyped
<1>2. ASSUME WindowsTyped, [WindowsNext]_windowVars PROVE WindowsTyped'
    <2>1. CASE TimePasses
        <3>1. (clockTime + 1) % Week \in 0..(Week - 1)
            BY <1>2, WeekIsWhole DEF WindowsTyped
        <3>2. QED
            BY <1>2, <2>1, <3>1 DEF WindowsTyped, TimePasses, Week
    <2>2. CASE SetOwnWindows({}) \/ SetGlobalWindows({})
        BY <1>2, <2>2 DEF WindowsTyped, SetOwnWindows, SetGlobalWindows
    <2>3. ASSUME NEW w \in Windows, SetOwnWindows({w}) PROVE WindowsTyped'
        BY <1>2, <2>3 DEF WindowsTyped, SetOwnWindows
    <2>4. ASSUME NEW d \in Days,
                 SetGlobalWindows({[days |-> {d}, start |-> 0, end |-> DayLength]})
          PROVE  WindowsTyped'
        <3>1. [days |-> {d}, start |-> 0, end |-> DayLength] \in Windows
            BY WindowsAssumption DEF Windows
        <3>2. QED
            BY <1>2, <2>4, <3>1 DEF WindowsTyped, SetGlobalWindows
    <2>5. CASE UNCHANGED windowVars
        BY <1>2, <2>5 DEF WindowsTyped, windowVars
    <2>6. QED
        BY <1>2, <2>1, <2>2, <2>3, <2>4, <2>5 DEF WindowsNext
<1>3. ASSUME WindowsTyped PROVE OpenExactlyInOpenings
    <2>1. \A w \in EffectiveWindows : WindowMatches(w, clockTime) <=> WithinAnOpening(w, clockTime)
        BY <1>3, OpenWithinOpening DEF WindowsTyped, EffectiveWindows
    <2>2. QED
        BY <2>1 DEF OpenExactlyInOpenings, WindowOpenAt, EffectiveWindows
<1>4. QED
    BY <1>1, <1>2, <1>3, PTL

-----------------------------------------------------------------------------
(* PolicyAdmin: the rows agree, where one administrator edits at a time.   *)

\* A preset is its values and its flag.
PresetRows == [values : LayerValues \cup {[dry_run |-> b] : b \in BOOLEAN}, active : BOOLEAN]

PresetsTyped ==
  /\ presets \in [DOMAIN presets -> PresetRows]
  /\ BuiltIns \subseteq DOMAIN presets /\ DOMAIN presets \subseteq PresetNames

OneIsActive == \E n \in DOMAIN presets : Active = {n}

\* What an administrator has read is still so, as long as nobody else edits.
NothingReadIsStale ==
  /\ request \in [Operators -> UNION {{Idle},
       [op : {"delete"}, preset : DOMAIN presets \ (BuiltIns \cup Active)],
       [op : {"activate"}, preset : DOMAIN presets, seen : {Active}, rows : {DOMAIN presets}]}]

\* Times of update are in the past, and every assignment has its profile.
AssignmentsAgree ==
  /\ edits \in 0..MaxEdits
  /\ DOMAIN profiles \subseteq ProfileNames
  /\ \A i \in DOMAIN assignments : /\ i \in Nat /\ i < edits
                                   /\ assignments[i].profile \in DOMAIN profiles
  /\ \A i, j \in DOMAIN assignments : assignments[i].scope = assignments[j].scope => i = j

AdminInv ==
  PresetsTyped /\ OneIsActive /\ NothingReadIsStale /\ AssignmentsAgree
    /\ exclusions \subseteq ExclusionRules

OneOperator == \A u, v \in Operators : u = v

\* A fresh installation has its built-in presets, of which Observe is active.
LEMMA AdminInvInit == ASSUME PolicyInit PROVE AdminInv
<1>1. PresetsTyped
    BY PolicyAdminAssumption DEF PolicyInit, PresetsTyped, PresetRows
<1>2. Active = {Observe}
    BY PolicyAdminAssumption DEF PolicyInit, Active
<1>3. OneIsActive
    BY <1>2, PolicyAdminAssumption DEF OneIsActive, PolicyInit
<1>4. NothingReadIsStale
    BY DEF PolicyInit, NothingReadIsStale
<1>5. AssignmentsAgree
    BY PolicyAdminAssumption DEF PolicyInit, AssignmentsAgree
<1>6. QED
    BY <1>1, <1>3, <1>4, <1>5 DEF AdminInv, PolicyInit

\* An edit of presets by whoever holds no request keeps what the others rely on.
LEMMA IdleIsNotStale ==
  ASSUME AdminInv, OneOperator, NEW u \in Operators, request[u] = Idle, UNCHANGED request
  PROVE  NothingReadIsStale'
<1>1. \A v \in Operators : request[v] = Idle
    BY DEF OneOperator
<1>2. request \in [Operators -> {Idle}]
    BY <1>1 DEF AdminInv, NothingReadIsStale
<1>3. QED
    BY <1>2 DEF NothingReadIsStale

\* A preset that is added is not active, so that the active one stays alone.
LEMMA PresetIsAdded ==
  ASSUME AdminInv, NEW n \in PresetNames, NEW values, AddPreset(n, values),
         values \in LayerValues \cup {[dry_run |-> b] : b \in BOOLEAN}
  PROVE  PresetsTyped' /\ OneIsActive'
<1> DEFINE added == [values |-> values, active |-> FALSE]
<1>1. /\ DOMAIN presets' = DOMAIN presets \cup {n} /\ n \notin DOMAIN presets
      /\ presets'[n] = added
      /\ \A x \in DOMAIN presets : presets'[x] = presets[x]
    BY DEF AddPreset, With
<1>2. added \in PresetRows
    BY DEF PresetRows
<1>3. presets' = [x \in DOMAIN presets' |-> presets'[x]]
    BY DEF AddPreset, With
<1>4. PresetsTyped'
    <2>1. \A x \in DOMAIN presets' : presets'[x] \in PresetRows
        BY <1>1, <1>2 DEF AdminInv, PresetsTyped
    <2>2. QED
        BY <1>1, <1>3, <2>1 DEF AdminInv, PresetsTyped
<1>5. Active' = Active
    BY <1>1 DEF Active
<1>6. QED
    BY <1>1, <1>4, <1>5 DEF AdminInv, OneIsActive

\* A commit leaves nothing read and not yet committed.
LEMMA RequestCommits ==
  ASSUME AdminInv, OneOperator, NEW u \in Operators, request' = [request EXCEPT ![u] = Idle]
  PROVE  NothingReadIsStale'
<1>1. request' \in [Operators -> {Idle}]
    BY DEF OneOperator, AdminInv, NothingReadIsStale
<1>2. QED
    BY <1>1 DEF NothingReadIsStale

\* Reading, committing and every other edit of the presets keeps one active.
LEMMA PresetStep ==
  ASSUME AdminInv, OneOperator, NEW u \in Operators,
         CommitDelete(u) \/ CommitActivate(u) \/ EditsPresets(u)
  PROVE  PresetsTyped' /\ OneIsActive' /\ NothingReadIsStale'
<1>1. CASE CommitDelete(u)
    <2> DEFINE n == request[u].preset
    <2>1. n \in DOMAIN presets \ (BuiltIns \cup Active)
        BY <1>1 DEF CommitDelete, AdminInv, NothingReadIsStale
    <2>2. /\ DOMAIN presets' = DOMAIN presets \ {n}
          /\ \A x \in DOMAIN presets' : presets'[x] = presets[x]
          /\ presets' = [x \in DOMAIN presets' |-> presets'[x]]
        BY <1>1 DEF CommitDelete, Restrict
    <2>3. PresetsTyped'
        BY <2>1, <2>2 DEF AdminInv, PresetsTyped
    <2>4. Active' = Active
        BY <2>1, <2>2 DEF Active
    <2>5. OneIsActive'
        BY <2>1, <2>2, <2>4 DEF AdminInv, OneIsActive
    <2>6. QED
        BY <1>1, <2>3, <2>5, RequestCommits DEF CommitDelete
<1>2. CASE CommitActivate(u)
    <2> DEFINE r == request[u]
    <2>1. r.preset \in DOMAIN presets /\ r.seen = Active
        BY <1>2 DEF CommitActivate, AdminInv, NothingReadIsStale
    <2>2. Flipped(r) \subseteq DOMAIN presets
        BY <2>1 DEF Flipped, Active
    <2>3. presets' = [n \in DOMAIN presets |->
                        IF n \in Flipped(r)
                        THEN [presets[n] EXCEPT !.active = (n = r.preset)]
                        ELSE presets[n]]
        BY <1>2, <2>2 DEF CommitActivate
    <2>4. PresetsTyped'
        BY <2>3 DEF AdminInv, PresetsTyped, PresetRows
    <2>5. \A n \in DOMAIN presets : presets'[n].active = (n = r.preset)
        <3>1. TAKE n \in DOMAIN presets
        <3>2. CASE n \in Flipped(r)
            BY <2>3, <3>2 DEF AdminInv, PresetsTyped, PresetRows
        <3>3. CASE n \notin Flipped(r)
            <4>1. presets[n].active <=> n = r.preset
                BY <2>1, <3>3 DEF Flipped, Active
            <4>2. presets[n].active \in BOOLEAN
                BY DEF AdminInv, PresetsTyped, PresetRows
            <4>3. presets'[n] = presets[n]
                BY <2>3, <3>3
            <4>4. QED
                BY <4>1, <4>2, <4>3
        <3>4. QED
            BY <3>2, <3>3
    <2>6. Active' = {r.preset}
        BY <2>1, <2>3, <2>5 DEF Active
    <2>7. OneIsActive'
        BY <2>1, <2>3, <2>6 DEF OneIsActive
    <2>8. QED
        BY <1>2, <2>4, <2>7, RequestCommits DEF CommitActivate
<1>3. CASE EditsPresets(u)
    <2>1. PICK n \in PresetNames :
            \/ ReadForDelete(u, n) \/ ReadForActivate(u, n)
            \/ \E m \in PresetNames : ForkPreset(u, m, n) \/ RenamePreset(u, m, n)
            \/ \E values \in LayerValues : CreatePreset(u, n, values) \/ UpdatePreset(u, n, values)
        BY <1>3 DEF EditsPresets
    <2>2. CASE ReadForDelete(u, n)
        <3>1. PresetsTyped' /\ OneIsActive' /\ Active' = Active
            BY <2>2 DEF ReadForDelete, AdminInv, PresetsTyped, OneIsActive, Active
        <3>2. n \in DOMAIN presets \ (BuiltIns \cup Active)
            BY <2>2 DEF ReadForDelete, Active
        <3>3. NothingReadIsStale'
            BY <2>2, <3>1, <3>2 DEF ReadForDelete, AdminInv, NothingReadIsStale
        <3>4. QED
            BY <3>1, <3>3
    <2>3. CASE ReadForActivate(u, n)
        <3>1. PresetsTyped' /\ OneIsActive' /\ Active' = Active
            BY <2>3 DEF ReadForActivate, AdminInv, PresetsTyped, OneIsActive, Active
        <3>2. NothingReadIsStale'
            BY <2>3, <3>1 DEF ReadForActivate, AdminInv, NothingReadIsStale
        <3>3. QED
            BY <3>1, <3>2
    <2>4. ASSUME NEW m \in PresetNames, ForkPreset(u, m, n)
          PROVE  PresetsTyped' /\ OneIsActive' /\ NothingReadIsStale'
        <3>1. presets[m].values \in LayerValues \cup {[dry_run |-> b] : b \in BOOLEAN}
            BY <2>4 DEF ForkPreset, AdminInv, PresetsTyped, PresetRows
        <3>2. QED
            BY <2>4, <3>1, PresetIsAdded, IdleIsNotStale DEF ForkPreset
    <2>5. ASSUME NEW m \in PresetNames, RenamePreset(u, m, n)
          PROVE  PresetsTyped' /\ OneIsActive' /\ NothingReadIsStale'
        <3> DEFINE rest == Restrict(presets, DOMAIN presets \ {m})
        <3>1. /\ m \in DOMAIN presets \ BuiltIns /\ n \notin DOMAIN presets
              /\ presets' = With(rest, n, presets[m])
            BY <2>5 DEF RenamePreset
        <3>2. /\ DOMAIN rest = DOMAIN presets \ {m}
              /\ \A x \in DOMAIN rest : rest[x] = presets[x]
            BY DEF Restrict
        <3>3. /\ DOMAIN presets' = DOMAIN rest \cup {n}
              /\ presets'[n] = presets[m]
              /\ \A x \in DOMAIN rest : presets'[x] = rest[x]
            BY <3>1, <3>2 DEF With
        <3>4. presets' = [x \in DOMAIN presets' |-> presets'[x]]
            BY <3>1 DEF With
        <3>5. PresetsTyped'
            <4>1. \A x \in DOMAIN presets' : presets'[x] \in PresetRows
                BY <3>1, <3>2, <3>3 DEF AdminInv, PresetsTyped
            <4>2. BuiltIns \subseteq DOMAIN presets' /\ DOMAIN presets' \subseteq PresetNames
                BY <3>1, <3>2, <3>3 DEF AdminInv, PresetsTyped
            <4>3. QED
                BY <3>4, <4>1, <4>2 DEF PresetsTyped
        <3>6. PICK a \in DOMAIN presets : Active = {a}
            BY DEF AdminInv, OneIsActive
        <3>7. Active' = {IF a = m THEN n ELSE a}
            BY <3>1, <3>2, <3>3, <3>6 DEF Active
        <3>8. OneIsActive'
            BY <3>2, <3>3, <3>6, <3>7 DEF OneIsActive
        <3>9. QED
            BY <2>5, <3>5, <3>8, IdleIsNotStale DEF RenamePreset
    <2>6. ASSUME NEW values \in LayerValues, CreatePreset(u, n, values)
          PROVE  PresetsTyped' /\ OneIsActive' /\ NothingReadIsStale'
        BY <2>6, PresetIsAdded, IdleIsNotStale DEF CreatePreset
    <2>7. ASSUME NEW values \in LayerValues, UpdatePreset(u, n, values)
          PROVE  PresetsTyped' /\ OneIsActive' /\ NothingReadIsStale'
        <3>1. /\ n \in DOMAIN presets
              /\ presets' = [presets EXCEPT ![n].values = values]
            BY <2>7 DEF UpdatePreset
        <3>2. PresetsTyped'
            BY <3>1 DEF AdminInv, PresetsTyped, PresetRows
        <3>3. Active' = Active
            BY <3>1 DEF Active, AdminInv, PresetsTyped, PresetRows
        <3>4. OneIsActive'
            BY <3>1, <3>3 DEF AdminInv, OneIsActive
        <3>5. QED
            BY <2>7, <3>2, <3>4, IdleIsNotStale DEF UpdatePreset
    <2>8. QED
        BY <2>1, <2>2, <2>3, <2>4, <2>5, <2>6, <2>7
<1>4. QED
    BY <1>1, <1>2, <1>3

\* An assignment is made with a profile that exists, and goes with it: whoever
\* else edits, since its request is one step.
LEMMA ProfileStepKeeps ==
  ASSUME AssignmentsAgree, NEW u \in Operators, EditsProfiles(u)
  PROVE  AssignmentsAgree'
<1>1. /\ edits \in Nat /\ edits + 1 \in Nat
      /\ edits' = edits + 1 /\ edits' \in 0..MaxEdits
    <2>1. Edits
        BY DEF EditsProfiles, DeleteProfile, CreateAssignment, CreateProfile, UpdateProfile,
               ImportPolicies
    <2>2. QED
        BY <2>1, PolicyAdminAssumption DEF AssignmentsAgree, Edits
<1>2. PICK p \in ProfileNames :
        \/ DeleteProfile(u, p)
        \/ \E scope \in Scopes : CreateAssignment(u, p, scope)
        \/ \E values \in LayerValues :
             \/ CreateProfile(u, p, values) \/ UpdateProfile(u, p, values)
             \/ \E n \in PresetNames : ImportPolicies(u, n, p, values)
    BY DEF EditsProfiles
<1>3. QED
    <2>1. CASE DeleteProfile(u, p)
        <3>1. /\ profiles' = Restrict(profiles, DOMAIN profiles \ {p})
              /\ assignments' =
                   Restrict(assignments, {i \in DOMAIN assignments : assignments[i].profile # p})
            BY <2>1 DEF DeleteProfile
        <3>2. /\ DOMAIN profiles' = DOMAIN profiles \ {p}
              /\ \A i \in DOMAIN assignments' : /\ i \in DOMAIN assignments
                                                /\ assignments'[i] = assignments[i]
                                                /\ assignments[i].profile # p
            BY <3>1 DEF Restrict
        <3>3. QED
            BY <1>1, <3>2 DEF AssignmentsAgree
    <2>2. ASSUME NEW scope \in Scopes, CreateAssignment(u, p, scope) PROVE AssignmentsAgree'
        <3> DEFINE added == [scope |-> scope, profile |-> p]
        <3>1. /\ p \in DOMAIN profiles /\ UNCHANGED profiles
              /\ \A i \in DOMAIN assignments : assignments[i].scope # scope
              /\ assignments' = With(assignments, edits, added)
            BY <2>2 DEF CreateAssignment, ScopeTaken
        <3>2. added.scope = scope /\ added.profile = p
            OBVIOUS
        <3> HIDE DEF added
        <3>3. edits \notin DOMAIN assignments
            BY <1>2 DEF AssignmentsAgree
        <3>4. /\ DOMAIN assignments' = DOMAIN assignments \cup {edits}
              /\ assignments'[edits] = added
              /\ \A i \in DOMAIN assignments : assignments'[i] = assignments[i]
            BY <3>1, <3>3 DEF With
        <3>5. \A i \in DOMAIN assignments' : /\ i \in Nat /\ i < edits'
                                             /\ assignments'[i].profile \in DOMAIN profiles'
            BY <1>1, <3>1, <3>2, <3>4 DEF AssignmentsAgree
        <3>6. \A i, j \in DOMAIN assignments' :
                assignments'[i].scope = assignments'[j].scope => i = j
            BY <3>1, <3>2, <3>4 DEF AssignmentsAgree
        <3>7. QED
            BY <1>1, <3>1, <3>5, <3>6 DEF AssignmentsAgree
    <2>3. ASSUME UNCHANGED assignments, DOMAIN profiles' \in {DOMAIN profiles, DOMAIN profiles \cup {p}}
          PROVE  AssignmentsAgree'
        BY <1>1, <2>3 DEF AssignmentsAgree
    <2>4. ASSUME NEW values \in LayerValues,
                 \/ CreateProfile(u, p, values) \/ UpdateProfile(u, p, values)
                 \/ \E n \in PresetNames : ImportPolicies(u, n, p, values)
          PROVE  AssignmentsAgree'
        <3>1. UNCHANGED assignments
            BY <2>4 DEF CreateProfile, UpdateProfile, ImportPolicies
        <3>2. \/ UNCHANGED profiles
              \/ profiles' = With(profiles, p, values)
              \/ profiles' = [profiles EXCEPT ![p] = values]
            BY <2>4 DEF CreateProfile, UpdateProfile, ImportPolicies
        <3>3. DOMAIN profiles' \in {DOMAIN profiles, DOMAIN profiles \cup {p}}
            BY <3>2 DEF With
        <3>4. QED
            BY <3>1, <3>3, <2>3
    <2>5. QED
        BY <1>2, <2>1, <2>2, <2>4

\* The other requests take assignments away, or leave them alone.
LEMMA AssignmentsStep ==
  ASSUME AssignmentsAgree, [PolicyNext]_adminVars PROVE AssignmentsAgree'
<1>1. CASE UNCHANGED adminVars
    BY <1>1 DEF adminVars, AssignmentsAgree
<1>2. ASSUME NEW u \in Operators, CommitDelete(u) \/ CommitActivate(u) \/ EditsPresets(u)
      PROVE  AssignmentsAgree'
    <2>1. UNCHANGED <<profiles, assignments>>
        BY <1>2 DEF CommitDelete, CommitActivate, EditsPresets, ReadForDelete, ReadForActivate,
                    ForkPreset, RenamePreset, CreatePreset, UpdatePreset
    <2>2. UNCHANGED edits \/ Edits
        BY <1>2 DEF CommitDelete, CommitActivate, EditsPresets, ReadForDelete, ReadForActivate,
                    ForkPreset, RenamePreset, CreatePreset, UpdatePreset
    <2>3. /\ edits \in Nat /\ edits' \in 0..MaxEdits /\ edits <= edits'
        BY <2>2, PolicyAdminAssumption DEF AssignmentsAgree, Edits
    <2>4. QED
        BY <2>1, <2>3 DEF AssignmentsAgree
<1>3. ASSUME NEW u \in Operators, EditsRules(u)
      PROVE  AssignmentsAgree'
    <2>1. /\ UNCHANGED profiles /\ Edits
          /\ \/ UNCHANGED assignments
             \/ \E i \in DOMAIN assignments :
                  assignments' = Restrict(assignments, DOMAIN assignments \ {i})
        BY <1>3 DEF EditsRules, DeleteAssignment, DeleteOverride, UpsertOverride,
                    CreateExclusion, DeleteExclusion
    <2>2. /\ edits \in Nat /\ edits' = edits + 1 /\ edits' \in 0..MaxEdits
        BY <2>1, PolicyAdminAssumption DEF AssignmentsAgree, Edits
    <2>3. \A i \in DOMAIN assignments' :
            i \in DOMAIN assignments /\ assignments'[i] = assignments[i]
        BY <2>1 DEF Restrict
    <2>4. QED
        BY <2>1, <2>2, <2>3 DEF AssignmentsAgree
<1>4. QED
    BY <1>1, <1>2, <1>3, ProfileStepKeeps DEF PolicyNext

\* What is not about presets leaves them alone; an import may bring one.
LEMMA OtherStep ==
  ASSUME AdminInv, OneOperator, NEW u \in Operators, EditsProfiles(u) \/ EditsRules(u)
  PROVE  PresetsTyped' /\ OneIsActive' /\ NothingReadIsStale'
<1>1. /\ request[u] = Idle /\ UNCHANGED request
      /\ \/ UNCHANGED presets
         \/ \E n \in PresetNames, values \in LayerValues : AddPreset(n, values)
    BY DEF EditsProfiles, DeleteProfile, CreateAssignment, CreateProfile, UpdateProfile,
           ImportPolicies, EditsRules, DeleteAssignment, DeleteOverride, UpsertOverride,
           CreateExclusion, DeleteExclusion
<1>2. NothingReadIsStale'
    BY <1>1, IdleIsNotStale
<1>3. CASE UNCHANGED presets
    BY <1>2, <1>3 DEF AdminInv, PresetsTyped, OneIsActive, Active
<1>4. ASSUME NEW n \in PresetNames, NEW values \in LayerValues, AddPreset(n, values)
      PROVE  PresetsTyped' /\ OneIsActive'
    BY <1>4, PresetIsAdded
<1>5. QED
    BY <1>1, <1>2, <1>3, <1>4

\* An exclusion is one of those an operator may add.
LEMMA RulesStep ==
  ASSUME exclusions \subseteq ExclusionRules, [PolicyNext]_adminVars
  PROVE  exclusions' \subseteq ExclusionRules
<1>1. exclusions' \subseteq exclusions \cup ExclusionRules
    BY ZenonT(40) DEF PolicyNext, adminVars, CommitDelete, CommitActivate, EditsPresets, ReadForDelete,
           ReadForActivate, ForkPreset, RenamePreset, CreatePreset, UpdatePreset, EditsProfiles,
           DeleteProfile, CreateAssignment, CreateProfile, UpdateProfile, ImportPolicies,
           EditsRules, DeleteAssignment, DeleteOverride, UpsertOverride, CreateExclusion,
           DeleteExclusion
<1>2. QED
    BY <1>1

\* Every step keeps the invariant.
LEMMA AdminInvStep ==
  ASSUME AdminInv, OneOperator, [PolicyNext]_adminVars PROVE AdminInv'
<1>1. AssignmentsAgree' /\ exclusions' \subseteq ExclusionRules
    BY AssignmentsStep, RulesStep DEF AdminInv
<1>2. CASE UNCHANGED adminVars
    BY <1>1, <1>2 DEF adminVars, AdminInv, PresetsTyped, OneIsActive, Active,
                      NothingReadIsStale
<1>3. ASSUME NEW u \in Operators,
             \/ CommitDelete(u) \/ CommitActivate(u)
             \/ EditsPresets(u) \/ EditsProfiles(u) \/ EditsRules(u)
      PROVE  AdminInv'
    BY <1>1, <1>3, PresetStep, OtherStep DEF AdminInv
<1>4. QED
    BY <1>2, <1>3 DEF PolicyNext

\* The invariant is all that the property says.
LEMMA AdminInvSuffices == AdminInv => PolicyRowsAgree
<1>1. SUFFICES ASSUME AdminInv PROVE PolicyRowsAgree
    OBVIOUS
<1>2. \A n \in DOMAIN presets : presets[n].active \in BOOLEAN
    BY <1>1 DEF AdminInv, PresetsTyped, PresetRows
<1>3. PolicyTypeOK
    BY <1>1, <1>2 DEF AdminInv, PresetsTyped, AssignmentsAgree, PolicyTypeOK
<1>4. ExactlyOneActive
    BY <1>1, FS_Singleton DEF AdminInv, OneIsActive, ExactlyOneActive
<1>5. AssignmentsResolve
    BY <1>1 DEF AdminInv, AssignmentsAgree, AssignmentsResolve
<1>6. QED
    BY <1>3, <1>4, <1>5 DEF PolicyRowsAgree

\* As long as one administrator edits at a time, the policy tables agree after
\* any sequence of requests: one preset is active, every built-in preset is
\* there, and no assignment names a profile that is gone (activate_preset,
\* delete_preset, rename_preset, import_policies, delete_profile).
THEOREM PolicyRowsHold == ASSUME OneOperator PROVE PolicySpec => []PolicyRowsAgree
<1>1. PolicyInit => AdminInv
    BY AdminInvInit
<1>2. AdminInv /\ [PolicyNext]_adminVars => AdminInv'
    BY AdminInvStep
<1>3. QED
    BY <1>1, <1>2, AdminInvSuffices, PTL DEF PolicySpec

\* However many administrators edit at once, no assignment names a profile that
\* is gone: the deletion of a profile takes its assignments in one commit
\* (delete_profile, the cascade of the relationship).
THEOREM AssignmentsHold == PolicySpec => []AssignmentsResolve
<1>1. PolicyInit => AssignmentsAgree
    BY PolicyAdminAssumption DEF PolicyInit, AssignmentsAgree
<1>2. AssignmentsAgree /\ [PolicyNext]_adminVars => AssignmentsAgree'
    BY AssignmentsStep
<1>3. AssignmentsAgree => AssignmentsResolve
    BY DEF AssignmentsAgree, AssignmentsResolve
<1>4. QED
    BY <1>1, <1>2, <1>3, PTL DEF PolicySpec

-----------------------------------------------------------------------------
(* PolicyAdmin: what the rows resolve to, however many edit at once.       *)

\* j stands behind i: it ranks lower, or equal and is not later.
Behind(rank, j, i) == rank[j] < rank[i] \/ (rank[j] = rank[i] /\ j <= i)

\* i is ahead of every row of s and of the one the loop starts with.
Ahead(rank, s, b, i) == i \in s \cup {b} /\ \A j \in s \cup {b} : Behind(rank, j, i)

\* g is what the loop has selected after the rows of each set.
Loops(g, matching, rank, b) ==
  g = [s \in SUBSET matching |->
         IF s = {} THEN b
         ELSE IF rank[Max(s)] >= rank[g[s \ {Max(s)}]] THEN Max(s) ELSE g[s \ {Max(s)}]]

\* What the library folds is what such a loop gives for all the rows.
LEMMA SelectedIsLoop ==
  \A matching, rank :
    Selected(matching, rank) = (CHOOSE g : Loops(g, matching, rank, Min(matching)))[matching]
BY DEF Selected, MapThenFoldSet, Loops

\* One turn of the loop.
LEMMA LoopStep ==
  ASSUME NEW n \in Nat, NEW matching \in SUBSET (0..n), NEW rank \in [matching -> Nat],
         NEW b \in matching, \A j \in matching : b <= j,
         NEW s \in SUBSET matching, s # {},
         NEW i, Ahead(rank, s \ {Max(s)}, b, i)
  PROVE  Ahead(rank, s, b, IF rank[Max(s)] >= rank[i] THEN Max(s) ELSE i)
<1> DEFINE m == Max(s)
<1>1. m \in s /\ \A j \in s : j <= m
    BY MaxIsGreatest
<1> HIDE DEF m
<1>2. /\ i \in matching /\ m \in matching /\ b <= m
      /\ \A j \in matching : j \in Nat /\ rank[j] \in Nat
    BY <1>1 DEF Ahead
<1>3. \A j \in s \cup {b} : j = m \/ (j \in matching /\ j <= m /\ Behind(rank, j, i))
    BY <1>1, <1>2 DEF Ahead, m
<1>4. CASE rank[m] >= rank[i]
    <2>1. SUFFICES ASSUME NEW j \in s \cup {b} PROVE Behind(rank, j, m)
        BY <1>1, <1>4 DEF Ahead, m
    <2>2. CASE j = m
        BY <1>2, <2>2 DEF Behind
    <2>3. CASE j # m
        <3>1. /\ j \in Nat /\ j <= m /\ rank[j] \in Nat /\ rank[j] <= rank[i]
              /\ rank[i] \in Nat /\ rank[m] \in Nat
            BY <1>2, <1>3, <2>3 DEF Behind
        <3>2. QED
            BY <1>4, <3>1 DEF Behind
    <2>4. QED
        BY <2>2, <2>3
<1>5. CASE ~ (rank[m] >= rank[i])
    <2>1. \A j \in s \cup {b} : Behind(rank, j, i)
        BY <1>2, <1>3, <1>5 DEF Behind
    <2>2. i \in s \cup {b}
        BY DEF Ahead
    <2>3. QED
        BY <1>5, <2>1, <2>2 DEF Ahead, m
<1>6. QED
    BY <1>4, <1>5 DEF m

\* Two rows cannot be ahead of one another.
LEMMA OneIsAhead ==
  ASSUME NEW n \in Nat, NEW matching \in SUBSET (0..n), NEW rank \in [matching -> Nat],
         NEW b \in matching, NEW s \in SUBSET matching,
         NEW i, Ahead(rank, s, b, i), NEW j, Ahead(rank, s, b, j)
  PROVE  i = j
<1>1. /\ i \in Nat /\ j \in Nat /\ rank[i] \in Nat /\ rank[j] \in Nat
      /\ Behind(rank, i, j) /\ Behind(rank, j, i)
    BY DEF Ahead
<1>2. QED
    BY <1>1 DEF Behind

\* Wherever the loop stands, one row is ahead, and it is the one selected.
LEMMA LoopIsAhead ==
  ASSUME NEW n \in Nat, NEW matching \in SUBSET (0..n), NEW rank \in [matching -> Nat],
         NEW b \in matching, \A j \in matching : b <= j,
         NEW s \in SUBSET matching
  PROVE  /\ \E i : Ahead(rank, s, b, i)
         /\ \A g : Loops(g, matching, rank, b) => Ahead(rank, s, b, g[s])
<1> DEFINE Good(t) == /\ \E i : Ahead(rank, t, b, i)
                      /\ \A g : Loops(g, matching, rank, b) => Ahead(rank, t, b, g[t])
           Bad == {t \in SUBSET matching : ~ Good(t)}
<1>1. IsFiniteSet(matching)
    <2>1. 0 \in Int /\ n \in Int
        OBVIOUS
    <2>2. IsFiniteSet(0..n)
        BY <2>1, FS_Interval
    <2>3. QED
        BY <2>2, FS_Subset
<1>2. Good({})
    <2>1. b \in Nat /\ rank[b] \in Nat
        OBVIOUS
    <2>2. Ahead(rank, {}, b, b)
        BY <2>1 DEF Ahead, Behind
    <2>3. \A g : Loops(g, matching, rank, b) => g[{}] = b
        BY DEF Loops
    <2>4. QED
        BY <2>2, <2>3
<1>3. ASSUME NEW t \in SUBSET matching, t # {}, Good(t \ {Max(t)})
      PROVE  Good(t)
    <2> DEFINE rest == t \ {Max(t)}
    <2>1. PICK i : Ahead(rank, rest, b, i)
        BY <1>3
    <2>2. Ahead(rank, t, b, IF rank[Max(t)] >= rank[i] THEN Max(t) ELSE i)
        BY <1>3, <2>1, LoopStep
    <2>3. ASSUME NEW g, Loops(g, matching, rank, b) PROVE Ahead(rank, t, b, g[t])
        <3>1. g[t] = IF rank[Max(t)] >= rank[g[rest]] THEN Max(t) ELSE g[rest]
            BY <1>3, <2>3 DEF Loops
        <3>2. Ahead(rank, rest, b, g[rest])
            BY <1>3, <2>3
        <3> HIDE DEF rest
        <3>3. QED
            BY <1>3, <3>1, <3>2, LoopStep DEF rest
    <2>4. QED
        BY <2>2, <2>3
<1>4. Bad = {}
    <2>1. SUFFICES ASSUME Bad # {} PROVE FALSE
        OBVIOUS
    <2>2. Bad \in SUBSET (SUBSET matching)
        OBVIOUS
    <2>3. PICK t \in Bad : \A u \in Bad : u \subseteq t => u = t
        <3> HIDE DEF Bad
        <3>1. QED
            <4> DEFINE rows == matching
            <4>1. IsFiniteSet(rows) /\ Bad \in SUBSET (SUBSET rows) /\ Bad # {}
                BY <1>1, <2>1, <2>2
            <4> HIDE DEF rows
            <4>2. QED
                BY <4>1, LeastSet
    <2> HIDE DEF Good
    <2>4. t \in SUBSET matching /\ t # {}
        BY <1>2
    <2>5. Max(t) \in t
        BY <2>4, MaxIsGreatest
    <2>6. t \ {Max(t)} \in SUBSET matching /\ t \ {Max(t)} # t
        BY <2>4, <2>5
    <2>7. Good(t \ {Max(t)})
        BY <2>3, <2>6
    <2>8. QED
        BY <1>3, <2>3, <2>4, <2>7
<1>5. QED
    <2> HIDE DEF Good
    <2>1. Good(s)
        BY <1>4
    <2>2. QED
        BY <2>1 DEF Good

\* The loop selects the latest of the rows that rank highest.
LEMMA SelectedIsAhead ==
  ASSUME NEW n \in Nat, NEW matching \in SUBSET (0..n), matching # {},
         NEW rank \in [matching -> Nat]
  PROVE  /\ Selected(matching, rank) \in matching
         /\ \A j \in matching : Behind(rank, j, Selected(matching, rank))
<1> DEFINE b == Min(matching)
<1>1. b \in matching /\ \A j \in matching : b <= j
    <2>1. matching \in SUBSET Nat
        OBVIOUS
    <2>2. QED
        BY <2>1, MinIsLeast
<1> HIDE DEF b
<1> DEFINE best(s) == CHOOSE i : Ahead(rank, s, b, i)
           g == [s \in SUBSET matching |-> best(s)]
<1>2. \A s \in SUBSET matching : Ahead(rank, s, b, best(s))
    BY <1>1, LoopIsAhead
<1>3. \A s \in SUBSET matching :
        g[s] = IF s = {} THEN b
               ELSE IF rank[Max(s)] >= rank[g[s \ {Max(s)}]] THEN Max(s) ELSE g[s \ {Max(s)}]
    <2>1. TAKE s \in SUBSET matching
    <2>2. g[s] = best(s) /\ g[s \ {Max(s)}] = best(s \ {Max(s)})
        OBVIOUS
    <2> HIDE DEF g, best
    <2>3. CASE s = {}
        <3>1. best(s) \in s \cup {b}
            BY <1>2 DEF Ahead
        <3>2. QED
            BY <2>2, <2>3, <3>1
    <2>4. CASE s # {}
        <3> DEFINE i == best(s \ {Max(s)})
                   next == IF rank[Max(s)] >= rank[i] THEN Max(s) ELSE i
        <3>1. Ahead(rank, s \ {Max(s)}, b, i)
            BY <1>2
        <3>2. Ahead(rank, s, b, next)
            BY <1>1, <2>4, <3>1, LoopStep
        <3> HIDE DEF next
        <3>3. best(s) = next
            BY <1>1, <1>2, <3>2, OneIsAhead
        <3>4. QED
            BY <2>2, <2>4, <3>3 DEF next
    <2>5. QED
        BY <2>3, <2>4
<1>4. Loops(g, matching, rank, b)
    <2>1. g = [s \in SUBSET matching |-> g[s]]
        OBVIOUS
    <2> HIDE DEF g
    <2>2. QED
        BY <1>3, <2>1 DEF Loops
<1> DEFINE h == CHOOSE f : Loops(f, matching, rank, b)
<1>5. Loops(h, matching, rank, b)
    <2> HIDE DEF g
    <2>1. QED
        BY <1>4
<1>6. Selected(matching, rank) = h[matching]
    BY SelectedIsLoop DEF b
<1> HIDE DEF h
<1>7. Ahead(rank, matching, b, h[matching])
    BY <1>1, <1>5, LoopIsAhead
<1>8. QED
    BY <1>1, <1>6, <1>7 DEF Ahead

\* What the cascade reads: at most one override of an item, and times of update
\* that are in the past, so that no row is ever put before an older one.
OverridesAgree ==
  /\ \A i \in DOMAIN overrides : i \in Nat /\ i < edits /\ overrides[i] # NoLayer
  /\ \A i, j \in DOMAIN overrides :
       overrides[i].media = overrides[j].media /\ overrides[i].key = overrides[j].key => i = j

AssignmentsPresent == \A i \in DOMAIN assignments : assignments[i] # NoLayer

CascadeInv == AssignmentsAgree /\ AssignmentsPresent /\ OverridesAgree

\* A fresh installation has no assignment and no override.
LEMMA CascadeInvInit == ASSUME PolicyInit PROVE CascadeInv
BY PolicyAdminAssumption
DEF PolicyInit, CascadeInv, AssignmentsAgree, AssignmentsPresent, OverridesAgree

\* An override is the latest of all once it is updated, and replaces the one
\* the item had.
LEMMA UpsertStep ==
  ASSUME OverridesAgree, edits \in Nat, NEW u \in Operators, NEW item \in Items,
         NEW values, UpsertOverride(u, item, values)
  PROVE  OverridesAgree'
<1> DEFINE added == [media |-> item.media, key |-> item.key, values |-> values]
           kept == {i \in DOMAIN overrides : ~ (/\ overrides[i].media = item.media
                                                /\ overrides[i].key = item.key)}
<1>1. /\ overrides' = With(Restrict(overrides, kept), edits, added)
      /\ edits' = edits + 1
    BY DEF UpsertOverride, Edits
<1>2. added.media = item.media /\ added.key = item.key /\ added # NoLayer
    BY DEF NoLayer
<1> HIDE DEF added
<1>3. edits \notin DOMAIN overrides
    BY DEF OverridesAgree
<1>4. /\ DOMAIN overrides' = kept \cup {edits}
      /\ overrides'[edits] = added
      /\ \A i \in kept : overrides'[i] = overrides[i]
    BY <1>1, <1>3 DEF With, Restrict
<1>5. \A i \in DOMAIN overrides' : i \in Nat /\ i < edits' /\ overrides'[i] # NoLayer
    BY <1>1, <1>2, <1>4 DEF OverridesAgree
<1>6. \A i, j \in DOMAIN overrides' :
        overrides'[i].media = overrides'[j].media /\ overrides'[i].key = overrides'[j].key => i = j
    BY <1>2, <1>4 DEF OverridesAgree
<1>7. QED
    BY <1>5, <1>6 DEF OverridesAgree

\* Every request keeps what the cascade relies on.
LEMMA CascadeInvStep ==
  ASSUME CascadeInv, [PolicyNext]_adminVars PROVE CascadeInv'
<1>1. AssignmentsAgree'
    BY AssignmentsStep DEF CascadeInv
<1>2. /\ edits \in Nat
      /\ UNCHANGED edits \/ edits' = edits + 1
    <2>1. UNCHANGED edits \/ Edits
        BY ZenonT(40) DEF PolicyNext, adminVars, CommitDelete, CommitActivate, EditsPresets, ReadForDelete,
               ReadForActivate, ForkPreset, RenamePreset, CreatePreset, UpdatePreset,
               EditsProfiles, DeleteProfile, CreateAssignment, CreateProfile, UpdateProfile,
               ImportPolicies, EditsRules, DeleteAssignment, DeleteOverride, UpsertOverride,
               CreateExclusion, DeleteExclusion
    <2>2. edits \in Nat
        BY PolicyAdminAssumption DEF CascadeInv, AssignmentsAgree
    <2>3. QED
        BY <2>1, <2>2 DEF Edits
<1>3. \/ UNCHANGED assignments
      \/ \E S \in SUBSET DOMAIN assignments : assignments' = Restrict(assignments, S)
      \/ \E s, p : assignments' = With(assignments, edits, [scope |-> s, profile |-> p])
    BY ZenonT(40) DEF PolicyNext, adminVars, CommitDelete, CommitActivate, EditsPresets, ReadForDelete,
           ReadForActivate, ForkPreset, RenamePreset, CreatePreset, UpdatePreset, EditsProfiles,
           DeleteProfile, CreateAssignment, CreateProfile, UpdateProfile, ImportPolicies,
           EditsRules, DeleteAssignment, DeleteOverride, UpsertOverride, CreateExclusion,
           DeleteExclusion
<1>4. AssignmentsPresent'
    <2>1. \A s, p : [scope |-> s, profile |-> p] # NoLayer
        BY DEF NoLayer
    <2>2. CASE \E s, p : assignments' = With(assignments, edits, [scope |-> s, profile |-> p])
        <3>1. PICK added : added # NoLayer /\ assignments' = With(assignments, edits, added)
            BY <2>1, <2>2
        <3>2. QED
            BY <3>1 DEF CascadeInv, AssignmentsPresent, With
    <2>3. CASE \E S \in SUBSET DOMAIN assignments : assignments' = Restrict(assignments, S)
        BY <2>3 DEF CascadeInv, AssignmentsPresent, Restrict
    <2>4. QED
        BY <1>3, <2>2, <2>3 DEF CascadeInv, AssignmentsPresent
<1>5. OverridesAgree'
    <2>1. \/ UNCHANGED overrides
          \/ \E S \in SUBSET DOMAIN overrides : overrides' = Restrict(overrides, S)
          \/ \E u \in Operators, item \in Items, values \in LayerValues :
               UpsertOverride(u, item, values)
        BY ZenonT(40) DEF PolicyNext, adminVars, CommitDelete, CommitActivate, EditsPresets, ReadForDelete,
               ReadForActivate, ForkPreset, RenamePreset, CreatePreset, UpdatePreset,
               EditsProfiles, DeleteProfile, CreateAssignment, CreateProfile, UpdateProfile,
               ImportPolicies, EditsRules, DeleteAssignment, DeleteOverride, CreateExclusion,
               DeleteExclusion
    <2>2. CASE UNCHANGED overrides
        BY <1>2, <2>2 DEF CascadeInv, OverridesAgree
    <2>3. CASE \E S \in SUBSET DOMAIN overrides : overrides' = Restrict(overrides, S)
        BY <1>2, <2>3 DEF CascadeInv, OverridesAgree, Restrict
    <2>4. QED
        BY <1>2, <2>1, <2>2, <2>3, UpsertStep DEF CascadeInv
<1>6. QED
    BY <1>1, <1>4, <1>5 DEF CascadeInv

\* An item is an episode of a series, or a movie.
ItemsKnown == \A item \in Items : item.media \in {"series", "movie"}

\* The assignment that applies is the latest of the most specific.
LEMMA AssignmentIsBest ==
  ASSUME CascadeInv, NEW item, item.media \in {"series", "movie"}
  PROVE  LET matching == {i \in DOMAIN assignments : ScopeMatches(assignments[i].scope, item)}
             rank(i) == Specificity[assignments[i].scope.type]
             best == {i \in matching : \A j \in matching :
                        rank(j) < rank(i) \/ (rank(j) = rank(i) /\ j <= i)}
         IN \/ matching = {} /\ best = {} /\ SelectAssignment(item, assignments) = NoLayer
            \/ \E i \in best : best = {i} /\ SelectAssignment(item, assignments) = assignments[i]
                               /\ assignments[i] # NoLayer
<1> DEFINE matching == {i \in DOMAIN assignments : ScopeMatches(assignments[i].scope, item)}
           rank(i) == Specificity[assignments[i].scope.type]
           ranks == [i \in matching |-> rank(i)]
           best == {i \in matching : \A j \in matching :
                      rank(j) < rank(i) \/ (rank(j) = rank(i) /\ j <= i)}
<1>1. edits \in Nat /\ matching \in SUBSET (0..edits)
    <2>1. edits \in Nat
        BY PolicyAdminAssumption DEF CascadeInv, AssignmentsAgree
    <2>2. QED
        BY <2>1 DEF CascadeInv, AssignmentsAgree
<1>2. \A i \in matching : rank(i) \in Nat
    <2>1. TAKE i \in matching
    <2>2. assignments[i].scope.type \in {"instance", "library", "series", "movie"}
        BY DEF ScopeMatches
    <2>3. QED
        BY <2>2 DEF Specificity
<1>3. SelectAssignment(item, assignments) =
        IF matching = {} THEN NoLayer ELSE assignments[Selected(matching, ranks)]
    BY DEF SelectAssignment
<1>4. ranks \in [matching -> Nat] /\ \A i \in matching : ranks[i] = rank(i)
    BY <1>2
<1> DEFINE i == Selected(matching, ranks)
<1>5. CASE matching # {}
    <2>1. i \in matching /\ \A j \in matching : Behind(ranks, j, i)
        <3> HIDE DEF matching, ranks
        <3>1. QED
            BY <1>1, <1>4, <1>5, SelectedIsAhead
    <2> HIDE DEF i, ranks, rank
    <2>2. i \in best
        BY <1>4, <2>1 DEF Behind
    <2>3. ASSUME NEW k \in best PROVE k = i
        <3>1. k \in matching /\ k \in Nat /\ i \in Nat /\ rank(k) \in Nat /\ rank(i) \in Nat
            BY <1>1, <1>2, <2>1
        <3>2. rank(i) < rank(k) \/ (rank(i) = rank(k) /\ i <= k)
            BY <2>1
        <3>3. rank(k) < rank(i) \/ (rank(k) = rank(i) /\ k <= i)
            BY <2>2, <3>1
        <3>4. QED
            BY <3>1, <3>2, <3>3
    <2>4. best = {i}
        BY <2>2, <2>3
    <2>5. assignments[i] # NoLayer
        BY <2>1 DEF CascadeInv, AssignmentsPresent
    <2>6. SelectAssignment(item, assignments) = assignments[i]
        BY <1>3, <1>5 DEF i
    <2>7. QED
        BY <2>2, <2>4, <2>5, <2>6 DEF rank
<1>6. CASE matching = {}
    BY <1>3, <1>6
<1>7. QED
    BY <1>5, <1>6

\* The override that applies is the one of the item.
LEMMA OverrideIsOwn ==
  ASSUME CascadeInv, NEW item
  PROVE  LET own == {i \in DOMAIN overrides : overrides[i].media = item.media
                                              /\ overrides[i].key = item.key}
         IN \/ own = {} /\ SelectOverride(item, overrides) = NoLayer
            \/ \E i \in own : own = {i} /\ SelectOverride(item, overrides) = overrides[i]
                              /\ overrides[i] # NoLayer
<1> DEFINE own == {i \in DOMAIN overrides : overrides[i].media = item.media
                                            /\ overrides[i].key = item.key}
           ranks == [i \in own |-> 0]
<1>1. edits \in Nat /\ own \in SUBSET (0..edits)
    <2>1. edits \in Nat
        BY PolicyAdminAssumption DEF CascadeInv, AssignmentsAgree
    <2>2. QED
        BY <2>1 DEF CascadeInv, OverridesAgree
<1>2. ranks \in [own -> Nat]
    OBVIOUS
<1>3. SelectOverride(item, overrides) =
        IF own = {} THEN NoLayer ELSE overrides[Selected(own, ranks)]
    BY DEF SelectOverride
<1>4. CASE own # {}
    <2>1. Selected(own, ranks) \in own
        <3> HIDE DEF own, ranks
        <3>1. QED
            BY <1>1, <1>2, <1>4, SelectedIsAhead
    <2>2. PICK i \in own : SelectOverride(item, overrides) = overrides[i]
        BY <1>3, <1>4, <2>1
    <2>3. own = {i} /\ overrides[i] # NoLayer
        BY DEF CascadeInv, OverridesAgree
    <2>4. QED
        BY <2>2, <2>3
<1>5. CASE own = {}
    BY <1>3, <1>5
<1>6. QED
    BY <1>4, <1>5

\* One layer on top of another.
LEMMA LayerIsApplied ==
  ASSUME NEW effective, NEW layer, NEW values, NEW f \in Fields
  PROVE  Apply(effective, layer, values)[f] =
           IF f \in DOMAIN values THEN [value |-> values[f], layer |-> layer] ELSE effective[f]
BY DEF Apply

\* Rows like these resolve to the nearest layer, field by field.
LEMMA NearestFollows ==
  ASSUME CascadeInv, ItemsKnown PROVE NearestLayerWins
<1>1. SUFFICES
        ASSUME NEW item \in Items, NEW preset \in PresetLayers, NEW f \in Fields
        PROVE
          LET own == {i \in DOMAIN overrides : overrides[i].media = item.media
                                               /\ overrides[i].key = item.key}
              matching == {i \in DOMAIN assignments : ScopeMatches(assignments[i].scope, item)}
              rank(i) == Specificity[assignments[i].scope.type]
              best == {i \in matching : \A j \in matching :
                         rank(j) < rank(i) \/ (rank(j) = rank(i) /\ j <= i)}
              sets(layers) == {v \in layers : f \in DOMAIN v}
              byOverride == sets({overrides[i].values : i \in own})
              byProfile == sets({profiles[assignments[i].profile] : i \in best})
              stamps(layers, name) == {[value |-> v[f], layer |-> name] : v \in layers}
          IN EffectivePolicy(item, preset)[f] \in
               IF byOverride # {} THEN stamps(byOverride, "override")
               ELSE IF byProfile # {} THEN stamps(byProfile, "profile")
               ELSE IF f \in DOMAIN preset THEN stamps({preset}, "preset")
               ELSE stamps({GlobalDefaults}, "global")
    BY DEF NearestLayerWins
<1> DEFINE own == {i \in DOMAIN overrides : overrides[i].media = item.media
                                            /\ overrides[i].key = item.key}
           matching == {i \in DOMAIN assignments : ScopeMatches(assignments[i].scope, item)}
           rank(i) == Specificity[assignments[i].scope.type]
           best == {i \in matching : \A j \in matching :
                      rank(j) < rank(i) \/ (rank(j) = rank(i) /\ j <= i)}
           assignment == SelectAssignment(item, assignments)
           override == SelectOverride(item, overrides)
           base == Apply(Initially, "preset", preset)
           withProfile == IF assignment = NoLayer THEN base
                          ELSE Apply(base, "profile", profiles[assignment.profile])
           policy == EffectivePolicy(item, preset)
           sets(layers) == {v \in layers : f \in DOMAIN v}
           byOverride == sets({overrides[i].values : i \in own})
           byProfile == sets({profiles[assignments[i].profile] : i \in best})
           stamps(layers, name) == {[value |-> v[f], layer |-> name] : v \in layers}
<1>2. policy[f] = IF override = NoLayer THEN withProfile[f]
                  ELSE Apply(withProfile, "override", override.values)[f]
    BY DEF EffectivePolicy, Resolve
<1>3. base[f] \in IF f \in DOMAIN preset THEN stamps({preset}, "preset")
                  ELSE stamps({GlobalDefaults}, "global")
    <2>1. Initially[f] = [value |-> GlobalDefaults[f], layer |-> "global"]
        BY DEF Initially
    <2>2. base[f] = IF f \in DOMAIN preset THEN [value |-> preset[f], layer |-> "preset"]
                    ELSE Initially[f]
        BY LayerIsApplied
    <2> HIDE DEF base
    <2>3. QED
        BY <2>1, <2>2
<1>4. withProfile[f] \in IF byProfile # {} THEN stamps(byProfile, "profile") ELSE {base[f]}
    <2>1. CASE best = {} /\ assignment = NoLayer
        BY <2>1
    <2>2. ASSUME NEW i \in best, best = {i}, assignment = assignments[i], assignments[i] # NoLayer
          PROVE  withProfile[f] \in IF byProfile # {} THEN stamps(byProfile, "profile")
                                    ELSE {base[f]}
        <3> DEFINE values == profiles[assignments[i].profile]
        <3>1. byProfile = IF f \in DOMAIN values THEN {values} ELSE {}
            <4> HIDE DEF best
            <4>1. QED
                BY <2>2
        <3>2. withProfile[f] = IF f \in DOMAIN values
                               THEN [value |-> values[f], layer |-> "profile"] ELSE base[f]
            <4> HIDE DEF best, base, assignment, values
            <4>1. withProfile = Apply(base, "profile", values)
                BY <2>2 DEF values
            <4>2. QED
                BY <4>1, LayerIsApplied
        <3> HIDE DEF best, withProfile, base, byProfile, values
        <3>3. QED
            BY <3>1, <3>2
    <2>3. \/ best = {} /\ assignment = NoLayer
          \/ \E i \in best : best = {i} /\ assignment = assignments[i] /\ assignments[i] # NoLayer
        <3>1. item.media \in {"series", "movie"}
            BY DEF ItemsKnown
        <3>2. QED
            BY <3>1, AssignmentIsBest
    <2>4. QED
        <3> HIDE DEF best, assignment, withProfile, base, byProfile
        <3>1. QED
            BY <2>1, <2>2, <2>3
<1>5. policy[f] \in IF byOverride # {} THEN stamps(byOverride, "override") ELSE {withProfile[f]}
    <2> HIDE DEF policy, withProfile
    <2>1. CASE own = {} /\ override = NoLayer
        BY <1>2, <2>1
    <2>2. ASSUME NEW i \in own, own = {i}, override = overrides[i], overrides[i] # NoLayer
          PROVE  policy[f] \in IF byOverride # {} THEN stamps(byOverride, "override")
                               ELSE {withProfile[f]}
        <3> DEFINE values == overrides[i].values
        <3>1. byOverride = IF f \in DOMAIN values THEN {values} ELSE {}
            <4> HIDE DEF own
            <4>1. QED
                BY <2>2
        <3>2. policy[f] = IF f \in DOMAIN values
                          THEN [value |-> values[f], layer |-> "override"] ELSE withProfile[f]
            <4> HIDE DEF override
            <4>1. policy[f] = Apply(withProfile, "override", values)[f]
                BY <1>2, <2>2
            <4> HIDE DEF values
            <4>2. QED
                BY <4>1, LayerIsApplied
        <3> HIDE DEF own, byOverride, values
        <3>3. QED
            BY <3>1, <3>2
    <2>3. \/ own = {} /\ override = NoLayer
          \/ \E i \in own : own = {i} /\ override = overrides[i] /\ overrides[i] # NoLayer
        BY OverrideIsOwn
    <2>4. QED
        <3> HIDE DEF own, override, byOverride
        <3>1. QED
            BY <2>1, <2>2, <2>3
<1>6. policy[f] \in IF byOverride # {} THEN stamps(byOverride, "override")
                    ELSE IF byProfile # {} THEN stamps(byProfile, "profile")
                    ELSE IF f \in DOMAIN preset THEN stamps({preset}, "preset")
                    ELSE stamps({GlobalDefaults}, "global")
    <2> HIDE DEF policy, withProfile, base, byOverride, byProfile, stamps
    <2>1. QED
        BY <1>3, <1>4, <1>5
<1>7. QED
    BY <1>6

\* Whatever administrators do, however many edit at once, each value of the
\* effective policy comes with the stamp of the nearest layer that sets it
\* (select_assignment, select_override, resolve_policy and the tables they read).
THEOREM NearestLayerHolds == ASSUME ItemsKnown PROVE PolicySpec => []NearestLayerWins
<1>1. PolicyInit => CascadeInv
    BY CascadeInvInit
<1>2. CascadeInv /\ [PolicyNext]_adminVars => CascadeInv'
    BY CascadeInvStep
<1>3. CascadeInv => NearestLayerWins
    BY NearestFollows
<1>4. QED
    BY <1>1, <1>2, <1>3, PTL DEF PolicySpec

-----------------------------------------------------------------------------
(* BacklogPolicy, for every item, want, policy, library and set of rules.  *)

Pairs(excluded) == {rule.key : rule \in {r \in excluded : r.kind = "language_pair"}}

\* What keeps a want from being planned.
Obstructed(item, seen, want, files, policy, excluded, days) ==
  LET source == ElectSource(want, files, policy, Pairs(excluded))
  IN \/ want.language \notin policy.target_languages.value
     \/ want.hi /\ ~ policy.translate_hi_targets.value
     \/ want.forced /\ ~ policy.translate_forced_targets.value
     \/ policy.skip_unmonitored.value /\ ~ seen
     \/ MatchExclusions(item, excluded, << >>) # {}
     \/ policy.skip_if_embedded_target.value /\ EmbeddedTarget(want, files)
     \/ source = NoSource
     \/ MatchExclusions(item, excluded, <<source, want.language>>) # {}
     \/ ~ GracePassed(item, policy, days)

\* The explainer plans a want unless something keeps it, and names no source
\* for one it does not plan.
LEMMA ExplainedBy ==
  ASSUME NEW item, NEW seen, NEW want, NEW files, NEW policy, NEW excluded, NEW days
  PROVE  /\ Explain(item, seen, want, files, policy, excluded, days).reason = "planned"
              <=> ~ Obstructed(item, seen, want, files, policy, excluded, days)
         /\ Explain(item, seen, want, files, policy, excluded, days).source =
              IF Obstructed(item, seen, want, files, policy, excluded, days) THEN NoSource
              ELSE ElectSource(want, files, policy, Pairs(excluded))
<1> DEFINE source == ElectSource(want, files, policy, Pairs(excluded))
           o1 == want.language \notin policy.target_languages.value
           o2 == want.hi /\ ~ policy.translate_hi_targets.value
           o3 == want.forced /\ ~ policy.translate_forced_targets.value
           o4 == policy.skip_unmonitored.value /\ ~ seen
           o5 == MatchExclusions(item, excluded, << >>) # {}
           o6 == policy.skip_if_embedded_target.value /\ EmbeddedTarget(want, files)
           o7 == source = NoSource
           o8 == MatchExclusions(item, excluded, <<source, want.language>>) # {}
           o9 == ~ GracePassed(item, policy, days)
           all == { [at |-> 1, reason |-> "target_not_in_policy", holds |-> o1],
                    [at |-> 2, reason |-> "hi_target_disabled", holds |-> o2],
                    [at |-> 3, reason |-> "forced_target_disabled", holds |-> o3],
                    [at |-> 4, reason |-> "unmonitored", holds |-> o4],
                    [at |-> 5, reason |-> "excluded", holds |-> o5],
                    [at |-> 6, reason |-> "embedded_target_exists", holds |-> o6],
                    [at |-> 7, reason |-> "no_eligible_source", holds |-> o7],
                    [at |-> 8, reason |-> "excluded", holds |-> o8],
                    [at |-> 9, reason |-> "grace_pending", holds |-> o9] }
           met == {o \in all : o.holds}
           first == CHOOSE o \in met : \A p \in met : o.at <= p.at
           verdict == Explain(item, seen, want, files, policy, excluded, days)
<1>1. verdict = IF met = {} THEN [reason |-> "planned", source |-> source]
                ELSE [reason |-> first.reason, source |-> NoSource]
    BY DEF Explain, Pairs
<1>2. Obstructed(item, seen, want, files, policy, excluded, days) <=>
        (o1 \/ o2 \/ o3 \/ o4 \/ o5 \/ o6 \/ o7 \/ o8 \/ o9)
    BY DEF Obstructed
<1> HIDE DEF o1, o2, o3, o4, o5, o6, o7, o8, o9, source, verdict
<1>3. met = {} <=> ~ (o1 \/ o2 \/ o3 \/ o4 \/ o5 \/ o6 \/ o7 \/ o8 \/ o9)
    <2>1. ASSUME o1 PROVE met # {}
        <3>1. [at |-> 1, reason |-> "target_not_in_policy", holds |-> o1] \in met
            BY <2>1
        <3>2. QED
            BY <3>1
    <2>2. ASSUME o2 PROVE met # {}
        <3>1. [at |-> 2, reason |-> "hi_target_disabled", holds |-> o2] \in met
            BY <2>2
        <3>2. QED
            BY <3>1
    <2>3. ASSUME o3 PROVE met # {}
        <3>1. [at |-> 3, reason |-> "forced_target_disabled", holds |-> o3] \in met
            BY <2>3
        <3>2. QED
            BY <3>1
    <2>4. ASSUME o4 PROVE met # {}
        <3>1. [at |-> 4, reason |-> "unmonitored", holds |-> o4] \in met
            BY <2>4
        <3>2. QED
            BY <3>1
    <2>5. ASSUME o5 PROVE met # {}
        <3>1. [at |-> 5, reason |-> "excluded", holds |-> o5] \in met
            BY <2>5
        <3>2. QED
            BY <3>1
    <2>6. ASSUME o6 PROVE met # {}
        <3>1. [at |-> 6, reason |-> "embedded_target_exists", holds |-> o6] \in met
            BY <2>6
        <3>2. QED
            BY <3>1
    <2>7. ASSUME o7 PROVE met # {}
        <3>1. [at |-> 7, reason |-> "no_eligible_source", holds |-> o7] \in met
            BY <2>7
        <3>2. QED
            BY <3>1
    <2>8. ASSUME o8 PROVE met # {}
        <3>1. [at |-> 8, reason |-> "excluded", holds |-> o8] \in met
            BY <2>8
        <3>2. QED
            BY <3>1
    <2>9. ASSUME o9 PROVE met # {}
        <3>1. [at |-> 9, reason |-> "grace_pending", holds |-> o9] \in met
            BY <2>9
        <3>2. QED
            BY <3>1
    <2>10. ASSUME NEW o \in met PROVE o1 \/ o2 \/ o3 \/ o4 \/ o5 \/ o6 \/ o7 \/ o8 \/ o9
        OBVIOUS
    <2>11. QED
        <3> HIDE DEF met
        <3>1. QED
            BY <2>1, <2>2, <2>3, <2>4, <2>5, <2>6, <2>7, <2>8, <2>9, <2>10
<1>4. met # {} => first \in met
    <2>1. SUFFICES ASSUME met # {} PROVE first \in met
        OBVIOUS
    <2> DEFINE places == {o.at : o \in met}
    <2>2. places \in SUBSET Nat /\ places # {}
        BY <2>1
    <2>3. Min(places) \in places /\ \A k \in places : Min(places) <= k
        <3> HIDE DEF places
        <3>1. QED
            BY <2>2, MinIsLeast
    <2> HIDE DEF met
    <2>4. \E o \in met : \A p \in met : o.at <= p.at
        BY <2>3
    <2>5. QED
        BY <2>4
<1>5. \A o \in met : o.reason # "planned"
    OBVIOUS
<1> HIDE DEF met, first
<1>6. QED
    BY <1>1, <1>2, <1>3, <1>4, <1>5 DEF source, verdict

\* More exclusions keep at least as much from being planned, and elect no other
\* source.
LEMMA ExclusionsOnlyStop ==
  ASSUME NEW item, NEW seen, NEW want, NEW files, NEW policy, NEW days,
         NEW old, NEW new, old \subseteq new
  PROVE  Explain(item, seen, want, files, policy, new, days).source
           \in {Explain(item, seen, want, files, policy, old, days).source, NoSource}
<1> DEFINE source == ElectSource(want, files, policy, Pairs(old))
<1>1. ElectSource(want, files, policy, Pairs(new)) = source
    BY DEF ElectSource
<1>2. \A pair : MatchExclusions(item, old, pair) \subseteq MatchExclusions(item, new, pair)
    BY DEF MatchExclusions
<1>3. Obstructed(item, seen, want, files, policy, old, days)
        => Obstructed(item, seen, want, files, policy, new, days)
    <2> HIDE DEF source
    <2>1. MatchExclusions(item, old, << >>) # {} => MatchExclusions(item, new, << >>) # {}
        BY <1>2
    <2>2. MatchExclusions(item, old, <<source, want.language>>) # {}
            => MatchExclusions(item, new, <<source, want.language>>) # {}
        BY <1>2
    <2>3. QED
        BY <1>1, <2>1, <2>2 DEF Obstructed, source
<1>4. QED
    <2> HIDE DEF source
    <2>1. CASE Obstructed(item, seen, want, files, policy, new, days)
        BY <2>1, ExplainedBy
    <2>2. CASE ~ Obstructed(item, seen, want, files, policy, new, days)
        <3>1. Explain(item, seen, want, files, policy, new, days).source = source
            BY <1>1, <2>2, ExplainedBy
        <3>2. Explain(item, seen, want, files, policy, old, days).source = source
            BY <1>3, <2>2, ExplainedBy DEF source
        <3>3. QED
            BY <3>1, <3>2
    <2>3. QED
        BY <2>1, <2>2

\* Grace is counted in days, whichever layer sets it.
PosturesCount ==
  \A f \in DOMAIN posture \cap {"grace_episodes", "grace_movies"} : posture[f] \in Nat

\* A resolved grace period is a number of days.
LEMMA GraceCounts ==
  ASSUME PosturesCount
  PROVE  Policy.grace_episodes.value \in Nat /\ Policy.grace_movies.value \in Nat
<1>1. Policy = Apply(Initially, "preset", posture)
    BY DEF Policy, Resolve, SelectAssignment, SelectOverride
<1>2. ASSUME NEW f \in {"grace_episodes", "grace_movies"} PROVE Policy[f].value \in Nat
    <2>1. f \in Fields
        BY DEF Fields, GlobalDefaults
    <2>2. Policy[f].value = IF f \in DOMAIN posture THEN posture[f] ELSE GlobalDefaults[f]
        BY <1>1, <2>1 DEF Apply, Initially
    <2>3. GlobalDefaults[f] \in Nat
        BY DEF GlobalDefaults
    <2>4. QED
        BY <2>2, <2>3 DEF PosturesCount
<1>3. QED
    BY <1>2

\* What has not been planned only for its age is planned later on, never the
\* other way round.
LEMMA GraceOnlyEnds ==
  ASSUME PosturesCount, age \in Nat, NEW later \in Nat, age <= later,
         Decision.reason = "planned"
  PROVE  Explain(Item, monitored, Want, subs, Policy, rules, later).reason = "planned"
<1>1. ~ Obstructed(Item, monitored, Want, subs, Policy, rules, age)
    BY ExplainedBy DEF Decision
<1>2. GracePassed(Item, Policy, age) => GracePassed(Item, Policy, later)
    <2> DEFINE grace == IF Item.media = "movie" THEN Policy.grace_movies.value
                                               ELSE Policy.grace_episodes.value
    <2>1. grace \in Nat
        BY GraceCounts
    <2>2. \A days : GracePassed(Item, Policy, days) <=> days >= grace
        BY DEF GracePassed
    <2> HIDE DEF grace
    <2>3. QED
        BY <2>1, <2>2
<1>3. ~ Obstructed(Item, monitored, Want, subs, Policy, rules, later)
    BY <1>1, <1>2 DEF Obstructed
<1>4. QED
    BY <1>3, ExplainedBy

\* A row is explained by the score it is ordered by.
Explained(r) == {"priority", "explained"} \subseteq DOMAIN r /\ r.priority = r.explained

RowIsExplained == row # NoRow => Explained(row)

BacklogInv == age \in Nat /\ PosturesCount /\ RowIsExplained

\* At the start there is no row.
LEMMA BacklogInvInit == ASSUME BacklogInit PROVE BacklogInv
BY DEF BacklogInit, BacklogInv, PosturesCount, RowIsExplained

\* Discovery, dispatch and every change around them keep the invariant.
LEMMA BacklogInvStep ==
  ASSUME BacklogInv, [BacklogNext]_backlogVars PROVE BacklogInv'
<1>1. age' \in Nat /\ (UNCHANGED age \/ DayPasses)
    BY DEF BacklogInv, BacklogNext, backlogVars, Discover, Dispatch, Supersede, RetryDue, DayPasses,
           ActivatePosture, SetActivation, ChangeRule, ChangeSub, SetMonitored, SetWatched
<1>2. PosturesCount'
    <2>1. UNCHANGED posture \/ posture' \in Postures
        BY DEF BacklogNext, backlogVars, Discover, Dispatch, Supersede, RetryDue, DayPasses,
               ActivatePosture, SetActivation, ChangeRule, ChangeSub, SetMonitored, SetWatched
    <2>2. QED
        BY <2>1, BacklogPolicyAssumption DEF BacklogInv, PosturesCount
<1>3. RowIsExplained'
    <2>1. CASE UNCHANGED row
        BY <2>1 DEF BacklogInv, RowIsExplained
    <2>2. CASE Discover
        <3>1. CASE row = NoRow
            <4>1. row' = [state |-> "eligible", source |-> Decision.source,
                          priority |-> Score, explained |-> Score]
                BY <2>2, <3>1 DEF Discover
            <4>2. QED
                BY <4>1 DEF RowIsExplained, Explained
        <3>2. CASE row # NoRow
            <4>1. Explained(row)
                BY <3>2 DEF BacklogInv, RowIsExplained
            <4>2. \/ row' = row
                  \/ row' = [row EXCEPT !.priority = Score, !.explained = Score]
                  \/ row' = [row EXCEPT !.source = Decision.source,
                                        !.priority = Score, !.explained = Score]
                BY <2>2, <3>2 DEF Discover, Refreshed
            <4>3. Explained(row')
                BY <4>1, <4>2 DEF Explained
            <4>4. QED
                BY <4>3 DEF RowIsExplained
        <3>3. QED
            BY <3>1, <3>2
    <2>3. CASE Dispatch \/ Supersede \/ RetryDue
        <3>1. PICK next : row # NoRow /\ row' = [row EXCEPT !.state = next]
            BY <2>3 DEF Dispatch, Supersede, RetryDue
        <3>2. QED
            BY <3>1 DEF BacklogInv, RowIsExplained, Explained
    <2>4. QED
        BY <2>1, <2>2, <2>3
        DEF BacklogNext, backlogVars, DayPasses, ActivatePosture, SetActivation, ChangeRule,
            ChangeSub, SetMonitored, SetWatched
<1>4. QED
    BY <1>1, <1>2, <1>3 DEF BacklogInv

\* The score a row is ordered by is the one its trace explains, however often
\* discovery scores it anew (upsert_intent, refresh_priority).
THEOREM PriorityHolds == BacklogSpec => []PriorityIsExplained
<1>1. BacklogInit => BacklogInv
    BY BacklogInvInit
<1>2. BacklogInv /\ [BacklogNext]_backlogVars => BacklogInv'
    BY BacklogInvStep
<1>3. BacklogInv => PriorityIsExplained
    BY DEF BacklogInv, RowIsExplained, Explained, PriorityIsExplained
<1>4. QED
    BY <1>1, <1>2, <1>3, PTL DEF BacklogSpec

\* Time never takes a plan back, and a new exclusion stops a plan or leaves it
\* alone, for every policy, library and set of rules (explain_candidate).
THEOREM DecisionsHold == BacklogSpec => DecisionsAreSteady
<1>1. BacklogInit => BacklogInv
    BY BacklogInvInit
<1>2. BacklogInv /\ [BacklogNext]_backlogVars => BacklogInv'
    BY BacklogInvStep
<1>3. BacklogInv /\ BacklogInv' /\ [BacklogNext]_backlogVars
        => [age' > age /\ Decision.reason = "planned" => Decision'.reason = "planned"]_backlogVars
    <2>1. SUFFICES ASSUME BacklogInv, BacklogInv', BacklogNext, age' > age,
                          Decision.reason = "planned"
                   PROVE  Decision'.reason = "planned"
        BY DEF backlogVars
    <2>2. UNCHANGED <<posture, rules, subs, monitored>>
        BY <2>1 DEF BacklogInv, BacklogNext, Discover, Dispatch, Supersede, RetryDue, DayPasses,
                    ActivatePosture, SetActivation, ChangeRule, ChangeSub, SetMonitored, SetWatched
    <2>3. Decision' = Explain(Item, monitored, Want, subs, Policy, rules, age')
        BY <2>2 DEF Decision, Policy
    <2>4. age \in Nat /\ age' \in Nat /\ age <= age' /\ PosturesCount
        BY <2>1 DEF BacklogInv
    <2>5. QED
        BY <2>1, <2>3, <2>4, GraceOnlyEnds
<1>4. BacklogInv /\ BacklogInv' /\ [BacklogNext]_backlogVars
        => [rules \subseteq rules' /\ rules # rules' =>
              Decision'.source \in {Decision.source, NoSource}]_backlogVars
    <2>1. SUFFICES ASSUME BacklogNext, rules \subseteq rules', rules # rules'
                   PROVE  Decision'.source \in {Decision.source, NoSource}
        BY DEF backlogVars
    <2>2. UNCHANGED <<posture, age, subs, monitored>>
        BY <2>1 DEF BacklogNext, Discover, Dispatch, Supersede, RetryDue, DayPasses,
                    ActivatePosture, SetActivation, ChangeRule, ChangeSub, SetMonitored, SetWatched
    <2>3. Decision' = Explain(Item, monitored, Want, subs, Policy, rules', age)
        BY <2>2 DEF Decision, Policy
    <2>4. Decision = Explain(Item, monitored, Want, subs, Policy, rules, age)
        BY DEF Decision
    <2>5. QED
        BY <2>1, <2>3, <2>4, ExclusionsOnlyStop
<1>5. BacklogSpec => TimeNeverUnplans
    BY <1>1, <1>2, <1>3, PTL DEF BacklogSpec, TimeNeverUnplans
<1>6. BacklogSpec => ExclusionNeverRedirects
    BY <1>1, <1>2, <1>4, PTL DEF BacklogSpec, ExclusionNeverRedirects
<1>7. QED
    BY <1>5, <1>6 DEF DecisionsAreSteady

-----------------------------------------------------------------------------
(* PlanPreview, for every backlog, setting of the rails and horizon.       *)

\* The rows and rails a plan is built from.
RailsTyped ==
  /\ rails.window \in Nat /\ rails.caps \subseteq Nat
  /\ rails.budget \in Nat \cup {NoBudget}

StatisticsTyped ==
  statistics # NoStatistics => statistics.files \in Nat /\ statistics.characters \in Nat

PlanInv == backlog \in Seq(Candidates) /\ RailsTyped /\ StatisticsTyped

\* At the start the backlog is empty, and the rails are those of no preset.
LEMMA PlanInvInit == ASSUME PlanInit PROVE PlanInv
BY DEF PlanInit, PlanInv, RailsTyped, StatisticsTyped

\* Rows come and go, presets and statistics change.
LEMMA PlanInvStep == ASSUME PlanInv, [PlanNext]_planVars PROVE PlanInv'
<1>1. backlog' \in Seq(Candidates)
    <2>1. ASSUME NEW c \in Candidates, Arrives(c) PROVE backlog' \in Seq(Candidates)
        <3>1. PICK k \in 1..(Len(backlog) + 1) : backlog' = InsertAt(backlog, k, c)
            BY <2>1 DEF Arrives
        <3>2. /\ SubSeq(backlog, 1, k - 1) \in Seq(Candidates)
              /\ SubSeq(backlog, k, Len(backlog)) \in Seq(Candidates)
              /\ <<c>> \in Seq(Candidates)
            BY DEF PlanInv
        <3>3. QED
            BY <3>1, <3>2 DEF InsertAt
    <2>2. CASE Leaves
        <3>1. PICK k \in DOMAIN backlog : backlog' = RemoveAt(backlog, k)
            BY <2>2 DEF Leaves
        <3>2. /\ SubSeq(backlog, 1, k - 1) \in Seq(Candidates)
              /\ SubSeq(backlog, k + 1, Len(backlog)) \in Seq(Candidates)
            BY DEF PlanInv
        <3>3. QED
            BY <3>1, <3>2 DEF RemoveAt
    <2>3. QED
        BY <2>1, <2>2 DEF PlanInv, PlanNext, planVars, ActivatePreset, ReadStatistics
<1>2. RailsTyped'
    BY PlanAssumption DEF PlanInv, RailsTyped, PlanNext, planVars, Arrives, Leaves,
       ActivatePreset, ReadStatistics
<1>3. StatisticsTyped'
    BY PlanAssumption DEF PlanInv, StatisticsTyped, PlanNext, planVars, Arrives, Leaves,
       ActivatePreset, ReadStatistics
<1>4. QED
    BY <1>1, <1>2, <1>3 DEF PlanInv

\* An estimate is a number of characters, for every row and every Lingarr.
LEMMA EstimateIsNatural ==
  ASSUME NEW media \in {"episode", "movie"}, NEW stats,
         stats # NoStatistics => stats.files \in Nat /\ stats.characters \in Nat
  PROVE  Estimate(media, stats) \in Nat
<1>1. Heuristic[media] \in Nat
    BY DEF Heuristic
<1>2. ASSUME NEW a \in Nat, NEW b \in Nat \ {0} PROVE a \div b \in Nat
    BY <1>2
<1>3. ASSUME stats # NoStatistics, stats.files >= ActualsMinSample
      PROVE  (5 * stats.characters + 4 * stats.files - 1) \div (4 * stats.files) \in Nat
    <2>1. stats.files \in Nat /\ stats.characters \in Nat /\ stats.files >= 20
        BY <1>3 DEF ActualsMinSample
    <2>2. 4 * stats.files \in Nat \ {0} /\ 5 * stats.characters + 4 * stats.files - 1 \in Nat
        BY <2>1
    <2>3. QED
        BY <1>2, <2>2
<1>4. QED
    BY <1>1, <1>3 DEF Estimate

-----------------------------------------------------------------------------
\* A plan over the places up to n.
PlanTyped(items, n) ==
  /\ DOMAIN items \subseteq 1..n
  /\ \A k \in DOMAIN items : items[k].characters \in Nat

\* What is included is finite, and so is what of it belongs to an instance.
LEMMA PlanSizes ==
  ASSUME NEW n \in Nat, NEW items, PlanTyped(items, n)
  PROVE  /\ IsFiniteSet(Included(items)) /\ Cardinality(Included(items)) \in Nat
         /\ \A i : /\ IsFiniteSet(OfInstance(items, i))
                   /\ Cardinality(OfInstance(items, i)) \in Nat
         /\ Characters(items) \in Nat
<1>1. IsFiniteSet(1..n)
    BY FS_Interval
<1>2. Included(items) \subseteq 1..n
    BY DEF Included, PlanTyped
<1>3. IsFiniteSet(Included(items)) /\ Cardinality(Included(items)) \in Nat
    BY <1>1, <1>2, FS_Subset, FS_CardinalityType
<1>4. ASSUME NEW i PROVE /\ IsFiniteSet(OfInstance(items, i))
                         /\ Cardinality(OfInstance(items, i)) \in Nat
    <2>1. OfInstance(items, i) \subseteq 1..n
        BY <1>2 DEF OfInstance
    <2>2. QED
        BY <1>1, <2>1, FS_Subset, FS_CardinalityType
<1>5. Characters(items) \in Nat
    <2> DEFINE f == [k \in Included(items) |-> items[k].characters]
    <2>1. \A k \in Included(items) : f[k] \in Nat
        BY DEF Included, PlanTyped
    <2> HIDE DEF f
    <2>2. SumOver(f, Included(items)) \in Nat
        BY <1>3, <2>1, SumType
    <2>3. QED
        BY <2>2 DEF Characters, f
<1>6. QED
    BY <1>3, <1>4, <1>5

\* The plan new judges one place more than items does.
Grown(new, items, n, c, characters, verdict) ==
  /\ PlanTyped(new, n)
  /\ DOMAIN new = DOMAIN items \cup {n} /\ n \notin DOMAIN items
  /\ \A k \in DOMAIN items : new[k] = items[k]
  /\ new[n] = [candidate |-> c, characters |-> characters, verdict |-> verdict]
  /\ Included(new) = Included(items) \cup (IF verdict = "included" THEN {n} ELSE {})

\* One more place is judged: what the plan holds then.
LEMMA JudgedGrows ==
  ASSUME NEW n \in Nat, NEW items, PlanTyped(items, n), NEW c, NEW characters \in Nat,
         NEW verdict
  PROVE  Grown(Judged(items, n + 1, c, characters, verdict), items, n + 1, c, characters, verdict)
<1> DEFINE new == Judged(items, n + 1, c, characters, verdict)
<1>1. DOMAIN new = DOMAIN items \cup {n + 1} /\ n + 1 \notin DOMAIN items
    BY DEF Judged, PlanTyped
<1>2. \A k \in DOMAIN items : new[k] = items[k]
    BY <1>1 DEF Judged
<1>3. new[n + 1] = [candidate |-> c, characters |-> characters, verdict |-> verdict]
    BY <1>1 DEF Judged
<1>4. PlanTyped(new, n + 1)
    BY <1>1, <1>2, <1>3 DEF PlanTyped
<1>5. Included(new) = Included(items) \cup (IF verdict = "included" THEN {n + 1} ELSE {})
    BY <1>1, <1>2, <1>3 DEF Included
<1>6. QED
    BY <1>1, <1>2, <1>3, <1>4, <1>5 DEF Grown

\* What is held adds to no count.
LEMMA HeldCounts ==
  ASSUME NEW n \in Nat, NEW items, PlanTyped(items, n), NEW c, NEW characters \in Nat,
         NEW verdict, verdict # "included",
         NEW new, Grown(new, items, n + 1, c, characters, verdict)
  PROVE  /\ Included(new) = Included(items) /\ Characters(new) = Characters(items)
         /\ \A i : OfInstance(new, i) = OfInstance(items, i)
<1> DEFINE f == [k \in Included(items) |-> items[k].characters]
           g == [k \in Included(new) |-> new[k].characters]
<1>1. /\ Included(new) = Included(items) /\ Included(items) \subseteq DOMAIN items
      /\ \A k \in DOMAIN items : new[k] = items[k]
    BY DEF Grown, Included
<1>2. f = g
    BY <1>1
<1>3. Characters(new) = Characters(items)
    BY <1>1, <1>2 DEF Characters
<1>4. QED
    BY <1>1, <1>3 DEF OfInstance

\* What is included adds one row and its characters.
LEMMA IncludedCounts ==
  ASSUME NEW n \in Nat, NEW items, PlanTyped(items, n), NEW c, NEW characters \in Nat,
         NEW new, Grown(new, items, n + 1, c, characters, "included")
  PROVE  /\ Cardinality(Included(new)) = Cardinality(Included(items)) + 1
         /\ \A i : Cardinality(OfInstance(new, i)) =
                     Cardinality(OfInstance(items, i)) + (IF c.instance = i THEN 1 ELSE 0)
         /\ Characters(new) = Characters(items) + characters
<1>1. /\ n + 1 \notin DOMAIN items /\ \A k \in DOMAIN items : new[k] = items[k]
      /\ new[n + 1].candidate = c /\ new[n + 1].characters = characters
      /\ Included(new) = Included(items) \cup {n + 1}
    BY DEF Grown
<1>2. /\ IsFiniteSet(Included(items)) /\ Characters(items) \in Nat
      /\ \A i : IsFiniteSet(OfInstance(items, i)) /\ Cardinality(OfInstance(items, i)) \in Nat
    BY PlanSizes
<1>3. Included(items) \subseteq DOMAIN items
    BY DEF Included
<1>4. n + 1 \notin Included(items)
    BY <1>1, <1>3
<1>5. Cardinality(Included(new)) = Cardinality(Included(items)) + 1 /\ IsFiniteSet(Included(new))
    BY <1>1, <1>2, <1>4, FS_AddElement
<1>6. ASSUME NEW i
      PROVE  Cardinality(OfInstance(new, i)) =
               Cardinality(OfInstance(items, i)) + (IF c.instance = i THEN 1 ELSE 0)
    <2>1. CASE c.instance = i
        <3>1. OfInstance(new, i) = OfInstance(items, i) \cup {n + 1}
            BY <1>1, <1>3, <2>1 DEF OfInstance
        <3>2. n + 1 \notin OfInstance(items, i)
            BY <1>4 DEF OfInstance
        <3>3. QED
            BY <1>2, <2>1, <3>1, <3>2, FS_AddElement, ZenonT(40)
    <2>2. CASE c.instance # i
        <3>1. OfInstance(new, i) = OfInstance(items, i)
            BY <1>1, <1>3, <2>2 DEF OfInstance
        <3>2. QED
            BY <1>2, <2>2, <3>1
    <2>3. QED
        BY <2>1, <2>2
<1>7. Characters(new) = Characters(items) + characters
    <2> DEFINE f == [k \in Included(items) |-> items[k].characters]
               g == [k \in Included(new) |-> new[k].characters]
    <2>1. g[n + 1] = characters /\ n + 1 \in Included(new)
        BY <1>1
    <2>2. \A k \in Included(items) : f[k] = g[k] /\ g[k] \in Nat
        BY <1>1, <1>3 DEF PlanTyped
    <2>3. \A k \in Included(new) : g[k] \in Nat
        <3> HIDE DEF g
        <3>1. QED
            BY <1>1, <2>1, <2>2
    <2>4. Included(new) \ {n + 1} = Included(items)
        BY <1>1, <1>4
    <2>5. Characters(new) = SumOver(g, Included(new)) /\ Characters(items) = SumOver(f, Included(items))
        BY DEF Characters
    <2> HIDE DEF f, g
    <2>6. SumOver(g, Included(new)) = g[n + 1] + SumOver(g, Included(items))
        BY <1>5, <2>1, <2>3, <2>4, SumSplit
    <2>7. SumOver(f, Included(items)) = SumOver(g, Included(items))
        BY <1>2, <2>2, SumSame
    <2>8. QED
        BY <1>2, <2>1, <2>5, <2>6, <2>7
<1>8. QED
    BY <1>5, <1>6, <1>7

\* No instance has more rows in the plan than the window admits.
LEMMA WindowsHold ==
  ASSUME RailsTyped, NEW n \in Nat, NEW items, PlanTyped(items, n), NEW limit,
         RespectsRails(items, limit)
  PROVE  \A i : Cardinality(OfInstance(items, i)) <= rails.window
<1>1. TAKE i
<1>2. CASE OfInstance(items, i) = {}
    BY <1>2, FS_EmptySet DEF RailsTyped
<1>3. ASSUME NEW k \in OfInstance(items, i) PROVE Cardinality(OfInstance(items, i)) <= rails.window
    <2>1. k \in Included(items) /\ items[k].candidate.instance = i
        BY <1>3 DEF OfInstance
    <2>2. QED
        BY <2>1 DEF RespectsRails
<1>4. QED
    BY <1>2, <1>3

\* What a verdict says.
LEMMA VerdictMeans ==
  ASSUME NEW c, NEW characters, NEW items, NEW limit, NEW verdict,
         verdict = Verdict(c, characters, items, rails, limit)
  PROVE  LET size == Cardinality(Included(items))
             load == Cardinality(OfInstance(items, c.instance))
         IN /\ verdict = "included" =>
                 /\ ~ size >= limit /\ ~ PairTaken(items, c.pair) /\ ~ load >= rails.window
                 /\ \A cap \in rails.caps : ~ size >= cap
                 /\ ~ OverBudget(items, characters, rails)
            /\ verdict # "included" =>
                 \/ size >= limit \/ PairTaken(items, c.pair) \/ load >= rails.window
                 \/ \E cap \in rails.caps : size >= cap
                 \/ OverBudget(items, characters, rails)
BY DEF Verdict, RailVerdict

\* What is included with this verdict leaves every rail respected, and what was
\* held before is still held for a cause.
LEMMA IncludedStep ==
  ASSUME RailsTyped, NEW limit \in Nat, NEW n \in Nat, NEW items, PlanTyped(items, n),
         RespectsRails(items, limit), NothingHeldInVain(items, limit),
         NEW c, NEW characters \in Nat, NEW new, NEW verdict,
         verdict = Verdict(c, characters, items, rails, limit), verdict = "included",
         Grown(new, items, n + 1, c, characters, verdict)
  PROVE  RespectsRails(new, limit) /\ NothingHeldInVain(new, limit)
<1> DEFINE size(p) == Cardinality(Included(p))
           load(p, i) == Cardinality(OfInstance(p, i))
<1>1. /\ size(new) = size(items) + 1
      /\ \A i : load(new, i) = load(items, i) + (IF c.instance = i THEN 1 ELSE 0)
      /\ Characters(new) = Characters(items) + characters
    BY IncludedCounts
<1>2. /\ size(items) \in Nat /\ Characters(items) \in Nat
      /\ \A i : load(items, i) \in Nat
    BY PlanSizes
<1>3. /\ ~ size(items) >= limit /\ ~ PairTaken(items, c.pair)
      /\ ~ load(items, c.instance) >= rails.window
      /\ \A cap \in rails.caps : ~ size(items) >= cap
      /\ ~ OverBudget(items, characters, rails)
    BY VerdictMeans
<1>4. \A i : load(items, i) <= rails.window
    BY WindowsHold
<1> HIDE DEF size, load
<1>5. /\ DOMAIN new = DOMAIN items \cup {n + 1} /\ n + 1 \notin DOMAIN items
      /\ \A k \in DOMAIN items : new[k] = items[k]
      /\ new[n + 1].candidate = c /\ Included(new) = Included(items) \cup {n + 1}
    BY DEF Grown
<1>6. Included(items) \subseteq DOMAIN items
    BY DEF Included
<1>7. size(new) <= limit /\ \A cap \in rails.caps : size(new) <= cap
    BY <1>1, <1>2, <1>3 DEF RailsTyped
<1>8. \A j, k \in Included(new) : new[j].candidate.pair = new[k].candidate.pair => j = k
    BY <1>3, <1>5, <1>6 DEF RespectsRails, PairTaken
<1>9. \A i : load(new, i) <= rails.window
    BY <1>1, <1>2, <1>3, <1>4 DEF RailsTyped
<1>10. rails.budget # NoBudget => Characters(new) <= rails.budget
    BY <1>1, <1>2, <1>3 DEF OverBudget, RailsTyped
<1>11. RespectsRails(new, limit)
    BY <1>7, <1>8, <1>9, <1>10 DEF RespectsRails, size, load
<1>12. ASSUME NEW k \in DOMAIN new \ Included(new)
       PROVE  \/ size(new) \in {limit} \cup rails.caps
              \/ PairTaken(new, new[k].candidate.pair)
              \/ load(new, new[k].candidate.instance) = rails.window
              \/ OverBudget(new, new[k].characters, rails)
    <2>1. k \in DOMAIN items \ Included(items) /\ new[k] = items[k]
        BY <1>5
    <2>2. \/ size(items) \in {limit} \cup rails.caps
          \/ PairTaken(items, items[k].candidate.pair)
          \/ load(items, items[k].candidate.instance) = rails.window
          \/ OverBudget(items, items[k].characters, rails)
        BY <2>1 DEF NothingHeldInVain, size, load
    <2>3. size(items) \notin {limit} \cup rails.caps
        BY <1>2, <1>3 DEF RailsTyped
    <2>4. CASE PairTaken(items, items[k].candidate.pair)
        BY <1>5, <1>6, <2>1, <2>4 DEF PairTaken
    <2>5. CASE load(items, items[k].candidate.instance) = rails.window
        <3>1. items[k].candidate.instance # c.instance
            BY <1>3, <2>5 DEF RailsTyped
        <3>2. QED
            BY <1>1, <1>2, <2>1, <2>5, <3>1
    <2>6. CASE OverBudget(items, items[k].characters, rails)
        <3>1. items[k].characters \in Nat
            BY <2>1 DEF PlanTyped
        <3>2. QED
            BY <1>1, <1>2, <2>1, <2>6, <3>1 DEF OverBudget, RailsTyped
    <2>7. QED
        BY <2>2, <2>3, <2>4, <2>5, <2>6
<1>13. NothingHeldInVain(new, limit)
    BY <1>12 DEF NothingHeldInVain, size, load
<1>14. QED
    BY <1>11, <1>13

\* What is held with this verdict has a cause, and changes nothing else.
LEMMA HeldStep ==
  ASSUME RailsTyped, NEW limit \in Nat, NEW n \in Nat, NEW items, PlanTyped(items, n),
         RespectsRails(items, limit), NothingHeldInVain(items, limit),
         NEW c, NEW characters \in Nat, NEW new, NEW verdict,
         verdict = Verdict(c, characters, items, rails, limit), verdict # "included",
         Grown(new, items, n + 1, c, characters, verdict)
  PROVE  RespectsRails(new, limit) /\ NothingHeldInVain(new, limit)
<1>1. /\ Included(new) = Included(items) /\ Characters(new) = Characters(items)
      /\ \A i : OfInstance(new, i) = OfInstance(items, i)
    BY HeldCounts
<1>2. /\ Cardinality(Included(items)) \in Nat /\ Characters(items) \in Nat
      /\ \A i : Cardinality(OfInstance(items, i)) \in Nat
    BY PlanSizes
<1>3. \/ Cardinality(Included(items)) >= limit \/ PairTaken(items, c.pair)
      \/ Cardinality(OfInstance(items, c.instance)) >= rails.window
      \/ \E cap \in rails.caps : Cardinality(Included(items)) >= cap
      \/ OverBudget(items, characters, rails)
    BY VerdictMeans
<1>4. \A i : Cardinality(OfInstance(items, i)) <= rails.window
    BY WindowsHold
<1>5. /\ DOMAIN new = DOMAIN items \cup {n + 1} /\ n + 1 \notin DOMAIN items
      /\ \A k \in DOMAIN items : new[k] = items[k]
      /\ new[n + 1].candidate = c /\ new[n + 1].characters = characters
    BY DEF Grown
<1>6. Included(items) \subseteq DOMAIN items
    BY DEF Included
<1>7. RespectsRails(new, limit)
    BY <1>1, <1>5, <1>6 DEF RespectsRails
<1>8. \A pair : PairTaken(new, pair) <=> PairTaken(items, pair)
    BY <1>1, <1>5, <1>6 DEF PairTaken
<1>9. \A a : OverBudget(new, a, rails) <=> OverBudget(items, a, rails)
    BY <1>1 DEF OverBudget
<1>10. ASSUME NEW k \in DOMAIN new \ Included(new)
       PROVE  \/ Cardinality(Included(new)) \in {limit} \cup rails.caps
              \/ PairTaken(new, new[k].candidate.pair)
              \/ Cardinality(OfInstance(new, new[k].candidate.instance)) = rails.window
              \/ OverBudget(new, new[k].characters, rails)
    <2>1. CASE k = n + 1
        <3>1. Cardinality(Included(items)) >= limit => Cardinality(Included(items)) = limit
            BY <1>2 DEF RespectsRails
        <3>2. \A cap \in rails.caps :
                Cardinality(Included(items)) >= cap => Cardinality(Included(items)) = cap
            BY <1>2 DEF RespectsRails, RailsTyped
        <3>3. Cardinality(OfInstance(items, c.instance)) >= rails.window
                => Cardinality(OfInstance(items, c.instance)) = rails.window
            BY <1>2, <1>4 DEF RailsTyped
        <3>4. QED
            BY <1>1, <1>3, <1>5, <1>8, <1>9, <2>1, <3>1, <3>2, <3>3
    <2>2. CASE k # n + 1
        <3>1. k \in DOMAIN items \ Included(items) /\ new[k] = items[k]
            BY <1>1, <1>5, <2>2
        <3>2. QED
            BY <1>1, <1>8, <1>9, <3>1 DEF NothingHeldInVain
    <2>3. QED
        BY <2>1, <2>2
<1>11. QED
    BY <1>7, <1>10 DEF NothingHeldInVain

-----------------------------------------------------------------------------
(* The plan as it grows.                                                   *)

PlanStep(items, n, candidates, places, r, stats, limit) ==
  LET c == candidates[n]
      characters == Estimate(c.media, stats)
  IN IF n \notin places THEN items
     ELSE Judged(items, n, c, characters, Verdict(c, characters, items, r, limit))

\* g[n] is the plan over the first n of the candidates.
Plans(g, N, candidates, places, r, stats, limit) ==
  g = [n \in 0..N |->
         IF n = 0 THEN Unjudged
         ELSE PlanStep(g[n - 1], n, candidates, places, r, stats, limit)]

\* There is such a function for every number of candidates.
LEMMA PlanExists ==
  ASSUME NEW N \in Nat, NEW candidates, NEW places, NEW r, NEW stats, NEW limit
  PROVE  \E g : Plans(g, N, candidates, places, r, stats, limit)
<1> DEFINE P(g, m) == Plans(g, m, candidates, places, r, stats, limit)
           S == {m \in Nat : \E g : P(g, m)}
<1>1. 0 \in S
    <2>1. P([n \in 0..0 |-> Unjudged], 0)
        BY DEF Plans
    <2>2. QED
        BY <2>1
<1>2. ASSUME NEW m \in Nat, m \in S PROVE m + 1 \in S
    <2>1. PICK g : P(g, m)
        BY <1>2
    <2> DEFINE Next(items, n) == PlanStep(items, n, candidates, places, r, stats, limit)
               h == [n \in 0..(m + 1) |-> IF n = m + 1 THEN Next(g[m], m + 1) ELSE g[n]]
    <2> HIDE DEF Next
    <2>2. ASSUME NEW n \in 0..(m + 1)
          PROVE  h[n] = IF n = 0 THEN Unjudged ELSE Next(h[n - 1], n)
        <3>1. CASE n = m + 1
            BY <3>1
        <3>2. CASE n # m + 1
            <4>1. n \in 0..m
                BY <3>2
            <4>2. g[n] = IF n = 0 THEN Unjudged ELSE Next(g[n - 1], n)
                BY <2>1, <4>1 DEF Plans, Next
            <4>3. n # 0 => n - 1 \in 0..(m + 1) /\ n - 1 # m + 1
                BY <4>1
            <4>4. h[n] = g[n] /\ (n # 0 => h[n - 1] = g[n - 1])
                BY <3>2, <4>3
            <4> HIDE DEF h
            <4>5. QED
                BY <4>2, <4>4
        <3>3. QED
            BY <3>1, <3>2
    <2>3. h = [n \in 0..(m + 1) |-> IF n = 0 THEN Unjudged ELSE Next(h[n - 1], n)]
        <3>1. h = [n \in 0..(m + 1) |-> h[n]]
            OBVIOUS
        <3> HIDE DEF h
        <3>2. QED
            BY <2>2, <3>1
    <2>4. P(h, m + 1)
        BY <2>3 DEF Plans, Next
    <2>5. QED
        <3> HIDE DEF h, P
        <3>1. QED
            BY <2>4
<1> HIDE DEF S
<1>3. N \in S
    BY <1>1, <1>2, Climb
<1>4. QED
    BY <1>3 DEF S

\* g grows from the empty plan, one place at a time.
Grows(g, N, candidates, places, r, stats, limit) ==
  /\ g[0] = Unjudged
  /\ \A n \in Nat : n < N =>
       g[n + 1] = PlanStep(g[n], n + 1, candidates, places, r, stats, limit)

\* build_plan gives what such a function has for the last candidate.
LEMMA PlanUnfolds ==
  ASSUME NEW candidates, Len(candidates) \in Nat, NEW places, NEW r, NEW stats, NEW limit
  PROVE  \E g : /\ BuildPlan(candidates, places, r, stats, limit) = g[Len(candidates)]
                /\ Grows(g, Len(candidates), candidates, places, r, stats, limit)
<1> DEFINE N == Len(candidates)
           g == CHOOSE g : Plans(g, N, candidates, places, r, stats, limit)
<1>1. BuildPlan(candidates, places, r, stats, limit) = g[N]
    BY DEF BuildPlan, Plans, PlanStep
<1>2. Plans(g, N, candidates, places, r, stats, limit)
    <2> HIDE DEF N
    <2>1. N \in Nat
        BY DEF N
    <2>2. QED
        BY <2>1, PlanExists
<1> HIDE DEF g
<1>3. g[0] = Unjudged
    BY <1>2 DEF Plans
<1>4. ASSUME NEW n \in Nat, n < N
      PROVE  g[n + 1] = PlanStep(g[n], n + 1, candidates, places, r, stats, limit)
    <2>1. n + 1 \in 0..N /\ n + 1 # 0 /\ (n + 1) - 1 = n
        BY <1>4
    <2>2. QED
        BY <1>2, <2>1 DEF Plans
<1>5. QED
    BY <1>1, <1>3, <1>4 DEF Grows

\* The plan over the first n rows of the backlog.
GoodPlan(items, n, limit) ==
  /\ PlanTyped(items, n) /\ DOMAIN items = 1..n
  /\ RespectsRails(items, limit) /\ NothingHeldInVain(items, limit)

\* The empty plan breaks no rail.
LEMMA UnjudgedIsGood == ASSUME RailsTyped, NEW limit \in Nat PROVE GoodPlan(Unjudged, 0, limit)
<1>1. DOMAIN Unjudged = {} /\ Included(Unjudged) = {} /\ 1..0 = {}
    BY DEF Unjudged, Included
<1>2. Cardinality(Included(Unjudged)) = 0
    BY <1>1, FS_EmptySet
<1>3. Characters(Unjudged) = 0
    BY <1>1, SumEmpty DEF Characters
<1>4. PlanTyped(Unjudged, 0)
    BY <1>1 DEF PlanTyped
<1>5. RespectsRails(Unjudged, limit)
    BY <1>1, <1>2, <1>3 DEF RespectsRails, RailsTyped
<1>6. NothingHeldInVain(Unjudged, limit)
    BY <1>1 DEF NothingHeldInVain
<1>7. QED
    BY <1>1, <1>4, <1>5, <1>6 DEF GoodPlan

\* The plan new judges the row at n, after those in items.
Judges(new, items, n, r, stats, limit) ==
  LET c == backlog[n]
      characters == Estimate(c.media, stats)
  IN /\ characters \in Nat
     /\ Grown(new, items, n, c, characters, Verdict(c, characters, items, r, limit))

\* A step of a plan judges the next row.
LEMMA StepJudges ==
  ASSUME PlanInv, NEW n \in Nat, n < Len(backlog), NEW items, PlanTyped(items, n),
         NEW places, n + 1 \in places, NEW limit, NEW r, NEW stats,
         stats # NoStatistics => stats.files \in Nat /\ stats.characters \in Nat
  PROVE  Judges(PlanStep(items, n + 1, backlog, places, r, stats, limit), items, n + 1,
                r, stats, limit)
<1> DEFINE c == backlog[n + 1]
           characters == Estimate(c.media, stats)
           verdict == Verdict(c, characters, items, r, limit)
<1>1. c \in Candidates
    BY DEF PlanInv
<1>2. characters \in Nat
    <2>1. c.media \in {"episode", "movie"}
        BY <1>1, PlanAssumption
    <2> HIDE DEF c
    <2>2. QED
        BY <2>1, EstimateIsNatural
<1>3. PlanStep(items, n + 1, backlog, places, r, stats, limit)
        = Judged(items, n + 1, c, characters, verdict)
    BY DEF PlanStep
<1> HIDE DEF verdict, characters, c
<1>4. Grown(Judged(items, n + 1, c, characters, verdict), items, n + 1, c, characters, verdict)
    BY <1>2, JudgedGrows
<1>5. QED
    BY <1>2, <1>3, <1>4 DEF verdict, characters, c, Judges

\* A plan over the whole backlog is good up to each of its rows.
LEMMA PlanIsGood ==
  ASSUME PlanInv, NEW limit \in Nat, NEW g,
         Grows(g, Len(backlog), backlog, DOMAIN backlog, rails, statistics, limit)
  PROVE  \A n \in 0..Len(backlog) : GoodPlan(g[n], n, limit)
<1> DEFINE N == Len(backlog)
           S == {n \in Nat : n <= N => GoodPlan(g[n], n, limit)}
<1>1. N \in Nat /\ DOMAIN backlog = 1..N
    BY DEF PlanInv
<1>2. 0 \in S
    BY UnjudgedIsGood DEF PlanInv, Grows
<1>3. ASSUME NEW n \in Nat, n < N, n \in S PROVE n + 1 \in S
    <2> DEFINE items == g[n]
               new == g[n + 1]
               c == backlog[n + 1]
               characters == Estimate(c.media, statistics)
               verdict == Verdict(c, characters, items, rails, limit)
    <2>1. GoodPlan(items, n, limit)
        BY <1>1, <1>3
    <2>2. new = PlanStep(items, n + 1, backlog, DOMAIN backlog, rails, statistics, limit)
        BY <1>3 DEF Grows
    <2>3. Judges(new, items, n + 1, rails, statistics, limit)
        <3>1. n + 1 \in DOMAIN backlog
            BY <1>1, <1>3
        <3>2. PlanTyped(items, n)
            BY <2>1 DEF GoodPlan
        <3> HIDE DEF items, new
        <3>3. QED
            BY <1>3, <2>2, <3>1, <3>2, StepJudges DEF PlanInv, StatisticsTyped
    <2>4. characters \in Nat /\ Grown(new, items, n + 1, c, characters, verdict)
        BY <2>3 DEF Judges
    <2> HIDE DEF items, new, c, characters, verdict
    <2>5. PlanTyped(new, n + 1) /\ DOMAIN new = 1..(n + 1)
        BY <2>1, <2>4 DEF Grown, GoodPlan
    <2>6. RespectsRails(new, limit) /\ NothingHeldInVain(new, limit)
        <3>1. /\ RailsTyped /\ PlanTyped(items, n)
              /\ RespectsRails(items, limit) /\ NothingHeldInVain(items, limit)
            BY <2>1 DEF GoodPlan, PlanInv
        <3>2. verdict = Verdict(c, characters, items, rails, limit)
            BY DEF verdict
        <3>3. CASE verdict = "included"
            BY <2>4, <3>1, <3>2, <3>3, IncludedStep
        <3>4. CASE verdict # "included"
            BY <2>4, <3>1, <3>2, <3>4, HeldStep
        <3>5. QED
            BY <3>3, <3>4
    <2>7. GoodPlan(new, n + 1, limit)
        BY <2>5, <2>6 DEF GoodPlan
    <2>8. QED
        BY <2>7 DEF new
<1> HIDE DEF S
<1>4. \A n \in 0..N : n \in S
    BY <1>1, <1>2, <1>3, Climb
<1>5. QED
    BY <1>1, <1>4 DEF S

\* While the shorter plan is not full the two are the same; once it is, what the
\* longer one adds comes later.
LEMMA PlansContinue ==
  ASSUME PlanInv, NEW limit \in Nat, NEW more \in Nat, limit <= more, NEW g, NEW h,
         Grows(g, Len(backlog), backlog, DOMAIN backlog, rails, statistics, limit),
         Grows(h, Len(backlog), backlog, DOMAIN backlog, rails, statistics, more)
  PROVE  \A n \in 0..Len(backlog) : Continues(h[n], g[n], limit)
<1> DEFINE N == Len(backlog)
           size(p) == Cardinality(Included(p))
           Q(n) == Continues(h[n], g[n], limit) /\ (size(g[n]) < limit => h[n] = g[n])
           S == {n \in Nat : n <= N => Q(n)}
<1>1. N \in Nat /\ DOMAIN backlog = 1..N
    BY DEF PlanInv
<1>2. \A n \in 0..N : GoodPlan(g[n], n, limit) /\ GoodPlan(h[n], n, more)
    BY PlanIsGood
<1>3. \A p : Continues(p, p, limit)
    BY DEF Continues
<1>4. 0 \in S
    BY <1>3 DEF Grows
<1>5. ASSUME NEW n \in Nat, n < N, n \in S PROVE n + 1 \in S
    <2> DEFINE short == g[n]
               long == h[n]
               short1 == g[n + 1]
               long1 == h[n + 1]
    <2>1. Continues(long, short, limit) /\ (size(short) < limit => long = short)
        BY <1>5
    <2>2. /\ PlanTyped(short, n) /\ PlanTyped(long, n) /\ RespectsRails(short, limit)
          /\ DOMAIN short = 1..n /\ DOMAIN long = 1..n
        BY <1>1, <1>2, <1>5 DEF GoodPlan
    <2>3. size(short) \in Nat /\ size(short) <= limit
        BY <2>2, PlanSizes DEF RespectsRails
    <2>4. /\ short1 = PlanStep(short, n + 1, backlog, DOMAIN backlog, rails, statistics, limit)
          /\ long1 = PlanStep(long, n + 1, backlog, DOMAIN backlog, rails, statistics, more)
        BY <1>5 DEF Grows
    <2>5. n + 1 \in DOMAIN backlog
        BY <1>1, <1>5
    <2> HIDE DEF short, long, short1, long1
    <2>6. CASE size(short) < limit
        <3>1. long = short /\ ~ size(short) >= limit /\ ~ size(short) >= more
            BY <2>1, <2>3, <2>6
        <3>2. \A c, a : Verdict(c, a, short, rails, limit) = Verdict(c, a, long, rails, more)
            BY <3>1 DEF Verdict
        <3>3. long1 = short1
            BY <2>4, <3>1, <3>2 DEF PlanStep
        <3>4. QED
            BY <1>3, <3>3 DEF short1, long1
    <2>7. CASE ~ size(short) < limit
        <3>1. size(short) = limit
            BY <2>3, <2>7
        <3>2. /\ Judges(short1, short, n + 1, rails, statistics, limit)
              /\ Judges(long1, long, n + 1, rails, statistics, more)
            <4>1. statistics # NoStatistics => statistics.files \in Nat /\ statistics.characters \in Nat
                BY DEF PlanInv, StatisticsTyped
            <4>2. QED
                BY <1>5, <2>2, <2>4, <2>5, <4>1, StepJudges
        <3>3. Included(short1) = Included(short)
            <4>1. \A c, a : Verdict(c, a, short, rails, limit) = "held_limit"
                BY <2>3, <3>1 DEF Verdict
            <4>2. QED
                BY <3>2, <4>1 DEF Judges, Grown
        <3>4. Included(long) \subseteq Included(long1) /\ Included(long1) \subseteq Included(long) \cup {n + 1}
            BY <3>2 DEF Judges, Grown
        <3>5. \A j \in Included(short) : j < n + 1
            BY <2>2 DEF Included
        <3>6. size(short1) = limit
            BY <3>1, <3>3
        <3> HIDE DEF size
        <3>7. Continues(long1, short1, limit)
            BY <2>1, <3>3, <3>4, <3>5, <3>6 DEF Continues, size
        <3>8. QED
            BY <3>6, <3>7 DEF short1, long1
    <2>8. QED
        BY <2>6, <2>7
<1> HIDE DEF S
<1>6. \A n \in 0..N : n \in S
    BY <1>1, <1>4, <1>5, Climb
<1>7. QED
    BY <1>1, <1>6 DEF S

\* A plan of the whole backlog, for every horizon asked for.
LEMMA PlanInvImpliesTrue == ASSUME PlanInv PROVE PlanIsTrue
<1>1. SUFFICES ASSUME NEW limit \in Limits
      PROVE  /\ DOMAIN PlanFor(limit) = DOMAIN backlog
             /\ RespectsRails(PlanFor(limit), limit)
             /\ NothingHeldInVain(PlanFor(limit), limit)
             /\ \A more \in Limits :
                  limit <= more => Continues(PlanFor(more), PlanFor(limit), limit)
    BY DEF PlanIsTrue
<1>2. Len(backlog) \in Nat /\ DOMAIN backlog = 1..Len(backlog) /\ Len(backlog) \in 0..Len(backlog)
    BY DEF PlanInv
<1>3. \A m \in Limits : m \in Nat
    BY PlanAssumption
<1>4. \A m : \E g :
        /\ PlanFor(m) = g[Len(backlog)]
        /\ Grows(g, Len(backlog), backlog, DOMAIN backlog, rails, statistics, m)
    BY <1>2, PlanUnfolds DEF PlanFor
<1>5. PICK g :
        /\ PlanFor(limit) = g[Len(backlog)]
        /\ Grows(g, Len(backlog), backlog, DOMAIN backlog, rails, statistics, limit)
    BY <1>4
<1>6. GoodPlan(PlanFor(limit), Len(backlog), limit)
    BY <1>1, <1>2, <1>3, <1>5, PlanIsGood
<1>7. ASSUME NEW more \in Limits, limit <= more
      PROVE  Continues(PlanFor(more), PlanFor(limit), limit)
    <2>1. PICK h :
            /\ PlanFor(more) = h[Len(backlog)]
            /\ Grows(h, Len(backlog), backlog, DOMAIN backlog, rails, statistics, more)
        BY <1>4
    <2>2. \A n \in 0..Len(backlog) : Continues(h[n], g[n], limit)
        BY <1>1, <1>3, <1>5, <1>7, <2>1, PlansContinue
    <2>3. QED
        BY <1>2, <1>5, <2>1, <2>2
<1>8. QED
    BY <1>2, <1>6, <1>7 DEF GoodPlan

\* Every plan is true, for every backlog that rows entering and leaving make, for
\* all presets and statistics: it judges every row, breaks no rail, holds nothing in
\* vain, and a longer horizon only continues it.
THEOREM PlanHolds == PlanSpec => []PlanIsTrue
<1>1. PlanInit => PlanInv
    BY PlanInvInit
<1>2. PlanInv /\ [PlanNext]_planVars => PlanInv'
    BY PlanInvStep
<1>3. PlanInv => PlanIsTrue
    BY PlanInvImpliesTrue
<1>4. QED
    BY <1>1, <1>2, <1>3, PTL DEF PlanSpec

-----------------------------------------------------------------------------
(* The pass beside the preview.                                            *)

PassStep(before, n, candidates, places, r) ==
  LET c == candidates[n]
      verdict == PassVerdict(c, before.items, r)
  IN IF n \notin places \/ before.stopped THEN before
     ELSE IF verdict \in {"held_window", "held_cap", "held_budget"}
          THEN [before EXCEPT !.stopped = TRUE]
     ELSE [before EXCEPT !.items = Judged(@, n, c, Heuristic[c.media], verdict)]

\* p[n] is the pass after the first n of the candidates.
Passes(p, N, candidates, places, r) ==
  p = [n \in 0..N |->
         IF n = 0 THEN [items |-> Unjudged, stopped |-> FALSE]
         ELSE PassStep(p[n - 1], n, candidates, places, r)]

\* There is such a function for every number of candidates.
LEMMA PassExists ==
  ASSUME NEW N \in Nat, NEW candidates, NEW places, NEW r
  PROVE  \E p : Passes(p, N, candidates, places, r)
<1> DEFINE start == [items |-> Unjudged, stopped |-> FALSE]
           P(p, m) == Passes(p, m, candidates, places, r)
           S == {m \in Nat : \E p : P(p, m)}
<1>1. 0 \in S
    <2>1. P([n \in 0..0 |-> start], 0)
        BY DEF Passes
    <2>2. QED
        BY <2>1
<1>2. ASSUME NEW m \in Nat, m \in S PROVE m + 1 \in S
    <2>1. PICK p : P(p, m)
        BY <1>2
    <2> DEFINE Next(before, n) == PassStep(before, n, candidates, places, r)
               h == [n \in 0..(m + 1) |-> IF n = m + 1 THEN Next(p[m], m + 1) ELSE p[n]]
    <2> HIDE DEF Next
    <2>2. ASSUME NEW n \in 0..(m + 1)
          PROVE  h[n] = IF n = 0 THEN start ELSE Next(h[n - 1], n)
        <3>1. CASE n = m + 1
            BY <3>1
        <3>2. CASE n # m + 1
            <4>1. n \in 0..m
                BY <3>2
            <4>2. p[n] = IF n = 0 THEN start ELSE Next(p[n - 1], n)
                BY <2>1, <4>1 DEF Passes, Next
            <4>3. n # 0 => n - 1 \in 0..(m + 1) /\ n - 1 # m + 1
                BY <4>1
            <4>4. h[n] = p[n] /\ (n # 0 => h[n - 1] = p[n - 1])
                BY <3>2, <4>3
            <4> HIDE DEF h, start
            <4>5. QED
                BY <4>2, <4>4
        <3>3. QED
            BY <3>1, <3>2
    <2>3. h = [n \in 0..(m + 1) |-> IF n = 0 THEN start ELSE Next(h[n - 1], n)]
        <3>1. h = [n \in 0..(m + 1) |-> h[n]]
            OBVIOUS
        <3> HIDE DEF h, start
        <3>2. QED
            BY <2>2, <3>1
    <2>4. P(h, m + 1)
        BY <2>3 DEF Passes, Next
    <2>5. QED
        <3> HIDE DEF h, P
        <3>1. QED
            BY <2>4
<1> HIDE DEF S
<1>3. N \in S
    BY <1>1, <1>2, Climb
<1>4. QED
    BY <1>3 DEF S

\* p is a pass from its start, one candidate at a time.
Runs(p, N, candidates, places, r) ==
  /\ p[0] = [items |-> Unjudged, stopped |-> FALSE]
  /\ \A n \in Nat : n < N => p[n + 1] = PassStep(p[n], n + 1, candidates, places, r)

\* run_for_instance sends what such a pass has sent after the last candidate.
LEMMA PassUnfolds ==
  ASSUME NEW candidates, Len(candidates) \in Nat, NEW places, NEW r
  PROVE  \E p : /\ DispatchPass(candidates, places, r) = p[Len(candidates)].items
                /\ Runs(p, Len(candidates), candidates, places, r)
<1> DEFINE N == Len(candidates)
           p == CHOOSE p : Passes(p, N, candidates, places, r)
<1>1. DispatchPass(candidates, places, r) = p[N].items
    BY DEF DispatchPass, Passes, PassStep
<1>2. Passes(p, N, candidates, places, r)
    <2> HIDE DEF N
    <2>1. N \in Nat
        BY DEF N
    <2>2. QED
        BY <2>1, PassExists
<1> HIDE DEF p
<1>3. p[0] = [items |-> Unjudged, stopped |-> FALSE]
    BY <1>2 DEF Passes
<1>4. ASSUME NEW n \in Nat, n < N
      PROVE  p[n + 1] = PassStep(p[n], n + 1, candidates, places, r)
    <2>1. n + 1 \in 0..N /\ n + 1 # 0 /\ (n + 1) - 1 = n
        BY <1>4
    <2>2. QED
        BY <1>2, <2>1 DEF Passes
<1>5. QED
    BY <1>1, <1>3, <1>4 DEF Runs

\* The pass after n rows and the preview of the same n rows: until it stops the
\* pass is the preview; once stopped it sends no more.
Previewed(pass, items, n) ==
  /\ PlanTyped(items, n)
  /\ DOMAIN pass = {"items", "stopped"} /\ pass.stopped \in BOOLEAN
  /\ ~ pass.stopped => pass.items = items
  /\ Included(pass.items) \subseteq Included(items)

\* One row more, for the pass and for the preview.
LEMMA PreviewedStep ==
  ASSUME PlanInv, NEW n \in Nat, n < Len(backlog), NEW places, NEW pass, NEW items,
         Previewed(pass, items, n)
  PROVE  Previewed(PassStep(pass, n + 1, backlog, places, rails),
                   PlanStep(items, n + 1, backlog, places, rails, NoStatistics, Len(backlog)),
                   n + 1)
<1> DEFINE pass1 == PassStep(pass, n + 1, backlog, places, rails)
           items1 == PlanStep(items, n + 1, backlog, places, rails, NoStatistics, Len(backlog))
           c == backlog[n + 1]
           verdict == PassVerdict(c, pass.items, rails)
<1> SUFFICES Previewed(pass1, items1, n + 1)
    OBVIOUS
<1>1. CASE n + 1 \notin places
    <2>1. pass1 = pass /\ items1 = items
        BY <1>1 DEF PassStep, PlanStep
    <2>2. PlanTyped(items, n + 1)
        BY DEF Previewed, PlanTyped
    <2> HIDE DEF pass1, items1
    <2>3. QED
        BY <2>1, <2>2 DEF Previewed
<1>2. CASE n + 1 \in places
    <2>1. Judges(items1, items, n + 1, rails, NoStatistics, Len(backlog))
        BY <1>2, StepJudges DEF Previewed
    <2>2. PlanTyped(items1, n + 1) /\ Included(items) \subseteq Included(items1)
        BY <2>1 DEF Judges, Grown
    <2>3. CASE pass.stopped
        <3>1. pass1 = pass
            BY <2>3 DEF PassStep
        <3> HIDE DEF pass1, items1
        <3>2. QED
            BY <2>2, <2>3, <3>1 DEF Previewed
    <2>4. CASE ~ pass.stopped /\ verdict \in {"held_window", "held_cap", "held_budget"}
        <3>1. pass1 = [pass EXCEPT !.stopped = TRUE]
            BY <1>2, <2>4 DEF PassStep
        <3>2. DOMAIN pass1 = {"items", "stopped"} /\ pass1.stopped = TRUE /\ pass1.items = pass.items
            BY <3>1 DEF Previewed
        <3> HIDE DEF pass1, items1
        <3>3. QED
            BY <2>2, <3>2 DEF Previewed
    <2>5. CASE ~ pass.stopped /\ verdict \notin {"held_window", "held_cap", "held_budget"}
        <3>1. pass1 = [pass EXCEPT !.items = Judged(pass.items, n + 1, c, Heuristic[c.media], verdict)]
            BY <1>2, <2>5 DEF PassStep
        <3>2. pass.items = items
            BY <2>5 DEF Previewed
        <3>3. Heuristic[c.media] = Estimate(c.media, NoStatistics)
            BY DEF Estimate
        <3>4. ~ Cardinality(Included(items)) >= Len(backlog)
            <4>1. IsFiniteSet(1..n) /\ Cardinality(1..n) = n
                BY FS_Interval
            <4>2. Included(items) \subseteq 1..n
                BY DEF Previewed, PlanTyped, Included
            <4>3. Cardinality(Included(items)) <= n /\ Cardinality(Included(items)) \in Nat
                BY <4>1, <4>2, FS_Subset, FS_CardinalityType
            <4>4. Len(backlog) \in Nat
                BY DEF PlanInv
            <4>5. QED
                BY <4>3, <4>4
        <3>5. Verdict(c, Heuristic[c.media], items, rails, Len(backlog)) = verdict
            BY <3>2, <3>4 DEF Verdict, PassVerdict
        <3>6. items1 = Judged(items, n + 1, c, Heuristic[c.media], verdict)
            BY <1>2, <3>3, <3>5 DEF PlanStep
        <3>7. pass1 = [pass EXCEPT !.items = items1]
            BY <3>1, <3>2, <3>6
        <3>8. /\ DOMAIN pass1 = {"items", "stopped"} /\ pass1.stopped = pass.stopped
              /\ pass1.items = items1
            BY <3>7 DEF Previewed
        <3> HIDE DEF pass1, items1
        <3>9. QED
            BY <2>2, <3>8 DEF Previewed
    <2>6. QED
        BY <2>3, <2>4, <2>5
<1>3. QED
    BY <1>1, <1>2

\* For every instance, what the pass sends its preview includes.
LEMMA PlanInvImpliesPreviewed == ASSUME PlanInv PROVE PassIsPreviewed
<1>1. SUFFICES ASSUME NEW i
      PROVE  Included(DispatchPass(backlog, PlacesOf(i), rails)) \subseteq
               Included(BuildPlan(backlog, PlacesOf(i), rails, NoStatistics, Len(backlog)))
    BY DEF PassIsPreviewed
<1> DEFINE N == Len(backlog)
           places == PlacesOf(i)
<1>2. N \in Nat
    BY DEF PlanInv
<1>3. PICK p : DispatchPass(backlog, places, rails) = p[N].items /\ Runs(p, N, backlog, places, rails)
    BY <1>2, PassUnfolds
<1>4. PICK q : /\ BuildPlan(backlog, places, rails, NoStatistics, N) = q[N]
               /\ Grows(q, N, backlog, places, rails, NoStatistics, N)
    BY <1>2, PlanUnfolds
<1> DEFINE S == {n \in Nat : n <= N => Previewed(p[n], q[n], n)}
<1> HIDE DEF places
<1>5. 0 \in S
    <2>1. DOMAIN Unjudged = {}
        BY DEF Unjudged
    <2>2. PlanTyped(Unjudged, 0)
        BY <2>1 DEF PlanTyped
    <2>3. Previewed([items |-> Unjudged, stopped |-> FALSE], Unjudged, 0)
        BY <2>2 DEF Previewed
    <2>4. p[0] = [items |-> Unjudged, stopped |-> FALSE] /\ q[0] = Unjudged
        BY <1>3, <1>4 DEF Runs, Grows
    <2>5. QED
        BY <2>3, <2>4
<1>6. ASSUME NEW n \in Nat, n < N, n \in S PROVE n + 1 \in S
    <2>1. Previewed(p[n], q[n], n)
        BY <1>2, <1>6
    <2>2. /\ p[n + 1] = PassStep(p[n], n + 1, backlog, places, rails)
          /\ q[n + 1] = PlanStep(q[n], n + 1, backlog, places, rails, NoStatistics, N)
        BY <1>3, <1>4, <1>6 DEF Runs, Grows
    <2>3. Previewed(p[n + 1], q[n + 1], n + 1)
        BY <1>6, <2>1, <2>2, PreviewedStep
    <2>4. QED
        BY <2>3
<1> HIDE DEF S
<1>7. \A n \in 0..N : n \in S
    BY <1>2, <1>5, <1>6, Climb
<1>8. Previewed(p[N], q[N], N)
    BY <1>2, <1>7 DEF S
<1>9. QED
    BY <1>3, <1>4, <1>8 DEF Previewed, places

\* "What would dispatch next": whatever the backlog, the rails and the instance, a
\* pass sends no row that the full preview of its instance does not include.
THEOREM PreviewHolds == PlanSpec => []PassIsPreviewed
<1>1. PlanInit => PlanInv
    BY PlanInvInit
<1>2. PlanInv /\ [PlanNext]_planVars => PlanInv'
    BY PlanInvStep
<1>3. PlanInv => PassIsPreviewed
    BY PlanInvImpliesPreviewed
<1>4. QED
    BY <1>1, <1>2, <1>3, PTL DEF PlanSpec

=============================================================================
