------------------------------ MODULE Accounts ------------------------------
(***************************************************************************)
(* The accounts of one Matrix user: the login process (login.go), the      *)
(* account and cursor rows (database.go), the clients built from them      *)
(* (LoadUserLogin) and the logout, across restarts of the process.  The    *)
(* encryption key is in module Keys.  A login process, the start of the    *)
(* bridge, a logout and the poll loops run beside each other.  A login can *)
(* have several clients in one process: a later login of the same username *)
(* replaces the client, each has a context of its own.                     *)
(*                                                                         *)
(* bridgev2 is external.  Assumed of it: it keeps a row per login, loads   *)
(* each at startup, NewLogin calls LoadUserLogin, then saves the row, and  *)
(* holds meanwhile the lock that the removal of a login takes; it does not *)
(* disconnect a client that is replaced, logs out the newest one, and      *)
(* takes an input again that was answered with an error.                   *)
(***************************************************************************)
EXTENDS Keys

CONSTANTS
  Apis,       \* API usernames of VoIP.ms accounts
  DIDs,       \* their numbers
  MaxStarts,  \* bound on the starts of the process
  MaxClients, \* bound on the clients one process builds for a login
  MaxTries    \* bound on login processes and submitted selections

ASSUME AccountsAssumption ==
  MaxStarts \in Nat \ {0} /\ {MaxTries, MaxClients} \subseteq Nat /\ "none" \notin Apis

VARIABLES
  accounts,  \* sms_accounts: the row of an API username, NoRow if none
  cursors,   \* sms_poll_cursors: the API usernames with a row
  logins,    \* bridgev2's login rows
  up, starts,   \* the process runs; how often it was started
  toLoad,    \* logins the start of the bridge has still to load
  clients,   \* how many clients this process built for a login: the newest's number
  loops,     \* clients, as <<login, number>>, with a poll loop under way
  ended,     \* clients whose context is cancelled
  step,      \* currentStep of the login process
  call,      \* where its SubmitUserInput is, "none" between calls
  api, offered, selected,   \* its apiUsername, availableDIDs, selectedDIDs
  tries, asked,   \* history: attempts; the numbers of the last selection
  out, outClient, outPc,  \* the login and the client LogoutRemote runs for, and where
  verified,  \* history: what VoIP.ms confirmed, as <<api, number>>
  halfOut,   \* history: logins whose logout the end of the process cut off
  residue    \* history: see NothingLeftBehind

rows    == <<accounts, cursors, logins>>
process == <<up, starts, toLoad, clients, loops, ended>>
form    == <<step, call, api, offered, selected, tries, asked>>
logout  == <<out, outClient, outPc>>
history == <<verified, halfOut, residue>>
vars == <<keyVars, rows, process, form, logout, history>>

NoRow == [dids |-> {}, key |-> NoKey]
NoForm == step = "none" /\ call = "none" /\ api = "none" /\ offered = {}
            /\ selected = {} /\ asked = {}

\* A new installation.
Init ==
  /\ KeyInit /\ NoForm /\ tries = 0
  /\ accounts = [l \in Apis |-> NoRow] /\ cursors = {} /\ logins = {}
  /\ up = TRUE /\ starts = 1 /\ toLoad = {}
  /\ clients = [l \in Apis |-> 0] /\ loops = {} /\ ended = {}
  /\ out = "none" /\ outClient = 0 /\ outPc = "none"
  /\ verified = {} /\ halfOut = {} /\ residue = {}

-----------------------------------------------------------------------------
(* SMSLoginProcess.  A call that returns an error leaves currentStep as it *)
(* is, so its input can be submitted again.                                *)

Stored(l) == accounts[l] # NoRow
Busy(c) == call' = c /\ UNCHANGED <<step, api, offered, selected, tries, asked>>
Return == Busy("none")

\* CreateLogin and Start.
CreateLogin ==
  /\ up /\ call = "none" /\ tries < MaxTries
  /\ step' = "credentials" /\ tries' = tries + 1
  /\ offered' = {} /\ selected' = {} /\ asked' = {} /\ api' = "none"
  /\ UNCHANGED <<keyVars, rows, process, call, logout, history>>

SubmitCredentials(l) ==
  /\ step = "credentials" /\ call = "none"
  /\ api' = l /\ call' = "verify"
  /\ UNCHANGED <<keyVars, rows, process, step, offered, selected, tries, asked,
                 logout, history>>

\* VoIP.ms accepts the credentials and lists the numbers dids.
CredentialsVerified(dids) ==
  /\ call = "verify" /\ dids # {}
  /\ offered' = dids /\ step' = "did_selection" /\ call' = "none"
  /\ verified' = verified \cup ({api} \X dids)
  /\ UNCHANGED <<keyVars, rows, process, api, selected, tries, asked, logout,
                 halfOut, residue>>

\* Mutant: a rejected check moves on, with the numbers an earlier one listed.
RejectedMovesOn ==
  /\ call = "verify"
  /\ offered' = DIDs /\ step' = "did_selection" /\ call' = "none"
  /\ UNCHANGED <<keyVars, rows, process, api, selected, tries, asked, logout,
                 history>>

\* Rejected, unreachable, or no number on the account.
CredentialsFail ==
  /\ call = "verify" /\ Return
  /\ UNCHANGED <<keyVars, rows, process, logout, history>>

\* handleDIDSelection: the entries before the first bad one are selected.
SelectNumbers(dids, bad) ==
  /\ step = "did_selection" /\ call = "none" /\ tries < MaxTries
  /\ asked' = dids /\ selected' = selected \cup dids
  /\ IF bad \/ selected' = {}
     THEN call' = "none" /\ tries' = tries + 1
     ELSE call' = "upsert" /\ UNCHANGED tries
  /\ UNCHANGED <<keyVars, rows, process, step, api, offered, logout, history>>

Cancel ==
  /\ step \notin {"none", ""} /\ step' = ""
  /\ UNCHANGED <<keyVars, rows, process, call, api, offered, selected, tries, asked,
                 logout, history>>

-----------------------------------------------------------------------------
(* completeLogin, and LoadUserLogin under it.                              *)

KeyReady == keyOnce = "done"
Store(row) == accounts' = [accounts EXCEPT ![api] = row]

\* UpsertAccount; it encrypts with the key of this process.
UpsertAccount ==
  /\ call = "upsert" /\ KeyReady /\ dbKey # NoKey
  /\ Store([dids |-> selected, key |-> dbKey]) /\ Busy("newLogin")
  /\ halfOut' = halfOut \ {api}
  /\ residue' = (residue \ {api}) \cup ({api} \cap {out})
  /\ UNCHANGED <<keyVars, cursors, logins, process, logout, verified>>

\* No key, or the statement fails.
UpsertFails ==
  /\ call = "upsert" /\ KeyReady /\ Return
  /\ UNCHANGED <<keyVars, rows, process, logout, history>>

Orphan(l) == residue' = residue \cup ({l} \ logins)

\* LoadUserLogin finds and decrypts the account and builds a client; one that
\* the login has already is replaced, and goes on.
NewClient(l) ==
  /\ KeyReady /\ Stored(l) /\ accounts[l].key = dbKey
  /\ clients[l] < MaxClients
  /\ clients' = [clients EXCEPT ![l] = @ + 1]

Newest(l) == <<l, clients[l]>>

\* NewLogin reaches LoadUserLogin.
LoadNewLogin ==
  /\ call = "newLogin" /\ NewClient(api) /\ Busy("saveLogin")
  /\ UNCHANGED <<keyVars, rows, up, starts, toLoad, loops, ended, logout, history>>

\* NewLogin refuses, or LoadUserLogin finds no account or cannot read it.
NewLoginFails ==
  /\ call = "newLogin" /\ Return /\ Orphan(api)
  /\ UNCHANGED <<keyVars, rows, process, logout, verified, halfOut>>

LoginSaved(newLoops) ==
  /\ call = "saveLogin"
  /\ logins' = logins \cup {api} /\ loops' = loops \cup newLoops
  /\ step' = "complete" /\ call' = "none"
  /\ UNCHANGED <<keyVars, accounts, cursors, up, starts, toLoad, clients, ended, api,
                 offered, selected, tries, asked, logout, history>>

\* Mutant: the client polls though a logout has disconnected it meanwhile.
ConnectedAnyway == LoginSaved({Newest(api)})

\* NewLogin saves its row; completeLogin connects the client.
SaveLogin == LoginSaved({Newest(api)} \ ended)

SaveLoginFails ==
  /\ call = "saveLogin" /\ Return /\ Orphan(api)
  /\ UNCHANGED <<keyVars, rows, process, logout, verified, halfOut>>

-----------------------------------------------------------------------------
(* The start of the bridge, the poll loops' cursors, the end of a process. *)

\* The passphrase of the environment can be another one at every start.
Start ==
  /\ ~up /\ starts < MaxStarts
  /\ up' = TRUE /\ starts' = starts + 1 /\ toLoad' = logins
  /\ env' \in Environments
  /\ UNCHANGED <<passFile, saltFile, made, keyOnce, phrase, dbKey, gone, rows, clients,
                 loops, ended, form, logout, history>>

\* LoadUserLogin for a saved login, then Connect.
LoadUserLogin(l) ==
  /\ l \in toLoad /\ toLoad' = toLoad \ {l}
  /\ NewClient(l) /\ loops' = loops \cup {<<l, clients'[l]>>}
  /\ UNCHANGED <<keyVars, rows, up, starts, ended, form, logout, history>>

\* The query fails, or there is no account, or it cannot be decrypted.
LoadFails(l) ==
  /\ l \in toLoad /\ toLoad' = toLoad \ {l}
  /\ UNCHANGED <<keyVars, rows, up, starts, clients, loops, ended, form, logout, history>>

\* getDBKey runs once an account is to be encrypted or decrypted.
FirstUse ==
  /\ call = "upsert" \/ (call = "newLogin" /\ Stored(api)) \/ (\E l \in toLoad : Stored(l))
  /\ GetDBKey
  /\ UNCHANGED <<rows, process, form, logout, history>>

\* A loop of any of the login's clients.
SetPollCursor(l) ==
  /\ \E c \in loops : c[1] = l
  /\ cursors' = cursors \cup {l}
  /\ residue' = residue \cup (IF outPc = "disconnect" THEN {out} \cap {l} ELSE {})
  /\ UNCHANGED <<keyVars, accounts, logins, process, form, logout, verified, halfOut>>

Crash ==
  /\ up /\ up' = FALSE /\ KeyLost
  /\ toLoad' = {} /\ clients' = [l \in Apis |-> 0] /\ loops' = {} /\ ended' = {}
  /\ step' = "none" /\ call' = "none" /\ api' = "none" /\ offered' = {}
  /\ selected' = {} /\ asked' = {}
  /\ out' = "none" /\ outClient' = 0 /\ outPc' = "none"
  /\ halfOut' = halfOut \cup ({out} \cap Apis)
  /\ residue' = residue \cup ({out} \cap Apis)
                  \cup (IF call \in {"newLogin", "saveLogin"} THEN {api} \ logins ELSE {})
  /\ UNCHANGED <<rows, starts, tries, verified>>

-----------------------------------------------------------------------------
(* LogoutRemote, from the framework's thread; then bridgev2 drops its row. *)

LogoutRemote(l) ==
  /\ out = "none" /\ l \in logins /\ clients[l] # 0
  /\ out' = l /\ outClient' = clients[l] /\ outPc' = "deleteAccount"
  /\ UNCHANGED <<keyVars, rows, process, form, history>>

Left(l) == residue' = residue \cup {l}

\* DeleteAccount is two statements; a failed one ends it, and is only logged.
DeleteAccount ==
  /\ outPc = "deleteAccount"
  /\ accounts' = [accounts EXCEPT ![out] = NoRow] /\ outPc' = "deleteCursors"
  /\ UNCHANGED <<keyVars, cursors, logins, process, form, out, outClient, history>>

DeleteCursors ==
  /\ outPc = "deleteCursors"
  /\ cursors' = cursors \ {out} /\ outPc' = "disconnect"
  /\ UNCHANGED <<keyVars, accounts, logins, process, form, out, outClient, history>>

DeleteFails ==
  /\ outPc \in {"deleteAccount", "deleteCursors"}
  /\ outPc' = "disconnect" /\ Left(out)
  /\ UNCHANGED <<keyVars, rows, process, form, out, outClient, verified, halfOut>>

\* Mutant: the context is not cancelled.
NotCancelled ==
  /\ outPc = "disconnect" /\ outPc' = "remove"
  /\ UNCHANGED <<keyVars, rows, process, form, out, outClient, history>>

\* It ends the client it is called on, whichever the newest is by now.
Disconnect ==
  /\ outPc = "disconnect" /\ outPc' = "remove"
  /\ ended' = ended \cup {<<out, outClient>>} /\ loops' = loops \ {<<out, outClient>>}
  /\ UNCHANGED <<keyVars, rows, up, starts, toLoad, clients, form, out, outClient, history>>

\* Another client of the login than the one logged out still polls.
OthersPoll == \E c \in loops : c[1] = out /\ c[2] # outClient

RemoveLogin ==
  /\ outPc = "remove" /\ call # "saveLogin"
  /\ logins' = logins \ {out} /\ out' = "none" /\ outClient' = 0 /\ outPc' = "none"
  /\ halfOut' = halfOut \ {out}
  /\ residue' = IF OthersPoll THEN residue \cup {out} ELSE residue
  /\ UNCHANGED <<keyVars, accounts, cursors, process, form, verified>>

-----------------------------------------------------------------------------
SubmitUserInput ==
  \/ \E l \in Apis : SubmitCredentials(l)
  \/ \E dids \in SUBSET DIDs : CredentialsVerified(dids)
  \/ CredentialsFail
  \/ \E dids \in SUBSET offered, bad \in BOOLEAN : SelectNumbers(dids, bad)
  \/ UpsertAccount \/ UpsertFails \/ LoadNewLogin \/ NewLoginFails
  \/ SaveLogin \/ SaveLoginFails
Bridge ==
  \/ Start \/ Crash \/ FirstUse
  \/ \E l \in Apis : LoadUserLogin(l) \/ LoadFails(l) \/ SetPollCursor(l)
Logout ==
  \/ \E l \in Apis : LogoutRemote(l)
  \/ DeleteAccount \/ DeleteCursors \/ DeleteFails \/ Disconnect \/ RemoveLogin
Next == CreateLogin \/ SubmitUserInput \/ Cancel \/ Bridge \/ Logout
Spec == Init /\ [][Next]_vars

-----------------------------------------------------------------------------
Rows == [dids : SUBSET DIDs, key : (1 .. EnvPass) \X (1 .. MaxContents) \cup {NoKey}]

StoreTypes ==
  accounts \in [Apis -> Rows] /\ cursors \subseteq Apis /\ logins \subseteq Apis
Built == {c \in Apis \X Nat : c[2] \in 1 .. clients[c[1]]}
ProcessTypes ==
  /\ up \in BOOLEAN /\ starts \in 1 .. MaxStarts
  /\ toLoad \subseteq Apis /\ clients \in [Apis -> Nat]
  /\ loops \cup ended \subseteq Built /\ loops \cap ended = {}
FormTypes ==
  /\ step \in {"none", "", "credentials", "did_selection", "complete"}
  /\ call \in {"none", "verify", "upsert", "newLogin", "saveLogin"}
  /\ api \in Apis \cup {"none"} /\ (call # "none" => api \in Apis)
  /\ offered \subseteq DIDs /\ selected \subseteq DIDs /\ asked \subseteq DIDs
  /\ tries \in 0 .. MaxTries
LogoutTypes ==
  /\ outPc \in {"none", "deleteAccount", "deleteCursors", "disconnect", "remove"}
  /\ out \in Apis \cup {"none"} /\ (out = "none" <=> outPc = "none")
  /\ out # "none" => <<out, outClient>> \in Built
  /\ verified \subseteq Apis \X DIDs /\ halfOut \subseteq Apis /\ residue \subseteq Apis
TypeOK == KeyTypeOK /\ StoreTypes /\ ProcessTypes /\ FormTypes /\ LogoutTypes

\* LoadUserLogin of a process started now finds the account and can read it.
Loadable(l) == Stored(l) /\ accounts[l].key = KeyOnDisk

\* The operator changed the passphrase, or a key file was there and could not
\* be read, since the row was written.
KeyReplaced(l) ==
  \/ (accounts[l].key[1] = EnvPass) # (env = EnvPass)
  \/ {accounts[l].key[1], accounts[l].key[2]} \cap gone # {}

(* Every login of bridgev2 loads again at the next start, wherever the     *)
(* process stops (in the middle of writing a key file, too) and whichever  *)
(* statements fail, but for a logout under way or cut off and a key that   *)
(* was replaced: getDBKey, "Save credentials FIRST", DeleteAccount.        *)
LoginsLoad ==
  \A l \in logins : Loadable(l) \/ l = out \/ l \in halfOut \/ (Stored(l) /\ KeyReplaced(l))

(* What is stored under an API username are numbers VoIP.ms listed for     *)
(* credentials it accepted for that very username, however often inputs    *)
(* were rejected and submitted again.                                      *)
StoredAsVerified ==
  \A l \in Apis : Stored(l) =>
    accounts[l].dids # {} /\ {l} \X accounts[l].dids \subseteq verified

(* No account and no cursor is left without a login, but by a NewLogin     *)
(* that failed, a statement that failed, a sweep that saved its cursor     *)
(* between DeleteAccount and Disconnect, a second client of the login that *)
(* polls on because Disconnect ends only its own (LoadUserLogin replaces   *)
(* one without ending it), or the end of the process in the middle of a    *)
(* login or a logout (residue).                                            *)
NothingLeftBehind ==
  \A l \in Apis \ (logins \cup residue) :
    \/ ~Stored(l) /\ l \notin cursors
    \/ l = api /\ call \in {"newLogin", "saveLogin"}

(* Refuted: the numbers stored are those of the selection that was         *)
(* accepted, "Which numbers should be bridged?" (login.go:127).            *)
BridgedAsAsked == call = "upsert" => selected = asked
=============================================================================
