--------------------------- MODULE AccountsProofs ---------------------------
(* Proofs about Accounts and Keys, for any sets of accounts and numbers.   *)
EXTENDS Accounts, TLAPS

\* What a key was derived from is where it was, or was lost to a read error.
Kept(k) ==
  /\ k # NoKey
  /\ k[1] \in {EnvPass, passFile} \cup gone
  /\ k[2] \in {saltFile} \cup gone

\* What keyOnce.Do knows at each of its positions.
KeyOK ==
  /\ dbKey # NoKey => keyOnce = "done" /\ dbKey = KeyOnDisk
  /\ keyOnce \in {"salt", "writeSalt"} => phrase = Passphrase /\ phrase # 0
  /\ keyOnce = "writePass" => env = 0 /\ passFile \in {0} \cup gone
  /\ keyOnce = "writeSalt" => saltFile \in {0} \cup gone

RowsKept == \A l \in Apis : Stored(l) => Kept(accounts[l].key)

\* A login, also one about to be saved, has its account unless it is leaving.
LoginsStored ==
  /\ \A l \in logins : Stored(l) \/ l = out \/ l \in halfOut
  /\ call = "saveLogin" => Stored(api) \/ api = out

\* What the form holds was listed by VoIP.ms for its username.
FormOK ==
  /\ {api} \X offered \subseteq verified /\ selected \subseteq offered
  /\ (step = "credentials" \/ call = "verify") => offered = {}
  /\ call = "upsert" => selected # {}
  /\ step = "did_selection" => api \in Apis

\* completeLogin connects a client that was built.
BuiltOK == call = "saveLogin" => clients[api] # 0

\* Between two processes nothing is under way and no key is set.
DownOK == ~up =>
  keyOnce = "new" /\ dbKey = NoKey /\ step = "none" /\ call = "none" /\ toLoad = {}

IInv == TypeOK /\ KeyOK /\ RowsKept /\ LoginsStored /\ FormOK /\ BuiltOK
          /\ DownOK /\ StoredAsVerified

-----------------------------------------------------------------------------
(* The key files.                                                          *)

Pairs == (1 .. EnvPass) \X (1 .. MaxContents)

\* A step of keyOnce.Do keeps the types, what is known, and every stored key.
LEMMA KeyStep ==
  ASSUME KeyTypeOK, KeyOK, GetDBKey
  PROVE  KeyTypeOK' /\ KeyOK' /\ \A k \in Pairs : Kept(k) => Kept(k)'
<1> USE ContentsAssumption DEF KeyTypeOK, KeyOK, Contents, Environments, EnvPass, NoKey,
        Passphrase, KeyOnDisk, Pairs, Kept
<1>1. CASE ReadPassphrase
  <2> USE <1>1 DEF ReadPassphrase, Misread, Absent, files
  <2>1. gone' \in {gone, gone \cup {passFile}}
    OBVIOUS
  <2>2. KeyTypeOK'
    BY <2>1
  <2>3. KeyOK'
    OBVIOUS
  <2>4. ASSUME NEW k \in Pairs, Kept(k) PROVE Kept(k)'
    BY <2>1, <2>4
  <2>5. QED
    BY <2>2, <2>3, <2>4
<1>2. CASE WritePassphrase
  BY <1>2 DEF WritePassphrase
<1>3. CASE PassphraseFails
  BY <1>3 DEF PassphraseFails, PassphraseTorn
<1>4. CASE ReadSalt
  <2> USE <1>4 DEF ReadSalt, Misread, Absent, Derive, files
  <2>1. gone' \in {gone, gone \cup {saltFile}}
    OBVIOUS
  <2>2. KeyTypeOK'
    BY <2>1
  <2>3. KeyOK'
    OBVIOUS
  <2>4. ASSUME NEW k \in Pairs, Kept(k) PROVE Kept(k)'
    BY <2>1, <2>4
  <2>5. QED
    BY <2>2, <2>3, <2>4
<1>5. CASE WriteSalt
  BY <1>5 DEF WriteSalt, Derive
<1>6. CASE SaltFails
  BY <1>6 DEF SaltFails
<1>7. QED
  BY <1>1, <1>2, <1>3, <1>4, <1>5, <1>6 DEF GetDBKey

\* So does the end of the process, in the middle of a write too.
LEMMA KeyLostStep ==
  ASSUME KeyTypeOK, KeyOK, KeyLost
  PROVE  KeyTypeOK' /\ KeyOK' /\ \A k \in Pairs : Kept(k) => Kept(k)'
BY ContentsAssumption DEF KeyTypeOK, KeyOK, Contents, Environments, EnvPass, NoKey,
   Passphrase, KeyOnDisk, Pairs, Kept, KeyLost, PassphraseTorn

\* Types and lists of variables that the steps below expand.
USE DEF keyVars, files, rows, process, form, logout, history, Stored, Busy, Return,
        KeyReady, Store, Orphan, Left, NoRow, NoForm, NewClient, Newest, LoginSaved

\* The initial states satisfy the inductive invariant.
LEMMA InitStep == Init => IInv
<1> SUFFICES ASSUME Init PROVE IInv
  OBVIOUS
<1> USE DEF Init, NoKey
<1>1. KeyTypeOK /\ KeyOK
  BY ContentsAssumption DEF KeyInit, KeyTypeOK, KeyOK, Contents, Environments, EnvPass
<1>2. accounts \in [Apis -> Rows]
  BY DEF Rows
<1>3. starts \in 1 .. MaxStarts /\ tries \in 0 .. MaxTries
  BY AccountsAssumption
<1>4. TypeOK
  BY <1>1, <1>2, <1>3, AccountsAssumption
     DEF TypeOK, StoreTypes, ProcessTypes, FormTypes, LogoutTypes
<1>5. RowsKept /\ StoredAsVerified
  BY DEF RowsKept, StoredAsVerified
<1>6. LoginsStored /\ FormOK /\ BuiltOK /\ DownOK
  BY DEF LoginsStored, FormOK, BuiltOK, DownOK
<1>7. QED
  BY <1>1, <1>4, <1>5, <1>6 DEF IInv

\* Where a step leaves the key alone, runs keyOnce.Do or ends the process.
LEMMA KeyPart ==
  ASSUME IInv, Next
  PROVE  /\ KeyTypeOK' /\ KeyOK'
         /\ \A k \in Pairs : Kept(k) => Kept(k)'
<1> USE DEF IInv, TypeOK
<1>1. CASE UNCHANGED keyVars
  BY <1>1 DEF KeyTypeOK, KeyOK, Contents, Environments, EnvPass, NoKey, Passphrase,
     KeyOnDisk, Kept
<1>2. CASE FirstUse
  BY <1>2, KeyStep DEF FirstUse
<1>3. CASE Crash
  BY <1>3, KeyLostStep DEF Crash
<1>4. CASE Start
  BY <1>4 DEF Start, DownOK, KeyTypeOK, KeyOK, Kept, Contents, Environments, EnvPass, NoKey
<1>5. UNCHANGED keyVars \/ FirstUse \/ Crash \/ Start
  BY DEF Next, SubmitUserInput, Bridge, Logout, CreateLogin, SubmitCredentials,
     CredentialsVerified, CredentialsFail, SelectNumbers, UpsertAccount, UpsertFails,
     LoadNewLogin, NewLoginFails, SaveLogin, SaveLoginFails, Cancel, LoadUserLogin,
     LoadFails, SetPollCursor, LogoutRemote, DeleteAccount, DeleteCursors, DeleteFails,
     Disconnect, RemoveLogin
<1>6. QED
  BY <1>1, <1>2, <1>3, <1>4, <1>5

\* A counter below its bound can be increased.
LEMMA CounterStep ==
  ASSUME NEW n \in Nat, NEW low \in Nat, NEW i \in low .. n, i < n
  PROVE  i + 1 \in low .. n
OBVIOUS

\* The newest client of a login that has one was built, and no older one is
\* forgotten when another is built.
LEMMA NewestIsBuilt ==
  ASSUME clients \in [Apis -> Nat], NEW l \in Apis, clients[l] # 0
  PROVE  Newest(l) \in Built
BY DEF Built

LEMMA ClientStep ==
  ASSUME clients \in [Apis -> Nat], NEW l \in Apis, NewClient(l)
  PROVE  /\ clients' \in [Apis -> Nat] /\ clients'[l] # 0
         /\ \A k \in Apis : clients[k] # 0 => clients'[k] # 0
         /\ Built \subseteq Built'
         /\ <<l, clients'[l]>> \in Built' \ Built
<1>1. /\ clients' \in [Apis -> Nat] /\ clients'[l] = clients[l] + 1
      /\ \A k \in Apis : clients[k] <= clients'[k]
  OBVIOUS
<1>2. \A k \in Apis : clients[k] \in Nat /\ clients'[k] \in Nat
  BY <1>1
<1>3. ASSUME NEW c \in Built PROVE c \in Built'
  <2>1. c \in Apis \X Nat /\ c[1] \in Apis /\ c[2] \in 1 .. clients[c[1]]
    BY <1>3 DEF Built
  <2>2. clients[c[1]] <= clients'[c[1]]
    BY <1>1, <2>1
  <2>3. c[2] \in 1 .. clients'[c[1]]
    BY <1>2, <2>1, <2>2
  <2>4. QED
    BY <2>1, <2>3 DEF Built
<1>4. clients'[l] \in 1 .. clients'[l] /\ clients'[l] \notin 1 .. clients[l]
  BY <1>1, <1>2
<1>5. <<l, clients'[l]>> \in Built' \ Built
  BY <1>2, <1>4 DEF Built
<1>6. QED
  BY <1>1, <1>2, <1>3, <1>5

\* The loops and the cancelled contexts are those of clients that were built.
LEMMA ProcessStep ==
  ASSUME IInv, Next
  PROVE  ProcessTypes' /\ (Built \subseteq Built' \/ out' = "none")
<1>1. ProcessTypes /\ clients \in [Apis -> Nat]
  BY DEF IInv, TypeOK, ProcessTypes
<1>2. CASE LoadNewLogin
  <2>1. api \in Apis
    BY <1>2 DEF LoadNewLogin, IInv, TypeOK, FormTypes
  <2>2. clients' \in [Apis -> Nat] /\ Built \subseteq Built'
    BY <1>1, <1>2, <2>1, ClientStep DEF LoadNewLogin
  <2>3. UNCHANGED <<up, starts, toLoad, loops, ended>>
    BY <1>2 DEF LoadNewLogin
  <2>4. QED
    BY <1>1, <2>2, <2>3 DEF ProcessTypes
<1>3. ASSUME NEW l \in Apis, LoadUserLogin(l) PROVE ProcessTypes' /\ Built \subseteq Built'
  <2>1. /\ clients' \in [Apis -> Nat] /\ Built \subseteq Built'
        /\ <<l, clients'[l]>> \in Built' \ Built
    BY <1>1, <1>3, ClientStep DEF LoadUserLogin
  <2>2. /\ UNCHANGED <<up, starts, ended>> /\ toLoad' = toLoad \ {l}
        /\ loops' = loops \cup {<<l, clients'[l]>>}
    BY <1>3 DEF LoadUserLogin
  <2>3. QED
    BY <1>1, <2>1, <2>2 DEF ProcessTypes
<1>4. CASE SaveLogin
  <2>1. api \in Apis /\ clients[api] # 0
    BY <1>4 DEF SaveLogin, IInv, TypeOK, FormTypes, BuiltOK
  <2>2. Newest(api) \in Built
    BY <1>1, <2>1, NewestIsBuilt
  <2>3. /\ UNCHANGED <<up, starts, toLoad, clients, ended>>
        /\ loops' = loops \cup ({Newest(api)} \ ended)
    BY <1>4 DEF SaveLogin
  <2>4. Built' = Built
    BY <2>3 DEF Built
  <2>5. QED
    BY <1>1, <2>2, <2>3, <2>4 DEF ProcessTypes
<1>5. CASE Start
  <2>1. starts' \in 1 .. MaxStarts
    BY <1>1, <1>5, CounterStep, AccountsAssumption, Zenon DEF Start, ProcessTypes
  <2>2. UNCHANGED <<clients, loops, ended>> /\ up' = TRUE /\ toLoad' = logins
    BY <1>5 DEF Start
  <2>3. Built' = Built
    BY <2>2 DEF Built
  <2>4. QED
    BY <1>1, <2>1, <2>2, <2>3 DEF ProcessTypes, IInv, TypeOK, StoreTypes
<1>6. CASE Crash
  BY <1>1, <1>6 DEF Crash, ProcessTypes
<1>7. CASE Disconnect
  <2>1. <<out, outClient>> \in Built
    BY <1>7 DEF Disconnect, IInv, TypeOK, LogoutTypes
  <2>2. /\ UNCHANGED <<up, starts, toLoad, clients>>
        /\ ended' = ended \cup {<<out, outClient>>} /\ loops' = loops \ {<<out, outClient>>}
    BY <1>7 DEF Disconnect
  <2>3. Built' = Built
    BY <2>2 DEF Built
  <2>4. QED
    BY <1>1, <2>1, <2>2, <2>3 DEF ProcessTypes
<1>8. CASE UNCHANGED <<up, starts, clients, loops, ended>> /\ toLoad' \subseteq toLoad
  <2>1. Built' = Built
    BY <1>8 DEF Built
  <2>2. QED
    BY <1>1, <1>8, <2>1 DEF ProcessTypes
<1>9. QED
  BY <1>2, <1>3, <1>4, <1>5, <1>6, <1>7, <1>8
     DEF Next, SubmitUserInput, Bridge, Logout, CreateLogin, SubmitCredentials,
     CredentialsVerified, CredentialsFail, SelectNumbers, UpsertAccount, UpsertFails,
     NewLoginFails, SaveLoginFails, Cancel, FirstUse, LoadFails, SetPollCursor,
     LogoutRemote, DeleteAccount, DeleteCursors, DeleteFails, RemoveLogin

\* The types of the rows, the process, the form and the history.
LEMMA TypeStep ==
  ASSUME IInv, Next, KeyTypeOK'
  PROVE  TypeOK'
<1> USE AccountsAssumption DEF IInv, TypeOK, StoreTypes, FormTypes, LogoutTypes
<1>0. ProcessTypes' /\ (Built \subseteq Built' \/ out' = "none")
  BY ProcessStep
<1>1. CASE CreateLogin
  <2>1. tries' \in 0 .. MaxTries
    BY <1>0, <1>1, CounterStep, Zenon DEF CreateLogin
  <2>2. FormTypes'
    BY <1>0, <1>1, <2>1 DEF CreateLogin
  <2>3. QED
    BY <1>0, <1>1, <2>2 DEF CreateLogin
<1>2. ASSUME NEW l \in Apis, SubmitCredentials(l) PROVE TypeOK'
  BY <1>0, <1>2 DEF SubmitCredentials
<1>3. ASSUME NEW dids \in SUBSET DIDs, CredentialsVerified(dids) PROVE TypeOK'
  BY <1>0, <1>3 DEF CredentialsVerified
<1>4. CASE CredentialsFail
  BY <1>0, <1>4 DEF CredentialsFail
<1>5. ASSUME NEW dids \in SUBSET offered, NEW bad \in BOOLEAN, SelectNumbers(dids, bad)
      PROVE  TypeOK'
  <2>1. selected' \subseteq DIDs /\ asked' \subseteq DIDs
    BY <1>0, <1>5 DEF SelectNumbers
  <2>2. tries' = tries \/ tries' = tries + 1
    BY <1>0, <1>5, Zenon DEF SelectNumbers
  <2>3. tries' \in 0 .. MaxTries
    <3>1. MaxTries \in Nat /\ 0 \in Nat /\ tries \in 0 .. MaxTries /\ tries < MaxTries
      BY <1>0, <1>5 DEF SelectNumbers
    <3>2. tries + 1 \in 0 .. MaxTries
      BY <3>1, CounterStep, Zenon
    <3>3. QED
      BY <2>2, <3>1, <3>2, Zenon
  <2>4. step = "did_selection" /\ step' = step /\ api' = api /\ offered' = offered
    BY <1>0, <1>5, Zenon DEF SelectNumbers
  <2>5. call' = "none" \/ call' = "upsert"
    BY <1>0, <1>5, Zenon DEF SelectNumbers
  <2>6. FormTypes'
    BY <2>1, <2>3, <2>4, <2>5 DEF FormOK
  <2>7. QED
    BY <1>0, <1>5, <2>6 DEF SelectNumbers
<1>6. CASE UpsertAccount
  <2>1. [dids |-> selected, key |-> dbKey] \in Rows
    BY DEF Rows, KeyTypeOK
  <2>2. accounts' \in [Apis -> Rows]
    BY <1>0, <1>6, <2>1 DEF UpsertAccount
  <2>3. QED
    BY <1>0, <1>6, <2>2 DEF UpsertAccount
<1>7. CASE UpsertFails
  BY <1>0, <1>7 DEF UpsertFails
<1>8. CASE LoadNewLogin
  BY <1>0, <1>8 DEF LoadNewLogin
<1>9. CASE NewLoginFails \/ SaveLoginFails
  BY <1>0, <1>9 DEF NewLoginFails, SaveLoginFails
<1>10. CASE SaveLogin
  BY <1>0, <1>10 DEF SaveLogin
<1>11. CASE Cancel
  BY <1>0, <1>11 DEF Cancel
<1>12. CASE Start
  BY <1>0, <1>12 DEF Start
<1>13. CASE Crash
  BY <1>0, <1>13 DEF Crash
<1>14. CASE FirstUse
  BY <1>0, <1>14 DEF FirstUse
<1>15. ASSUME NEW l \in Apis, LoadUserLogin(l) \/ LoadFails(l) \/ SetPollCursor(l)
       PROVE  TypeOK'
  BY <1>0, <1>15 DEF LoadUserLogin, LoadFails, SetPollCursor
<1>16. ASSUME NEW l \in Apis, LogoutRemote(l) PROVE TypeOK'
  <2>1. <<l, clients[l]>> \in Built /\ Built' = Built
    BY <1>16, NewestIsBuilt DEF LogoutRemote, ProcessTypes, Built
  <2>2. QED
    BY <1>0, <1>16, <2>1 DEF LogoutRemote
<1>17. CASE DeleteAccount
  <2>1. NoRow \in Rows
    BY DEF Rows
  <2>2. accounts' \in [Apis -> Rows]
    BY <1>0, <1>17, <2>1 DEF DeleteAccount
  <2>3. QED
    BY <1>0, <1>17, <2>2 DEF DeleteAccount
<1>18. CASE DeleteCursors \/ DeleteFails
  BY <1>0, <1>18 DEF DeleteCursors, DeleteFails
<1>19. CASE Disconnect
  BY <1>0, <1>19 DEF Disconnect
<1>20. CASE RemoveLogin
  BY <1>0, <1>20 DEF RemoveLogin
<1>21. QED
  BY <1>1, <1>2, <1>3, <1>4, <1>5, <1>6, <1>7, <1>8, <1>9, <1>10, <1>11, <1>12, <1>13,
     <1>14, <1>15, <1>16, <1>17, <1>18, <1>19, <1>20
     DEF Next, SubmitUserInput, Bridge, Logout

-----------------------------------------------------------------------------
(* The store and the logins.                                               *)

\* A stored row keeps a key that is where it was: nothing else is stored.
LEMMA RowsStep ==
  ASSUME IInv, Next, TypeOK', \A k \in Pairs : Kept(k) => Kept(k)'
  PROVE  RowsKept'
<1> USE DEF IInv, RowsKept
<1>1. \A l \in Apis : Stored(l) => accounts[l].key \in Pairs
  BY DEF TypeOK, StoreTypes, Rows, Kept, Pairs
<1>2. CASE UNCHANGED accounts
  BY <1>1, <1>2
<1>3. CASE UpsertAccount
  <2>1. dbKey \in Pairs /\ Kept(dbKey)
    BY <1>3 DEF UpsertAccount, TypeOK, KeyTypeOK, Pairs, KeyOK, Kept, KeyOnDisk, Passphrase,
       Environments
  <2>2. ASSUME NEW l \in Apis, Stored(l)' PROVE Kept(accounts[l].key)'
    BY <1>1, <1>3, <2>1, <2>2 DEF UpsertAccount, TypeOK, StoreTypes
  <2>3. QED
    BY <2>2
<1>4. CASE DeleteAccount
  <2>1. ASSUME NEW l \in Apis, Stored(l)' PROVE Stored(l) /\ accounts'[l] = accounts[l]
    BY <1>4, <2>1 DEF DeleteAccount, TypeOK, StoreTypes, NoKey
  <2>2. QED
    BY <1>1, <2>1
<1>5. UNCHANGED accounts \/ UpsertAccount \/ DeleteAccount
  BY DEF Next, SubmitUserInput, Bridge, Logout, CreateLogin, SubmitCredentials,
     CredentialsVerified, CredentialsFail, SelectNumbers, UpsertFails, LoadNewLogin,
     NewLoginFails, SaveLogin, SaveLoginFails, Cancel, Start, Crash, FirstUse,
     LoadUserLogin, LoadFails, SetPollCursor, LogoutRemote, DeleteCursors, DeleteFails,
     Disconnect, RemoveLogin
<1>6. QED
  BY <1>2, <1>3, <1>4, <1>5

\* No login loses its account while it stays, and none is saved without one.
LEMMA LoginsStep ==
  ASSUME IInv, Next, TypeOK'
  PROVE  LoginsStored'
<1> USE DEF IInv, LoginsStored
<1>1. CASE UpsertAccount
  <2>1. Stored(api)'
    BY <1>1 DEF UpsertAccount, TypeOK, StoreTypes, FormTypes
  <2>2. \A l \in Apis \ {api} : accounts'[l] = accounts[l]
    BY <1>1 DEF UpsertAccount, TypeOK, StoreTypes
  <2>3. QED
    BY <1>1, <2>1, <2>2 DEF UpsertAccount, TypeOK, StoreTypes
<1>2. CASE LoadNewLogin
  BY <1>2 DEF LoadNewLogin
<1>3. CASE SaveLogin
  BY <1>3 DEF SaveLogin
<1>4. CASE Crash
  BY <1>4 DEF Crash, TypeOK, StoreTypes
<1>5. ASSUME NEW l \in Apis, LogoutRemote(l) PROVE LoginsStored'
  BY <1>5, AccountsAssumption DEF LogoutRemote, TypeOK, StoreTypes, FormTypes
<1>6. CASE DeleteAccount
  <2>1. \A l \in Apis \ {out} : accounts'[l] = accounts[l]
    BY <1>6 DEF DeleteAccount, TypeOK, StoreTypes
  <2>2. QED
    BY <1>6, <2>1 DEF DeleteAccount, TypeOK, StoreTypes, FormTypes
<1>7. CASE RemoveLogin
  BY <1>7 DEF RemoveLogin
<1>8. CASE UNCHANGED <<accounts, logins, out, halfOut>> /\ call' # "saveLogin"
  BY <1>8
<1>9. CASE UNCHANGED <<accounts, logins, out, halfOut, call, api>>
  BY <1>9
<1>10. QED
  BY <1>1, <1>2, <1>3, <1>4, <1>5, <1>6, <1>7, <1>8, <1>9
     DEF Next, SubmitUserInput, Bridge, Logout, CreateLogin, SubmitCredentials,
     CredentialsVerified, CredentialsFail, SelectNumbers, UpsertFails,
     NewLoginFails, SaveLoginFails, Cancel, Start, FirstUse,
     LoadUserLogin, LoadFails, SetPollCursor, DeleteCursors, DeleteFails, Disconnect

\* The form holds what was listed for its username, and nothing else is stored.
LEMMA FormStep ==
  ASSUME IInv, Next
  PROVE  FormOK'
<1> USE DEF IInv, FormOK
<1>1. CASE CreateLogin
  BY <1>1 DEF CreateLogin
<1>2. ASSUME NEW l \in Apis, SubmitCredentials(l) PROVE FormOK'
  BY <1>2 DEF SubmitCredentials
<1>3. ASSUME NEW dids \in SUBSET DIDs, CredentialsVerified(dids) PROVE FormOK'
  BY <1>3 DEF CredentialsVerified, TypeOK, FormTypes
<1>4. ASSUME NEW dids \in SUBSET offered, NEW bad \in BOOLEAN, SelectNumbers(dids, bad)
      PROVE  FormOK'
  <2>1. step = "did_selection" /\ selected' \subseteq offered
    BY <1>4 DEF SelectNumbers
  <2>2. call' = "none" \/ (call' = "upsert" /\ selected' # {})
    BY <1>4, Zenon DEF SelectNumbers
  <2>3. UNCHANGED <<step, api, offered, verified>>
    BY <1>4 DEF SelectNumbers
  <2>4. QED
    BY <2>1, <2>2, <2>3
<1>5. CASE Crash
  BY <1>5 DEF Crash
<1>6. CASE /\ UNCHANGED <<api, offered, selected, verified>>
           /\ step' \in {step, "", "complete"} /\ call' \in {call, "none", "newLogin", "saveLogin"}
  BY <1>6
<1>7. QED
  BY <1>1, <1>2, <1>3, <1>4, <1>5, <1>6
     DEF Next, SubmitUserInput, Bridge, Logout, CredentialsFail, UpsertAccount, UpsertFails,
     LoadNewLogin, NewLoginFails, SaveLogin, SaveLoginFails, Cancel, Start, FirstUse,
     LoadUserLogin, LoadFails, SetPollCursor, LogoutRemote, DeleteAccount, DeleteCursors,
     DeleteFails, Disconnect, RemoveLogin

\* A login about to be saved has a client, and no client is forgotten.
LEMMA BuiltStep ==
  ASSUME IInv, Next
  PROVE  BuiltOK'
<1> USE DEF IInv, BuiltOK, TypeOK
<1>1. CASE LoadNewLogin
  <2>1. api \in Apis /\ api' = api
    BY <1>1 DEF LoadNewLogin, FormTypes
  <2>2. clients'[api] # 0
    BY <1>1, <2>1, ClientStep DEF LoadNewLogin, ProcessTypes
  <2>3. QED
    BY <2>1, <2>2
<1>2. ASSUME NEW l \in Apis, LoadUserLogin(l) PROVE BuiltOK'
  <2>1. \A k \in Apis : clients[k] # 0 => clients'[k] # 0
    BY <1>2, ClientStep DEF LoadUserLogin, ProcessTypes
  <2>2. UNCHANGED <<call, api>>
    BY <1>2 DEF LoadUserLogin
  <2>3. QED
    BY <2>1, <2>2 DEF FormTypes
<1>3. CASE call' # "saveLogin"
  BY <1>3
<1>4. CASE UNCHANGED <<call, api, clients>>
  BY <1>4
<1>5. QED
  BY <1>1, <1>2, <1>3, <1>4
     DEF Next, SubmitUserInput, Bridge, Logout, CreateLogin, SubmitCredentials,
     CredentialsVerified, CredentialsFail, SelectNumbers, UpsertAccount, UpsertFails,
     NewLoginFails, SaveLogin, SaveLoginFails, Cancel, Start, Crash, FirstUse,
     LoadFails, SetPollCursor, LogoutRemote, DeleteAccount, DeleteCursors,
     DeleteFails, Disconnect, RemoveLogin

\* What is stored is what the form holds; what is verified stays verified.
LEMMA VerifiedStep ==
  ASSUME IInv, Next
  PROVE  StoredAsVerified'
<1> USE DEF IInv, StoredAsVerified
<1>1. CASE UpsertAccount
  <2>1. api \in Apis /\ {api} \X selected \subseteq verified /\ selected # {}
    BY <1>1 DEF UpsertAccount, TypeOK, FormTypes, FormOK
  <2>2. accounts'[api].dids = selected /\ \A l \in Apis \ {api} : accounts'[l] = accounts[l]
    BY <1>1, <2>1 DEF UpsertAccount, TypeOK, StoreTypes
  <2>3. verified' = verified
    BY <1>1 DEF UpsertAccount
  <2>4. QED
    BY <2>1, <2>2, <2>3
<1>2. CASE DeleteAccount
  <2>1. \A l \in Apis : Stored(l)' => Stored(l) /\ accounts'[l] = accounts[l]
    BY <1>2 DEF DeleteAccount, TypeOK, StoreTypes
  <2>2. verified' = verified
    BY <1>2 DEF DeleteAccount
  <2>3. QED
    BY <2>1, <2>2
<1>3. CASE UNCHANGED accounts /\ verified \subseteq verified'
  BY <1>3
<1>4. QED
  BY <1>1, <1>2, <1>3
     DEF Next, SubmitUserInput, Bridge, Logout, CreateLogin, SubmitCredentials,
     CredentialsVerified, CredentialsFail, SelectNumbers, UpsertFails,
     LoadNewLogin, NewLoginFails, SaveLogin, SaveLoginFails, Cancel, Start, Crash, FirstUse,
     LoadUserLogin, LoadFails, SetPollCursor, LogoutRemote, DeleteCursors, DeleteFails,
     Disconnect, RemoveLogin

\* Nothing but Start happens between two processes.
LEMMA DownStep ==
  ASSUME IInv, Next
  PROVE  DownOK'
<1> USE DEF IInv, DownOK
<1>1. CASE Crash
  BY <1>1 DEF Crash, KeyLost
<1>2. CASE Start
  BY <1>2 DEF Start
<1>3. CASE up /\ up' = up
  BY <1>3
<1>4. CASE UNCHANGED <<up, keyVars, step, call, toLoad>>
  BY <1>4
<1>5. QED
  BY <1>1, <1>2, <1>3, <1>4
     DEF Next, SubmitUserInput, Bridge, Logout, CreateLogin, SubmitCredentials,
     CredentialsVerified, CredentialsFail, SelectNumbers, UpsertAccount, UpsertFails,
     LoadNewLogin, NewLoginFails, SaveLogin, SaveLoginFails, Cancel, FirstUse,
     LoadUserLogin, LoadFails, SetPollCursor, LogoutRemote, DeleteAccount, DeleteCursors,
     DeleteFails, Disconnect, RemoveLogin

-----------------------------------------------------------------------------
(* The theorems.                                                           *)

\* IInv is inductive.
LEMMA Step == IInv /\ [Next]_vars => IInv'
<1> SUFFICES ASSUME IInv, [Next]_vars PROVE IInv'
  OBVIOUS
<1>1. CASE Next
  <2>1. KeyTypeOK' /\ KeyOK' /\ \A k \in Pairs : Kept(k) => Kept(k)'
    BY <1>1, KeyPart
  <2>2. TypeOK'
    BY <1>1, <2>1, TypeStep
  <2>3. RowsKept'
    BY <1>1, <2>1, <2>2, RowsStep
  <2>4. LoginsStored' /\ FormOK' /\ BuiltOK' /\ DownOK' /\ StoredAsVerified'
    BY <1>1, <2>2, LoginsStep, FormStep, BuiltStep, DownStep, VerifiedStep
  <2>5. QED
    BY <2>1, <2>2, <2>3, <2>4 DEF IInv
<1>2. CASE UNCHANGED vars
  <2>1. KeyTypeOK' /\ KeyOK'
    BY <1>2 DEF vars, IInv, TypeOK, KeyTypeOK, KeyOK, Contents, Environments, EnvPass,
       Passphrase, KeyOnDisk
  <2>2. TypeOK'
    <3>1. Built' = Built
      BY <1>2 DEF vars, Built
    <3>2. QED
      BY <1>2, <2>1, <3>1
         DEF vars, IInv, TypeOK, StoreTypes, ProcessTypes, FormTypes, LogoutTypes
  <2>3. RowsKept'
    BY <1>2 DEF vars, IInv, RowsKept, Kept
  <2>4. LoginsStored' /\ FormOK' /\ BuiltOK' /\ DownOK' /\ StoredAsVerified'
    BY <1>2 DEF vars, IInv, LoginsStored, FormOK, BuiltOK, DownOK, StoredAsVerified
  <2>5. QED
    BY <2>1, <2>2, <2>3, <2>4 DEF IInv
<1>3. QED
  BY <1>1, <1>2

\* The inductive invariant holds of every behaviour.
THEOREM Invariant == Spec => []IInv
BY InitStep, Step, PTL DEF Spec

\* Every variable keeps its type.
THEOREM TypeCorrect == Spec => []TypeOK
<1>1. IInv => TypeOK
  BY DEF IInv
<1>2. QED
  BY <1>1, Invariant, PTL

\* Only numbers verified for an API username are ever stored under it.
THEOREM OnlyVerifiedStored == Spec => []StoredAsVerified
<1>1. IInv => StoredAsVerified
  BY DEF IInv
<1>2. QED
  BY <1>1, Invariant, PTL

\* A key that was kept is the one a new process derives, or was replaced.
LEMMA KeptIsReadable ==
  ASSUME IInv, NEW l \in Apis, Stored(l)
  PROVE  Loadable(l) \/ KeyReplaced(l)
<1> DEFINE k == accounts[l].key
<1>1. Kept(k) /\ k \in Pairs
  BY DEF IInv, TypeOK, StoreTypes, Rows, RowsKept, Kept, Pairs
<1>2. k[1] \in gone \/ k[2] \in gone => KeyReplaced(l)
  BY DEF KeyReplaced
<1>3. CASE k[2] = saltFile /\ k[1] = EnvPass /\ env = EnvPass
  BY <1>1, <1>3, ContentsAssumption DEF Loadable, KeyOnDisk, Passphrase, Pairs, EnvPass
<1>4. CASE k[2] = saltFile /\ k[1] = passFile /\ env = 0
  BY <1>1, <1>4 DEF Loadable, KeyOnDisk, Passphrase, Pairs
<1>5. CASE (k[1] = EnvPass) # (env = EnvPass)
  BY <1>5 DEF KeyReplaced
<1>6. env \in {0, EnvPass} /\ EnvPass # 0 /\ passFile # EnvPass
  BY ContentsAssumption DEF IInv, TypeOK, KeyTypeOK, Environments, Contents, EnvPass
<1>7. QED
  BY <1>1, <1>2, <1>3, <1>4, <1>5, <1>6 DEF Kept

\* Every saved login loads again at the next start, wherever the process stops.
THEOREM LoginsAlwaysLoad == Spec => []LoginsLoad
<1>1. IInv => LoginsLoad
  BY KeptIsReadable DEF IInv, TypeOK, StoreTypes, LoginsStored, LoginsLoad
<1>2. QED
  BY <1>1, Invariant, PTL

-----------------------------------------------------------------------------
(* What a logout leaves.                                                   *)

Polls(l) == \E c \in loops : c[1] = l
Clean(l) == ~Stored(l) /\ l \notin cursors /\ ~Polls(l)

\* A loop is a pair, and one more loop of a login is no other login's.
LEMMA LoopIsPair ==
  ASSUME ProcessTypes, NEW c \in loops
  PROVE  c = <<c[1], c[2]>>
BY DEF ProcessTypes, Built

LEMMA OtherLogins ==
  ASSUME NEW l \in Apis, NEW n, loops' \subseteq loops \cup {<<l, n>>}
  PROVE  \A k \in Apis \ {l} : Polls(k)' => Polls(k)
BY DEF Polls

\* NewLogin for l is under way; if it fails, l is in residue.
BeingAdded(l) == l = api /\ call \in {"newLogin", "saveLogin"}

\* What has no login is clean, and a logout knows what it has deleted already:
\* behind Disconnect only another client of the login can write a cursor.
LeftOK ==
  /\ \A l \in Apis \ (logins \cup residue) : Clean(l) \/ BeingAdded(l)
  /\ out \in Apis \ residue =>
       /\ outPc \in {"deleteCursors", "disconnect", "remove"} => ~Stored(out)
       /\ outPc = "disconnect" => out \notin cursors
       /\ outPc = "remove" => out \notin cursors \/ OthersPoll
  /\ outPc = "remove" => <<out, outClient>> \in ended

\* The login process: an account is written before its login, and a failure
\* between the two is recorded.
LEMMA LeftLoginStep ==
  ASSUME IInv, LeftOK, CreateLogin \/ SubmitUserInput \/ Cancel
  PROVE  LeftOK'
<1> USE DEF IInv, TypeOK, StoreTypes, ProcessTypes, FormTypes, LogoutTypes, LeftOK, Clean,
        BeingAdded, Polls, OthersPoll
<1>1. CASE UNCHANGED <<accounts, cursors, logins, loops, ended, residue, out, outClient, outPc>>
           /\ call \notin {"newLogin", "saveLogin"}
  BY <1>1
<1>2. CASE Cancel
  BY <1>2 DEF Cancel
<1>3. CASE UpsertAccount
  BY <1>3 DEF UpsertAccount
<1>4. CASE LoadNewLogin
  BY <1>4 DEF LoadNewLogin
<1>5. CASE NewLoginFails \/ SaveLoginFails
  BY <1>5 DEF NewLoginFails, SaveLoginFails
<1>6. CASE SaveLogin
  <2>1. loops \subseteq loops' /\ ended' = ended
    BY <1>6 DEF SaveLogin
  <2>2. \A l \in Apis \ {api} : Polls(l)' => Polls(l)
    <3>1. loops' \subseteq loops \cup {<<api, clients[api]>>} /\ api \in Apis
      BY <1>6 DEF SaveLogin
    <3>2. QED
      BY <3>1, OtherLogins
  <2>3. OthersPoll => OthersPoll'
    BY <1>6, <2>1 DEF SaveLogin
  <2>4. \A l \in Apis \ (logins' \cup residue) : Clean(l)'
    BY <1>6, <2>2 DEF SaveLogin
  <2>5. UNCHANGED <<out, outClient, outPc, residue, accounts, cursors>>
    BY <1>6 DEF SaveLogin
  <2> HIDE DEF Clean, Polls, OthersPoll
  <2>6. QED
    BY <2>1, <2>3, <2>4, <2>5
<1>7. QED
  BY <1>1, <1>2, <1>3, <1>4, <1>5, <1>6
     DEF SubmitUserInput, CreateLogin, SubmitCredentials, CredentialsVerified,
         CredentialsFail, SelectNumbers, UpsertFails

\* The bridge: a poll loop runs for a login, and a cursor it saves behind
\* DeleteCursors is recorded.
LEMMA LeftBridgeStep ==
  ASSUME IInv, LeftOK, Bridge
  PROVE  LeftOK'
<1> USE DEF IInv, TypeOK, StoreTypes, ProcessTypes, FormTypes, LogoutTypes, LeftOK, Clean,
        BeingAdded, Polls, OthersPoll
<1>1. CASE Start \/ FirstUse
  BY <1>1 DEF Start, FirstUse
<1>2. CASE Crash
  BY <1>2, AccountsAssumption DEF Crash
<1>3. ASSUME NEW l \in Apis, LoadUserLogin(l) PROVE LeftOK'
  <2>1. Stored(l) /\ UNCHANGED <<rows, ended, residue, call, api, out, outClient, outPc>>
    BY <1>3 DEF LoadUserLogin
  <2>2. loops \subseteq loops' /\ \A k \in Apis \ {l} : Polls(k)' => Polls(k)
    <3>1. loops' = loops \cup {<<l, clients'[l]>>}
      BY <1>3 DEF LoadUserLogin
    <3>2. QED
      BY <3>1, OtherLogins
  <2>3. \A k \in Apis \ (logins \cup residue) : Clean(k)' \/ BeingAdded(k)'
    BY <2>1, <2>2
  <2>4. OthersPoll => OthersPoll'
    BY <2>1, <2>2
  <2> HIDE DEF Clean, Polls, OthersPoll, BeingAdded
  <2>5. QED
    BY <2>1, <2>3, <2>4
<1>4. ASSUME NEW l \in Apis, LoadFails(l) PROVE LeftOK'
  BY <1>4 DEF LoadFails
<1>5. ASSUME NEW l \in Apis, SetPollCursor(l) PROVE LeftOK'
  <2>1. PICK c \in loops : c[1] = l
    BY <1>5 DEF SetPollCursor
  <2>2. Polls(l) /\ c = <<l, c[2]>>
    BY <2>1, LoopIsPair
  <2>3. outPc = "remove" /\ l = out => OthersPoll
    BY <2>1, <2>2
  <2>4. /\ cursors' = cursors \cup {l} /\ residue \subseteq residue'
        /\ outPc = "disconnect" /\ l = out => out \in residue'
        /\ UNCHANGED <<accounts, logins, loops, ended, call, api, out, outClient, outPc>>
    BY <1>5 DEF SetPollCursor
  <2>5. \A k \in Apis \ (logins \cup residue) : Clean(k)' \/ BeingAdded(k)'
    BY <2>2, <2>4
  <2>6. OthersPoll' = OthersPoll /\ Stored(out)' = Stored(out)
    BY <2>4
  <2> HIDE DEF Clean, Polls, OthersPoll, BeingAdded, Stored
  <2>7. QED
    BY <2>3, <2>4, <2>5, <2>6
<1>6. QED
  BY <1>1, <1>2, <1>3, <1>4, <1>5 DEF Bridge

\* The logout: what it does not delete, it records.
LEMMA LeftLogoutStep ==
  ASSUME IInv, LeftOK, Logout
  PROVE  LeftOK'
<1> USE DEF IInv, TypeOK, StoreTypes, ProcessTypes, FormTypes, LogoutTypes, LeftOK, Clean,
        BeingAdded, Polls, OthersPoll
<1>1. ASSUME NEW l \in Apis, LogoutRemote(l) PROVE LeftOK'
  BY <1>1 DEF LogoutRemote
<1>2. CASE DeleteAccount
  BY <1>2 DEF DeleteAccount
<1>3. CASE DeleteCursors
  BY <1>3 DEF DeleteCursors
<1>4. CASE DeleteFails
  BY <1>4 DEF DeleteFails
<1>5. CASE Disconnect
  BY <1>5 DEF Disconnect
<1>6. CASE RemoveLogin
  <2>1. /\ out \in Apis /\ <<out, outClient>> \notin loops
        /\ logins' = logins \ {out} /\ out' = "none" /\ outPc' = "none"
        /\ residue' = IF OthersPoll THEN residue \cup {out} ELSE residue
        /\ UNCHANGED <<accounts, cursors, loops, ended, call, api>>
    BY <1>6 DEF RemoveLogin
  <2>2. ~OthersPoll => ~Polls(out)
    <3>1. \A c \in loops : c = <<c[1], c[2]>>
      BY LoopIsPair
    <3>2. QED
      BY <2>1, <3>1
  <2>3. out \notin residue' => Clean(out)
    BY <1>6, <2>1, <2>2 DEF RemoveLogin
  <2>4. \A l \in Apis : Clean(l)' = Clean(l) /\ BeingAdded(l)' = BeingAdded(l)
    BY <2>1
  <2> HIDE DEF Clean, Polls, OthersPoll, BeingAdded
  <2>5. QED
    BY <2>1, <2>3, <2>4, AccountsAssumption
<1>7. QED
  BY <1>1, <1>2, <1>3, <1>4, <1>5, <1>6 DEF Logout

\* Credentials and cursors without a login are left only by the failures, the
\* late cursor and the ends of the process that residue records.
THEOREM NothingIsLeft == Spec => []NothingLeftBehind
<1>1. Init => LeftOK
  BY AccountsAssumption DEF Init, LeftOK, Clean, Polls, NoKey
<1>2. IInv /\ LeftOK /\ [Next]_vars => LeftOK'
  <2>1. CASE Next
    BY <2>1, LeftLoginStep, LeftBridgeStep, LeftLogoutStep DEF Next
  <2>2. CASE UNCHANGED vars
    BY <2>2 DEF vars, LeftOK, Clean, BeingAdded, Polls, OthersPoll
  <2>3. QED
    BY <2>1, <2>2
<1>3. LeftOK => NothingLeftBehind
  BY DEF LeftOK, Clean, BeingAdded, NothingLeftBehind
<1>4. QED
  BY <1>1, <1>2, <1>3, Invariant, PTL DEF Spec
=============================================================================
