------------------------------ MODULE Contacts ------------------------------
(***************************************************************************)
(* Contact names: the VoIP.ms phonebook of each login's account, the cache *)
(* every login keeps of it (pkg/connector/client.go), and what reads and   *)
(* writes them: a room renamed in the Matrix client (room_meta.go), the    *)
(* commands rename and sync (commands.go), and the framework's requests    *)
(* for a ghost's name (connector.go).                                      *)
(*                                                                         *)
(* Each of those runs in a goroutine of its own and calls VoIP.ms in its   *)
(* course; a call reads or writes at VoIP.ms at one moment and answers at  *)
(* a later one, or fails.  The logins are those of one Matrix user.        *)
(***************************************************************************)
EXTENDS Integers, Sequences, FiniteSets

CONSTANTS
  Logins,    \* the clients; each has an account of its own
  Numbers,   \* phone numbers
  Owns,      \* of each login, its numbers: OwnsDID
  Rooms,     \* conversation rooms
  LoginOf,   \* the login whose account the room is of
  PeerOf,    \* whom it is with
  Names,     \* what people call each other
  Books,     \* the phonebooks there may be at first
  Jobs,      \* bound: the requests there are, each handled by one goroutine
  MaxEvents  \* bound: changes made on the VoIP.ms site and caches that expire

Nameless == ""

ASSUME NamesAssumption == Nameless \notin Names
ASSUME JobsAssumption == "none" \notin Jobs
ASSUME LoginsAssumption ==
  /\ Owns \in [Logins -> SUBSET Numbers]
  /\ LoginOf \in [Rooms -> Logins] /\ PeerOf \in [Rooms -> Numbers]
ASSUME BooksAssumption ==
  Books \subseteq [Logins -> Seq([number : Numbers, name : Names])]

VARIABLES
  book,      \* API: the phonebook of each login's account
  cache,     \* phonebook: the names a client read
  at,        \* phonebookAt: "never", "read", or "failed" a minute ago at most
  lock,      \* phonebookMu: the job that holds it
  job,       \* what each goroutine does
  shown,     \* the names of the rooms
  events,    \* changes made on the site and caches that expired
  outdated,  \* history: the logins whose last lookup read before they were told
             \* to forget
  outrun,    \* history: the jobs whose phonebook changed since they read it
  alone      \* history: the jobs that no edit, failure or other job disturbed

site    == <<book, events>>
caches  == <<cache, at, lock>>
history == <<outdated, outrun, alone>>
vars == <<site, caches, job, shown, history>>

Free == "none"
Nobody == "none"

\* Bound: names are given to those there is a room with.
Peers == {PeerOf[r] : r \in Rooms}

Idle == [step |-> "idle"]
Done == [step |-> "done"]

Init ==
  /\ book \in Books
  /\ cache = [c \in Logins |-> [n \in Numbers |-> Nameless]]
  /\ at = [c \in Logins |-> "never"]
  /\ lock = [c \in Logins |-> Free]
  /\ job = [j \in Jobs |-> Idle]
  /\ shown = [r \in Rooms |-> Nameless]
  /\ events = 0
  /\ outdated = {} /\ outrun = {} /\ alone = {}

Step(j, step) == job[j].step = step

-----------------------------------------------------------------------------
(* The phonebook at VoIP.ms.  Entries are identified by their positions.   *)

Entries(c, n) == {i \in 1 .. Len(book[c]) : book[c][i].number = n}

Create(c, n, name) == Append(book[c], [number |-> n, name |-> name])
Update(c, i, name) == [book[c] EXCEPT ![i].name = name]

Changes(j, c, contents) ==
  /\ book' = [book EXCEPT ![c] = contents]
  /\ outrun' = (outrun \cup {k \in Jobs : Step(k, "set") /\ job[k].login = c}) \ {j}

Event == events < MaxEvents /\ events' = events + 1

\* The user changes an entry on the site, or makes one for a new number.
EditOnSite(c, n, name) ==
  /\ Event
  /\ IF Entries(c, n) = {} THEN Changes(Nobody, c, Create(c, n, name))
     ELSE \E i \in Entries(c, n) : Changes(Nobody, c, Update(c, i, name))
  /\ alone' = {}
  /\ UNCHANGED <<caches, job, shown, outdated>>

-----------------------------------------------------------------------------
(* Requests.                                                               *)

\* Jobs that change names work alone if no other is under way.
Working == {j \in Jobs : job[j].step # "idle" /\ job[j].step # "done"
                         /\ job[j].kind # "ghost"}
Begin(j, kind) ==
  /\ Step(j, "idle")
  /\ alone' = IF kind = "ghost" THEN alone
              ELSE IF Working = {} THEN alone \cup {j} ELSE alone \ Working

\* A job's locals: the login, number and name it is about, what GetPhonebook
\* answered, the logins it must still invalidate or ask, the rooms to refresh and
\* the one it refreshes, the phonebook a lookup reads, and the name it gave.
Job(kind, c, n, name) ==
  [kind |-> kind, step |-> "get", login |-> c, number |-> n, name |-> name,
   entry |-> 0, forget |-> {}, ask |-> {}, rooms |-> {}, room |-> {},
   page |-> <<>>, got |-> Nameless]

\* rename: in whichever login of the user comes first.
BeginRename(j, c, n, name) ==
  /\ Begin(j, "rename")
  /\ job' = [job EXCEPT ![j] = Job("rename", c, n, name)]
  /\ UNCHANGED <<site, caches, shown, outdated, outrun>>

\* HandleMatrixRoomName: the portal loop handles one event of a room at a time.
BeginRoomName(j, r, name) ==
  /\ Begin(j, "room name")
  /\ \A k \in Working : ~(job[k].kind = "room name" /\ job[k].room = {r})
  /\ name # shown[r]
  /\ job' = [job EXCEPT ![j] =
               [Job("room name", LoginOf[r], PeerOf[r], name)
                  EXCEPT !.room = {r}]]
  /\ UNCHANGED <<site, caches, shown, outdated, outrun>>

\* sync: every login, every room.
BeginSync(j) ==
  /\ Begin(j, "sync")
  /\ job' = [job EXCEPT ![j] =
               [Job("sync", Nobody, Nobody, Nameless)
                  EXCEPT !.step = "forget", !.forget = Logins, !.rooms = Rooms]]
  /\ UNCHANGED <<site, caches, shown, outdated, outrun>>

\* The framework asks for the name of a ghost.
BeginGhost(j, n) ==
  /\ Begin(j, "ghost")
  /\ job' = [job EXCEPT ![j] = [Job("ghost", Nobody, n, Nameless)
                                   EXCEPT !.step = "ghost", !.ask = Logins]]
  /\ UNCHANGED <<site, caches, shown, outdated, outrun>>

Goes(j, step) == job' = [job EXCEPT ![j].step = step]
Returns(j) == job' = [job EXCEPT ![j] = Done]

-----------------------------------------------------------------------------
(* SetContactName: GetPhonebook, then setPhonebook for the entry found.    *)

\* Mutant: a number is looked for in another form than it was stored.
FindsNone(c, n) == 0

\* The first entry of the number, 0 for none.
Found(c, n) ==
  IF Entries(c, n) = {} THEN 0
  ELSE CHOOSE i \in Entries(c, n) : \A other \in Entries(c, n) : i <= other

GetPhonebook(j) ==
  /\ Step(j, "get")
  /\ job' = [job EXCEPT ![j].step = "set",
                        ![j].entry = Found(job[j].login, job[j].number)]
  /\ outrun' = outrun \ {j}
  /\ UNCHANGED <<site, caches, shown, outdated, alone>>

Upsert(c, n, i, name) == IF i # 0 THEN Update(c, i, name) ELSE Create(c, n, name)
Written(j) ==
  Changes(j, job[j].login,
          Upsert(job[j].login, job[j].number, job[j].entry, job[j].name))

\* Every login must forget what it read; rename goes on to the rooms with the
\* number.
SetPhonebook(j) ==
  /\ Step(j, "set")
  /\ Written(j)
  /\ job' = [job EXCEPT ![j].step = "forget", ![j].forget = Logins,
               ![j].entry = 0,
               ![j].rooms = IF job[j].kind = "rename"
                            THEN {r \in Rooms : PeerOf[r] = job[j].number} ELSE {}]
  /\ UNCHANGED <<events, caches, shown, outdated, alone>>

\* A call fails: the job ends with an error, and the caches stay.  The failure
\* may be the answer's alone.
CallFails(j) ==
  /\ \/ Step(j, "get") /\ UNCHANGED <<book, outrun>>
     \/ Step(j, "set") /\ UNCHANGED <<book, outrun>>
     \/ Step(j, "set") /\ Written(j)
  /\ Returns(j)
  /\ alone' = {}
  /\ UNCHANGED <<events, caches, shown, outdated>>

-----------------------------------------------------------------------------
(* The cache of one login.                                                 *)

\* Mutant: it does not wait for a lookup that reads.
ForgetAnyway(j, c) ==
  /\ Step(j, "forget") /\ c \in job[j].forget
  /\ at' = [at EXCEPT ![c] = "never"]
  /\ outdated' = outdated \cup {c}
  /\ job' = [job EXCEPT ![j].forget = @ \ {c}]
  /\ UNCHANGED <<site, cache, lock, shown, outrun, alone>>

InvalidatePhonebook(j, c) ==
  /\ Step(j, "forget") /\ c \in job[j].forget
  /\ lock[c] = Free
  /\ at' = [at EXCEPT ![c] = "never"]
  /\ outdated' = outdated \cup {c}
  /\ job' = [job EXCEPT ![j].forget = @ \ {c}]
  /\ UNCHANGED <<site, cache, lock, shown, outrun, alone>>

\* The time a cache is good for is over: the 15 minutes after an answer, the
\* minute after a failure.
CacheExpires(c) ==
  /\ at[c] # "never" /\ lock[c] = Free
  /\ Event
  /\ at' = [at EXCEPT ![c] = "never"]
  /\ UNCHANGED <<book, cache, lock, job, shown, history>>

\* A ghost's name is found, or nobody knows one: rename and sync go on, a room
\* that was renamed keeps its name.  (The profile of the ghost is updated; nothing
\* here reads it.)
GhostNamed(j) ==
  IF job[j].kind \in {"rename", "sync"}
  THEN /\ job' = [job EXCEPT ![j].step = "forget", ![j].room = {}, ![j].ask = {},
                            ![j].page = <<>>]
       /\ UNCHANGED shown
  ELSE /\ Returns(j)
       /\ shown' = [r \in Rooms |-> IF r \in job[j].room THEN job[j].name ELSE shown[r]]

\* ContactName in login c gives a name: to a room, or to a ghost if there is one;
\* otherwise the next login is asked.
Named(j, c, name) ==
  IF Step(j, "room")
  THEN /\ job' = [job EXCEPT ![j].step = "show", ![j].got = name, ![j].page = <<>>]
       /\ UNCHANGED shown
  ELSE IF name # Nameless THEN GhostNamed(j)
  ELSE /\ job' = [job EXCEPT ![j].ask = @ \ {c}, ![j].page = <<>>]
       /\ UNCHANGED shown

\* Whom it asks: a room's own login, for a ghost any that does not own the number.
Asks(j, c) ==
  /\ \/ Step(j, "room") /\ \E r \in job[j].room : c = LoginOf[r]
     \/ Step(j, "ghost") /\ c \in job[j].ask /\ job[j].number \notin Owns[c]
  /\ job[j].page = <<>>

CachedName(j, c) ==
  /\ Asks(j, c)
  /\ lock[c] = Free /\ at[c] # "never"
  /\ Named(j, c, cache[c][job[j].number])
  /\ UNCHANGED <<site, caches, history>>

\* The name of each number's last entry.
Contents(c) ==
  [n \in Numbers |->
     IF Entries(c, n) = {} THEN Nameless
     ELSE book[c][CHOOSE i \in Entries(c, n) :
                    \A other \in Entries(c, n) : other <= i].name]

\* GetPhonebook reads at VoIP.ms; the mutex is held until it answers.
ReadPhonebook(j, c) ==
  /\ Asks(j, c)
  /\ lock[c] = Free /\ at[c] = "never"
  /\ lock' = [lock EXCEPT ![c] = j]
  /\ job' = [job EXCEPT ![j].page = Contents(c)]
  /\ outdated' = outdated \ {c}
  /\ UNCHANGED <<site, cache, at, shown, outrun, alone>>

CacheNames(j, c) ==
  /\ lock[c] = j
  /\ lock' = [lock EXCEPT ![c] = Free]
  /\ cache' = [cache EXCEPT ![c] = job[j].page]
  /\ at' = [at EXCEPT ![c] = "read"]
  /\ Named(j, c, job[j].page[job[j].number])
  /\ UNCHANGED <<site, history>>

\* Mutant: the mutex stays locked after a failure.
KeepsLock(j, c) ==
  /\ lock[c] = j
  /\ at' = [at EXCEPT ![c] = "failed"]
  /\ Named(j, c, cache[c][job[j].number])
  /\ alone' = {}
  /\ UNCHANGED <<site, cache, lock, outdated, outrun>>

\* The names it has are kept, and for a minute it does not try again.
KeepNames(j, c) ==
  /\ lock[c] = j
  /\ lock' = [lock EXCEPT ![c] = Free]
  /\ at' = [at EXCEPT ![c] = "failed"]
  /\ Named(j, c, cache[c][job[j].number])
  /\ alone' = {}
  /\ UNCHANGED <<site, cache, outdated, outrun>>

-----------------------------------------------------------------------------
(* Rooms and ghosts.                                                       *)

\* Mutant: rooms are refreshed before all the logins have forgotten.
RefreshesEarly(j) ==
  /\ Step(j, "forget")
  /\ IF job[j].kind = "room name"
     THEN job' = [job EXCEPT ![j].step = "ghost", ![j].ask = Logins]
     ELSE IF job[j].rooms = {} THEN Returns(j)
     ELSE \E r \in job[j].rooms :
            job' = [job EXCEPT ![j].step = "room", ![j].room = {r},
                      ![j].rooms = @ \ {r}, ![j].number = PeerOf[r]]
  /\ UNCHANGED <<site, caches, shown, history>>

\* rename and sync go through their rooms; a renamed room has its name, and
\* only its ghost is refreshed.
NextRoom(j) ==
  /\ Step(j, "forget") /\ job[j].forget = {}
  /\ IF job[j].kind = "room name"
     THEN job' = [job EXCEPT ![j].step = "ghost", ![j].ask = Logins]
     ELSE IF job[j].rooms = {} THEN Returns(j)
     ELSE \E r \in job[j].rooms :
            job' = [job EXCEPT ![j].step = "room", ![j].room = {r},
                      ![j].rooms = @ \ {r}, ![j].number = PeerOf[r]]
  /\ UNCHANGED <<site, caches, shown, history>>

\* portal.UpdateInfo with what GetChatInfo said, then GetUserInfo for the peer.
UpdateRoom(j) ==
  /\ Step(j, "show")
  /\ shown' = [r \in Rooms |-> IF r \in job[j].room THEN job[j].got ELSE shown[r]]
  /\ job' = [job EXCEPT ![j].step = "ghost", ![j].ask = Logins, ![j].got = Nameless]
  /\ UNCHANGED <<site, caches, history>>

\* The number is a login's own, or no login has a name for it.
NoContact(j) ==
  /\ Step(j, "ghost") /\ job[j].page = <<>>
  /\ job[j].ask = {} \/ \E c \in job[j].ask : job[j].number \in Owns[c]
  /\ GhostNamed(j)
  /\ UNCHANGED <<site, caches, history>>

-----------------------------------------------------------------------------
ContactName(j, c) ==
  CachedName(j, c) \/ ReadPhonebook(j, c) \/ CacheNames(j, c) \/ KeepNames(j, c)

Next ==
  \/ \E c \in Logins, n \in Peers, name \in Names : EditOnSite(c, n, name)
  \/ \E c \in Logins : CacheExpires(c)
  \/ \E j \in Jobs :
       \/ \E c \in Logins, n \in Peers, name \in Names : BeginRename(j, c, n, name)
       \/ \E r \in Rooms, name \in Names : BeginRoomName(j, r, name)
       \/ BeginSync(j) \/ \E n \in Numbers : BeginGhost(j, n)
       \/ GetPhonebook(j) \/ SetPhonebook(j) \/ CallFails(j)
       \/ \E c \in Logins : InvalidatePhonebook(j, c) \/ ContactName(j, c)
       \/ NextRoom(j) \/ UpdateRoom(j) \/ NoContact(j)

Spec == Init /\ [][Next]_vars
-----------------------------------------------------------------------------
(* What names promise.                                                     *)

Steps == {"get", "set", "forget", "room", "show", "ghost"}
Shown == Names \cup {Nameless}
Pages == [Numbers -> Shown]

\* A job's number is set before anything is looked up, its login and name before
\* anything is written.
JobShape(x) ==
  /\ x \in [kind : {"rename", "room name", "sync", "ghost"}, step : Steps,
            login : Logins \cup {Nobody}, number : Numbers \cup {Nobody},
            name : Shown, entry : Nat, forget : SUBSET Logins, ask : SUBSET Logins,
            rooms : SUBSET Rooms, room : SUBSET Rooms, page : Pages \cup {<<>>},
            got : Shown]
  /\ (x.kind = "sync" /\ x.step = "forget") \/ x.number \in Numbers
  /\ x.step \in {"get", "set"} => x.login \in Logins /\ x.name \in Names
  /\ x.entry # 0 => x.step = "set"
  /\ x.page # <<>> => x.step \in {"room", "ghost"}

\* What it found is an entry of the number still.
JobOK(x) ==
  JobShape(x) /\ (x.entry # 0 => x.entry \in Entries(x.login, x.number))

TypeOK ==
  /\ book \in [Logins -> Seq([number : Numbers, name : Names])]
  /\ cache \in [Logins -> Pages]
  /\ at \in [Logins -> {"never", "read", "failed"}]
  /\ lock \in [Logins -> Jobs \cup {Free}]
  /\ \A j \in Jobs : job[j] \in {Idle, Done} \/ JobOK(job[j])
  /\ \A c \in Logins :
       lock[c] # Free => /\ JobOK(job[lock[c]]) /\ job[lock[c]].page # <<>>
                         /\ at[c] = "never"
  /\ shown \in [Rooms -> Shown]
  /\ outdated \subseteq Logins /\ outrun \subseteq Jobs /\ alone \subseteq Jobs

\* What a login takes for fresh was read at VoIP.ms after the last time it was
\* told to forget: a lookup that was under way meanwhile cannot bring the names
\* of before back.
FreshIsCurrent == \A c \in Logins : at[c] = "read" => c \notin outdated

\* A number gets a second entry only if the phonebook was changed between
\* SetContactName's two calls.
OneEntryEach ==
  [][\A j \in Jobs \ outrun : Step(j, "set") /\ job'[j] # job[j] =>
       \A c \in Logins, n \in Numbers :
         Entries(c, n)' = Entries(c, n) \/ Cardinality(Entries(c, n)') = 1]_vars

\* A rename or sync that nothing disturbed leaves every room it went to with
\* the name that its account's phonebook has for the number, whatever lookups
\* ran meanwhile; and that is the name it was given, if the number has one entry
\* in the account it chose.
NamesReach ==
  [][\A j \in alone \cap alone' :
       job[j] # Done /\ job'[j] = Done /\ job[j].kind \in {"rename", "sync"} =>
         \A r \in Rooms :
           LET c == LoginOf[r]  n == PeerOf[r]
           IN  /\ job[j].kind = "sync" \/ n = job[j].number
                    => shown[r] = Contents(c)[n]
               /\ /\ job[j].kind = "rename" /\ n = job[j].number
                  /\ c = job[j].login /\ Cardinality(Entries(c, n)) = 1
                  => shown[r] = job[j].name]_vars
=============================================================================
