--------------------------- MODULE ContactsProofs ---------------------------
(***************************************************************************)
(* A lookup that was under way when a login was told to forget its names   *)
(* cannot bring them back; SetContactName makes a second entry of a number *)
(* only if the phonebook changed between its two calls; and an undisturbed *)
(* rename or sync leaves its rooms with the phonebook's names: for every   *)
(* set of logins, rooms and requests.                                      *)
(***************************************************************************)
EXTENDS Contacts, FiniteSetTheorems, WellFoundedInduction, TLAPS

-----------------------------------------------------------------------------
(* Phonebooks.                                                             *)

\* A number has a first entry and a last one.
LEMMA Least ==
  ASSUME NEW S \in SUBSET Nat, S # {}
  PROVE  \E i \in S : \A k \in S : i <= k
<1> DEFINE Below == {x \in Nat \X Nat : x[1] < x[2]}
<1>1. IsWellFoundedOn(Below, Nat)
  BY NatLessThanWellFounded DEF OpToRel
<1> HIDE DEF Below
<1>2. PICK i \in S : \A k \in S : ~(<<k, i>> \in Below)
  BY <1>1, WFMin
<1>3. \A k \in S : ~(k < i)
  BY <1>2 DEF Below
<1> QED
  BY <1>3

LEMMA Greatest ==
  ASSUME NEW n \in Nat, NEW S \in SUBSET (1 .. n), S # {}
  PROVE  \E i \in S : \A k \in S : k <= i
<1> DEFINE T == {n - k : k \in S}
<1>1. T \in SUBSET Nat /\ T # {}
  <2>1. \A k \in S : n - k \in Nat
    OBVIOUS
  <2>2. PICK k \in S : TRUE
    OBVIOUS
  <2>3. n - k \in T
    BY <2>2
  <2> QED
    BY <2>1, <2>3
<1>2. PICK l \in T : \A m \in T : l <= m
  <2> HIDE DEF T
  <2> QED
    BY <1>1, Least
<1>3. PICK i \in S : l = n - i
  OBVIOUS
<1>4. \A k \in S : n - i <= n - k
  BY <1>2, <1>3
<1> QED
  BY <1>4

Entry == [number : Numbers, name : Names]
Site == book \in [Logins -> Seq(Entry)]

\* The positions of a number's entries in a phonebook.
Matches(b, n) == {i \in 1 .. Len(b) : b[i].number = n}

\* What SetContactName and the site may write.
LEMMA WrittenBook ==
  ASSUME Site, NEW c \in Logins, NEW n \in Numbers, NEW i \in Nat, NEW name \in Names,
         i # 0 => i \in Entries(c, n)
  PROVE  LET w == Upsert(c, n, i, name)
         IN  /\ w \in Seq(Entry)
             /\ \A m : m # n => Matches(w, m) = Matches(book[c], m)
             /\ Matches(w, n) = IF i = 0 THEN Matches(book[c], n) \cup {Len(book[c]) + 1}
                                ELSE Matches(book[c], n)
             /\ Len(book[c]) + 1 \notin Matches(book[c], n)
<1> DEFINE b == book[c]
           w == Upsert(c, n, i, name)
<1>1. b \in Seq(Entry) /\ Len(b) \in Nat /\ \A k \in 1 .. Len(b) : b[k] \in Entry
  BY DEF Site
<1>2. CASE i = 0
  <2> DEFINE e == [number |-> n, name |-> name]
  <2>1. w = Append(b, e) /\ e \in Entry /\ e.number = n
    BY <1>2 DEF Upsert, Create, Entry
  <2> HIDE DEF e, w
  <2>2. /\ w \in Seq(Entry) /\ Len(w) = Len(b) + 1 /\ w[Len(b) + 1] = e
        /\ \A k \in 1 .. Len(b) : w[k] = b[k]
    BY <1>1, <2>1
  <2>3. 1 .. Len(w) = (1 .. Len(b)) \cup {Len(b) + 1} /\ Len(b) + 1 \notin 1 .. Len(b)
    BY <1>1, <2>2
  <2> HIDE DEF b
  <2> QED
    BY <1>2, <2>1, <2>2, <2>3 DEF Matches, b, w
<1>3. CASE i # 0
  <2>1. i \in 1 .. Len(b) /\ b[i].number = n /\ b[i] \in Entry
    BY <1>1, <1>3 DEF Entries
  <2>2. w = [b EXCEPT ![i] = [b[i] EXCEPT !.name = name]]
    BY <1>3 DEF Upsert, Update
  <2>3. [b[i] EXCEPT !.name = name] \in Entry /\ [b[i] EXCEPT !.name = name].number = n
    BY <2>1 DEF Entry
  <2> DEFINE e == [b[i] EXCEPT !.name = name]
  <2> HIDE DEF e, w
  <2>4. /\ w \in Seq(Entry) /\ Len(w) = Len(b) /\ w[i] = e
        /\ \A k \in 1 .. Len(b) : k # i => w[k] = b[k]
    BY <1>1, <2>1, <2>2, <2>3 DEF e
  <2>5. \A m : Matches(w, m) = Matches(b, m)
    BY <2>1, <2>3, <2>4 DEF Matches, e
  <2>6. Len(b) + 1 \notin Matches(b, n)
    BY <1>1 DEF Matches
  <2> QED
    BY <1>3, <2>4, <2>5, <2>6 DEF w
<1> QED
  BY <1>2, <1>3

-----------------------------------------------------------------------------
(* Types.                                                                  *)

\* What a job found is an entry of the phonebooks.
JobFits(x, books) ==
  JobShape(x) /\ (x.entry # 0 => x.entry \in Matches(books[x.login], x.number))
Fits(x, books) == x = Idle \/ x = Done \/ JobFits(x, books)

JobTypes == job = [j \in Jobs |-> job[j]] /\ \A j \in Jobs : Fits(job[j], book)
CacheTypes ==
  /\ cache \in [Logins -> Pages] /\ at \in [Logins -> {"never", "read", "failed"}]
  /\ lock \in [Logins -> Jobs \cup {Free}]
\* A lookup that reads holds one lock, and the cache it reads is out of date.
Reading(time, x) == JobShape(x) /\ x.page # <<>> /\ time = "never"
Locks ==
  /\ \A c \in Logins : lock[c] # Free => Reading(at[c], job[lock[c]])
  /\ \A c, d \in Logins : lock[c] # Free /\ lock[c] = lock[d] => c = d
RestTypes == /\ shown \in [Rooms -> Shown]
             /\ outdated \subseteq Logins /\ outrun \subseteq Jobs /\ alone \subseteq Jobs

Types == Site /\ JobTypes /\ CacheTypes /\ Locks /\ RestTypes

LEMMA JobsFit == \A x : JobOK(x) <=> JobFits(x, book)
BY DEF JobOK, JobFits, Entries, Matches

LEMMA TypesOK == Types => TypeOK
<1> SUFFICES ASSUME Types PROVE TypeOK
  OBVIOUS
<1>1. \A j \in Jobs : job[j] \in {Idle, Done} \/ JobOK(job[j])
  BY JobsFit DEF Types, JobTypes, Fits
<1>2. ASSUME NEW c \in Logins, lock[c] # Free
      PROVE  JobOK(job[lock[c]]) /\ job[lock[c]].page # <<>> /\ at[c] = "never"
  <2>1. lock[c] \in Jobs /\ Reading(at[c], job[lock[c]])
    BY <1>2 DEF Types, CacheTypes, Locks
  <2>2. JobShape(job[lock[c]]) /\ job[lock[c]].step \in Steps
    BY <2>1 DEF Reading, JobShape
  <2>3. job[lock[c]] # Idle /\ job[lock[c]] # Done
    BY <2>2 DEF Idle, Done, Steps
  <2> QED
    BY <1>1, <2>1, <2>3 DEF Reading
<1> QED
  BY <1>1, <1>2 DEF Types, Site, Entry, CacheTypes, RestTypes, TypeOK

LEMMA TypesInit == Init => Types
<1> SUFFICES ASSUME Init PROVE Types
  OBVIOUS
<1>1. Site
  BY BooksAssumption DEF Init, Site, Entry
<1>2. JobTypes
  BY DEF Init, JobTypes, Fits
<1>3. CacheTypes /\ RestTypes
  BY DEF Init, CacheTypes, RestTypes, Pages, Shown
<1>4. Locks
  BY DEF Init, Locks
<1> QED
  BY <1>1, <1>2, <1>3, <1>4 DEF Types

\* A job goes on and the phonebooks keep their entries: it must fit.
LEMMA JobMoves ==
  ASSUME JobTypes, NEW j \in Jobs, NEW y, job' = [job EXCEPT ![j] = y],
         Fits(y, book'),
         \A c \in Logins, n \in Numbers : Matches(book[c], n) \subseteq Matches(book'[c], n)
  PROVE  JobTypes'
<1>1. job' = [k \in Jobs |-> job'[k]]
  BY DEF JobTypes
<1>2. ASSUME NEW k \in Jobs PROVE Fits(job'[k], book')
  <2>1. CASE k = j
    BY <2>1 DEF JobTypes
  <2>2. CASE k # j
    <3>1. job'[k] = job[k] /\ Fits(job[k], book)
      BY <2>2 DEF JobTypes
    <3>2. CASE JobFits(job[k], book)
      <4>1. job[k].entry # 0 => job[k].login \in Logins /\ job[k].number \in Numbers
        BY <3>2 DEF JobFits, JobShape
      <4> QED
        BY <3>1, <3>2, <4>1 DEF Fits, JobFits
    <3> QED
      BY <3>1, <3>2 DEF Fits
  <2> QED
    BY <2>1, <2>2
<1> QED
  BY <1>1, <1>2 DEF JobTypes

\* A job without a page holds no lock.
LEMMA HoldsNone ==
  ASSUME Types, NEW j \in Jobs, job[j] = Idle \/ job[j].page = <<>>
  PROVE  \A c \in Logins : lock[c] # j
<1> SUFFICES ASSUME NEW c \in Logins, lock[c] = j PROVE FALSE
  OBVIOUS
<1>1. lock[c] # Free
  BY JobsAssumption DEF Free
<1>2. JobShape(job[j]) /\ job[j].page # <<>>
  BY <1>1 DEF Types, Locks, Reading
<1>3. job[j].step \in Steps
  BY <1>2 DEF JobShape
<1> QED
  BY <1>2, <1>3 DEF Idle, Steps

\* The locks stay when such a job goes on.
LEMMA LocksStay ==
  ASSUME Types, NEW j \in Jobs, NEW y, job' = [job EXCEPT ![j] = y],
         \A c \in Logins : lock[c] # j,
         lock' = lock, \A c \in Logins : at'[c] = at[c] \/ lock[c] = Free
  PROVE  Locks'
<1>1. \A k \in Jobs : k # j => job'[k] = job[k]
  BY DEF Types, JobTypes
<1>2. ASSUME NEW c \in Logins, lock'[c] # Free
      PROVE  Reading(at[c], job[lock[c]]) /\ job'[lock'[c]] = job[lock[c]] /\ at'[c] = at[c]
  BY <1>1, <1>2 DEF Types, Locks, CacheTypes
<1> QED
  BY <1>2 DEF Types, Locks, Reading

\* Most steps leave a job with nothing found and nothing read.
Plain(y) ==
  y = Done \/ (JobShape(y) /\ y.entry = 0 /\ y.page = <<>> /\ y.step # "set")

LEMMA Begun ==
  ASSUME NEW j \in Jobs, JobTypes,
         \/ \E c \in Logins, n \in Peers, name \in Names : BeginRename(j, c, n, name)
         \/ \E r \in Rooms, name \in Names : BeginRoomName(j, r, name)
         \/ BeginSync(j) \/ \E n \in Numbers : BeginGhost(j, n)
  PROVE  job[j] = Idle /\ \E y : Plain(y) /\ job' = [job EXCEPT ![j] = y]
<1>1. job[j] = Idle
  <2>1. job[j].step = "idle"
    BY DEF BeginRename, BeginRoomName, BeginSync, BeginGhost, Begin, Step
  <2>2. \A x : JobShape(x) => x.step \in Steps
    BY DEF JobShape
  <2> QED
    BY <2>1, <2>2 DEF JobTypes, Fits, JobFits, Done, Steps
<1>2. Peers \subseteq Numbers
  BY LoginsAssumption DEF Peers
<1>3. ASSUME NEW c \in Logins, NEW n \in Peers, NEW name \in Names,
             BeginRename(j, c, n, name)
      PROVE  \E y : Plain(y) /\ job' = [job EXCEPT ![j] = y]
  <2>1. Plain(Job("rename", c, n, name))
    BY <1>2 DEF Plain, Job, JobShape, Steps, Shown
  <2> QED
    BY <1>3, <2>1 DEF BeginRename
<1>4. ASSUME NEW r \in Rooms, NEW name \in Names, BeginRoomName(j, r, name)
      PROVE  \E y : Plain(y) /\ job' = [job EXCEPT ![j] = y]
  <2> DEFINE y == [Job("room name", LoginOf[r], PeerOf[r], name) EXCEPT !.room = {r}]
  <2>1. Plain(y)
    BY LoginsAssumption DEF Plain, Job, JobShape, Steps, Shown
  <2> QED
    BY <1>4, <2>1 DEF BeginRoomName
<1>5. ASSUME BeginSync(j)
      PROVE  \E y : Plain(y) /\ job' = [job EXCEPT ![j] = y]
  <2> DEFINE y == [Job("sync", Nobody, Nobody, Nameless)
                     EXCEPT !.step = "forget", !.forget = Logins, !.rooms = Rooms]
  <2>1. Plain(y)
    BY DEF Plain, Job, JobShape, Steps, Shown
  <2> QED
    BY <1>5, <2>1 DEF BeginSync
<1>6. ASSUME NEW n \in Numbers, BeginGhost(j, n)
      PROVE  \E y : Plain(y) /\ job' = [job EXCEPT ![j] = y]
  <2> DEFINE y == [Job("ghost", Nobody, n, Nameless) EXCEPT !.step = "ghost", !.ask = Logins]
  <2>1. Plain(y)
    BY DEF Plain, Job, JobShape, Steps, Shown
  <2> QED
    BY <1>6, <2>1 DEF BeginGhost
<1> QED
  BY <1>1, <1>3, <1>4, <1>5, <1>6

\* A job that is at some step has the locals of one.
LEMMA AtStep ==
  ASSUME JobTypes, NEW j \in Jobs, job[j].step \in Steps
  PROVE  JobFits(job[j], book) /\ JobShape(job[j])
BY DEF JobTypes, Fits, JobFits, Idle, Done, Steps

\* A name was found, or none.
LEMMA NameFound ==
  ASSUME JobTypes, NEW j \in Jobs, job[j].step \in {"room", "ghost"},
         NEW c, NEW name \in Shown, RestTypes,
         GhostNamed(j) \/ Named(j, c, name)
  PROVE  /\ \E y : Plain(y) /\ job' = [job EXCEPT ![j] = y]
         /\ shown' \in [Rooms -> Shown]
<1> DEFINE x == job[j]
<1>1. JobShape(x) /\ x.entry = 0
  BY AtStep DEF JobShape, Steps
<1>2. ASSUME GhostNamed(j)
      PROVE  /\ \E y : Plain(y) /\ job' = [job EXCEPT ![j] = y]
             /\ shown' \in [Rooms -> Shown]
  <2>1. CASE x.kind \in {"rename", "sync"}
    <3> DEFINE y == [x EXCEPT !.step = "forget", !.room = {}, !.ask = {}, !.page = <<>>]
    <3>1. job' = [job EXCEPT ![j] = y] /\ shown' = shown
      BY <1>2, <2>1 DEF GhostNamed, JobTypes
    <3>2. Plain(y)
      BY <1>1, <2>1 DEF Plain, JobShape, Steps
    <3> QED
      BY <3>1, <3>2 DEF RestTypes
  <2>2. CASE x.kind \notin {"rename", "sync"}
    <3>1. job' = [job EXCEPT ![j] = Done] /\ Plain(Done)
      BY <1>2, <2>2 DEF GhostNamed, Returns, Plain
    <3>2. shown' = [r \in Rooms |-> IF r \in x.room THEN x.name ELSE shown[r]]
      BY <1>2, <2>2 DEF GhostNamed
    <3>3. x.name \in Shown
      BY <1>1 DEF JobShape
    <3> QED
      BY <3>1, <3>2, <3>3 DEF RestTypes
  <2> QED
    BY <2>1, <2>2
<1>3. ASSUME Named(j, c, name), ~GhostNamed(j)
      PROVE  /\ \E y : Plain(y) /\ job' = [job EXCEPT ![j] = y]
             /\ shown' \in [Rooms -> Shown]
  <2>1. CASE x.step = "room"
    <3> DEFINE y == [x EXCEPT !.step = "show", !.got = name, !.page = <<>>]
    <3>1. job' = [job EXCEPT ![j] = y] /\ shown' = shown
      BY <1>3, <2>1 DEF Named, Step, JobTypes
    <3>2. Plain(y)
      BY <1>1, <2>1 DEF Plain, JobShape, Steps
    <3> QED
      BY <3>1, <3>2 DEF RestTypes
  <2>2. CASE x.step = "ghost"
    <3> DEFINE y == [x EXCEPT !.ask = x.ask \ {c}, !.page = <<>>]
    <3>1. job' = [job EXCEPT ![j] = y] /\ shown' = shown
      BY <1>3, <2>2 DEF Named, Step, JobTypes
    <3>2. Plain(y)
      BY <1>1, <2>2 DEF Plain, JobShape, Steps
    <3> QED
      BY <3>1, <3>2 DEF RestTypes
  <2> QED
    BY <2>1, <2>2
<1> QED
  BY <1>2, <1>3

\* What is read at VoIP.ms is a name for each number.
LEMMA ContentsType ==
  ASSUME Site, NEW c \in Logins
  PROVE  Contents(c) \in Pages
<1>1. ASSUME NEW n \in Numbers, Entries(c, n) # {}
      PROVE  book[c][CHOOSE i \in Entries(c, n) :
                       \A other \in Entries(c, n) : other <= i].name \in Names
  <2>0. book[c] \in Seq(Entry) /\ Len(book[c]) \in Nat
    BY DEF Site
  <2>1. \E i \in Entries(c, n) : \A other \in Entries(c, n) : other <= i
    <3>1. Entries(c, n) \in SUBSET (1 .. Len(book[c]))
      BY DEF Entries
    <3> QED
      BY <1>1, <2>0, <3>1, Greatest
  <2>2. (CHOOSE i \in Entries(c, n) : \A other \in Entries(c, n) : other <= i)
          \in Entries(c, n)
    BY <2>1
  <2>3. ASSUME NEW i \in Entries(c, n) PROVE book[c][i].name \in Names
    <3>1. i \in 1 .. Len(book[c])
      BY DEF Entries
    <3>2. book[c][i] \in Entry
      BY <2>0, <3>1
    <3> QED
      BY <3>2 DEF Entry
  <2> QED
    BY <2>2, <2>3, Zenon
<1> QED
  BY <1>1 DEF Contents, Pages, Shown

LEMMA JobsStay ==
  ASSUME JobTypes, job' = job,
         \A c \in Logins, n \in Numbers : Matches(book[c], n) \subseteq Matches(book'[c], n)
  PROVE  JobTypes'
<1>1. ASSUME NEW k \in Jobs PROVE Fits(job[k], book')
  <2>1. Fits(job[k], book)
    BY DEF JobTypes
  <2>2. CASE JobFits(job[k], book)
    <3>1. job[k].entry # 0 => job[k].login \in Logins /\ job[k].number \in Numbers
      BY <2>2 DEF JobFits, JobShape
    <3> QED
      BY <2>2, <3>1 DEF Fits, JobFits
  <2> QED
    BY <2>1, <2>2 DEF Fits
<1> QED
  BY <1>1 DEF JobTypes

\* A job that holds no lock goes on, and no phonebook changes.
LEMMA PlainMoves ==
  ASSUME Types, NEW j \in Jobs, NEW y, Plain(y), job' = [job EXCEPT ![j] = y],
         job[j] = Idle \/ job[j].page = <<>>,
         UNCHANGED <<book, cache, lock>>,
         at' \in [Logins -> {"never", "read", "failed"}],
         \A c \in Logins : at'[c] = at[c] \/ lock[c] = Free,
         RestTypes'
  PROVE  Types'
<1>1. Fits(y, book')
  BY DEF Plain, Fits, JobFits
<1>2. JobTypes'
  BY <1>1, JobMoves DEF Types
<1>3. Locks'
  BY HoldsNone, LocksStay
<1> QED
  BY <1>2, <1>3 DEF Types, Site, CacheTypes

\* The phonebook of one login is written.
LEMMA ChangedBook ==
  ASSUME Types, NEW c \in Logins, NEW n \in Numbers, NEW i \in Nat, NEW name \in Names,
         i # 0 => i \in Entries(c, n),
         NEW k, Changes(k, c, Upsert(c, n, i, name))
  PROVE  /\ Site' /\ outrun' \subseteq Jobs
         /\ \A d \in Logins, m \in Numbers : Matches(book[d], m) \subseteq Matches(book'[d], m)
<1>1. /\ book' = [book EXCEPT ![c] = Upsert(c, n, i, name)] /\ outrun' \subseteq Jobs
  BY DEF Changes, Types, RestTypes
<1>2. Upsert(c, n, i, name) \in Seq(Entry)
      /\ \A m : Matches(book[c], m) \subseteq Matches(Upsert(c, n, i, name), m)
  BY WrittenBook DEF Types
<1> QED
  BY <1>1, <1>2 DEF Types, Site

\* What SetPhonebook writes.
LEMMA WrittenTypes ==
  ASSUME Types, NEW j \in Jobs, Step(j, "set"), Written(j)
  PROVE  /\ Site' /\ outrun' \subseteq Jobs
         /\ \A d \in Logins, m \in Numbers : Matches(book[d], m) \subseteq Matches(book'[d], m)
<1> DEFINE x == job[j]
<1>1. JobFits(x, book) /\ x.step = "set"
  BY AtStep DEF Types, Step, Steps
<1>2. x.login \in Logins /\ x.number \in Numbers /\ x.name \in Names /\ x.entry \in Nat
      /\ (x.entry # 0 => x.entry \in Entries(x.login, x.number))
  BY <1>1 DEF JobFits, JobShape, Entries, Matches
<1> QED
  BY <1>2, ChangedBook DEF Written

LEMMA EditTypes ==
  ASSUME Types, NEW c \in Logins, NEW n \in Peers, NEW name \in Names,
         EditOnSite(c, n, name)
  PROVE  Types'
<1>1. n \in Numbers
  BY LoginsAssumption DEF Peers
<1>2. PICK i \in Nat : /\ i # 0 => i \in Entries(c, n)
                      /\ Changes(Nobody, c, Upsert(c, n, i, name))
  <2>1. CASE Entries(c, n) = {}
    BY <2>1 DEF EditOnSite, Upsert
  <2>2. CASE Entries(c, n) # {}
    <3>1. PICK i \in Entries(c, n) : Changes(Nobody, c, Update(c, i, name))
      BY <2>2 DEF EditOnSite
    <3>2. i \in Nat \ {0}
      BY DEF Entries
    <3> QED
      BY <3>1, <3>2 DEF Upsert
  <2> QED
    BY <2>1, <2>2
<1>3. Site' /\ outrun' \subseteq Jobs
      /\ \A d \in Logins, m \in Numbers : Matches(book[d], m) \subseteq Matches(book'[d], m)
  BY <1>1, <1>2, ChangedBook
<1>4. /\ job' = job /\ alone' = {}
      /\ UNCHANGED <<cache, at, lock, shown, outdated>>
  BY DEF EditOnSite, caches
<1>5. JobTypes'
  BY <1>3, <1>4, JobsStay DEF Types
<1>6. Locks'
  BY <1>4 DEF Types, Locks, Reading
<1> QED
  BY <1>3, <1>4, <1>5, <1>6 DEF Types, CacheTypes, RestTypes

LEMMA BeginTypes ==
  ASSUME Types, NEW j \in Jobs,
         \/ \E c \in Logins, n \in Peers, name \in Names : BeginRename(j, c, n, name)
         \/ \E r \in Rooms, name \in Names : BeginRoomName(j, r, name)
         \/ BeginSync(j) \/ \E n \in Numbers : BeginGhost(j, n)
  PROVE  Types'
<1>1. PICK y : Plain(y) /\ job' = [job EXCEPT ![j] = y] /\ job[j] = Idle
  BY Begun DEF Types
<1>2. /\ UNCHANGED <<book, cache, at, lock, shown, outdated, outrun>>
      /\ alone' \subseteq alone \cup {j}
  BY DEF BeginRename, BeginRoomName, BeginSync, BeginGhost, Begin, site, caches
<1>3. RestTypes'
  BY <1>2 DEF Types, RestTypes
<1> QED
  BY <1>1, <1>2, <1>3, PlainMoves DEF Types, CacheTypes

LEMMA FoundIsEntry ==
  ASSUME Site, NEW c \in Logins, NEW n
  PROVE  /\ Found(c, n) \in Nat /\ (Found(c, n) # 0 => Found(c, n) \in Entries(c, n))
         /\ Found(c, n) = 0 => Entries(c, n) = {}
<1>1. CASE Entries(c, n) = {}
  BY <1>1 DEF Found
<1>2. CASE Entries(c, n) # {}
  <2>1. Entries(c, n) \in SUBSET (Nat \ {0})
    BY DEF Entries
  <2>2. \E i \in Entries(c, n) : \A other \in Entries(c, n) : i <= other
    BY <1>2, <2>1, Least
  <2>3. Found(c, n) \in Entries(c, n)
    BY <1>2, <2>2 DEF Found
  <2> QED
    BY <2>1, <2>3
<1> QED
  BY <1>1, <1>2

LEMMA GetTypes ==
  ASSUME Types, NEW j \in Jobs, GetPhonebook(j)
  PROVE  Types'
<1> DEFINE x == job[j]
           i == Found(x.login, x.number)
           y == [x EXCEPT !.step = "set", !.entry = i]
<1>1. JobShape(x) /\ x.step = "get" /\ x.login \in Logins /\ x.page = <<>>
  BY AtStep DEF GetPhonebook, Step, Steps, Types, JobShape
<1>2. i \in Nat /\ (i # 0 => i \in Entries(x.login, x.number))
  BY <1>1, FoundIsEntry DEF Types
<1>3. job' = [job EXCEPT ![j] = y] /\ UNCHANGED <<book, cache, at, lock>>
      /\ UNCHANGED <<shown, outdated, alone>> /\ outrun' \subseteq outrun
  BY DEF GetPhonebook, Types, JobTypes, site, caches
<1>4. /\ y.step = "set" /\ y.entry = i /\ y.login = x.login /\ y.number = x.number
      /\ JobShape(y)
  <2> HIDE DEF i
  <2> QED
    BY <1>1, <1>2 DEF JobShape, Steps
<1>5. Fits(y, book')
  <2> HIDE DEF y
  <2> QED
    BY <1>2, <1>3, <1>4 DEF Fits, JobFits, Entries, Matches
<1> HIDE DEF y
<1>6. JobTypes'
  BY <1>3, <1>5, JobMoves DEF Types
<1>7. Locks'
  BY <1>1, <1>3, HoldsNone, LocksStay DEF Types, CacheTypes
<1> QED
  BY <1>3, <1>6, <1>7 DEF Types, Site, CacheTypes, RestTypes

LEMMA SetTypes ==
  ASSUME Types, NEW j \in Jobs, SetPhonebook(j) \/ CallFails(j)
  PROVE  Types'
<1> DEFINE x == job[j]
<1>1. JobShape(x) /\ x.page = <<>> /\ x.step \in {"get", "set"}
      /\ x.kind \in {"rename", "room name", "sync", "ghost"} /\ x.number \in Numbers
  BY AtStep DEF SetPhonebook, CallFails, Step, Steps, Types, JobShape
<1>2. PICK y : Plain(y) /\ job' = [job EXCEPT ![j] = y]
  <2>1. CASE SetPhonebook(j)
    <3> DEFINE rooms == IF x.kind = "rename" THEN {r \in Rooms : PeerOf[r] = x.number} ELSE {}
               y == [x EXCEPT !.step = "forget", !.forget = Logins, !.entry = 0,
                              !.rooms = rooms]
    <3>1. job' = [job EXCEPT ![j] = y]
      BY <2>1 DEF SetPhonebook, Types, JobTypes
    <3>2. rooms \in SUBSET Rooms
      OBVIOUS
    <3> HIDE DEF rooms
    <3>3. Plain(y)
      BY <1>1, <3>2 DEF Plain, JobShape, Steps
    <3> QED
      BY <3>1, <3>3
  <2>2. CASE CallFails(j)
    BY <2>2 DEF CallFails, Returns, Plain
  <2> QED
    BY <2>1, <2>2
<1>3. /\ Site' /\ outrun' \subseteq Jobs
      /\ \A d \in Logins, m \in Numbers : Matches(book[d], m) \subseteq Matches(book'[d], m)
  <2>1. CASE Step(j, "set") /\ Written(j)
    BY <2>1, WrittenTypes
  <2>2. CASE UNCHANGED <<book, outrun>>
    BY <2>2 DEF Types, Site, RestTypes
  <2> QED
    BY <2>1, <2>2 DEF SetPhonebook, CallFails
<1>4. /\ UNCHANGED <<cache, at, lock, shown, outdated>> /\ alone' \subseteq alone
  BY DEF SetPhonebook, CallFails, caches
<1>5. Fits(y, book')
  BY <1>2 DEF Plain, Fits, JobFits
<1>6. JobTypes'
  BY <1>2, <1>3, <1>5, JobMoves DEF Types
<1>7. Locks'
  BY <1>1, <1>2, <1>4, HoldsNone, LocksStay DEF Types, CacheTypes
<1> QED
  BY <1>3, <1>4, <1>6, <1>7 DEF Types, CacheTypes, RestTypes

LEMMA ForgetTypes ==
  ASSUME Types, NEW j \in Jobs, NEW c \in Logins, InvalidatePhonebook(j, c)
  PROVE  Types'
<1> DEFINE x == job[j]
           y == [x EXCEPT !.forget = x.forget \ {c}]
<1>1. JobShape(x) /\ x.page = <<>> /\ x.entry = 0 /\ x.step = "forget"
  BY AtStep DEF InvalidatePhonebook, Step, Steps, Types, JobShape
<1>2. job' = [job EXCEPT ![j] = y]
  BY DEF InvalidatePhonebook, Types, JobTypes
<1>3. Plain(y)
  BY <1>1 DEF Plain, JobShape, Steps
<1>4. /\ at' = [at EXCEPT ![c] = "never"] /\ lock[c] = Free
      /\ UNCHANGED <<book, cache, lock, shown, outrun, alone>>
      /\ outdated' = outdated \cup {c}
  BY DEF InvalidatePhonebook, site
<1> HIDE DEF y
<1>5. RestTypes'
  BY <1>4 DEF Types, RestTypes
<1> QED
  BY <1>1, <1>2, <1>3, <1>4, <1>5, PlainMoves DEF Types, CacheTypes

\* Whom a job asks, it is at a step with a number.
LEMMA AskingJob ==
  ASSUME Types, NEW j \in Jobs, NEW c \in Logins, Asks(j, c)
  PROVE  /\ JobShape(job[j]) /\ job[j].step \in {"room", "ghost"}
         /\ job[j].number \in Numbers /\ job[j].page = <<>> /\ job[j].entry = 0
BY AtStep DEF Asks, Step, Steps, Types, JobShape

LEMMA CachedTypes ==
  ASSUME Types, NEW j \in Jobs, NEW c \in Logins, CachedName(j, c)
  PROVE  Types'
<1> DEFINE name == cache[c][job[j].number]
<1>1. /\ job[j].step \in {"room", "ghost"} /\ job[j].page = <<>>
      /\ job[j].number \in Numbers
  BY AskingJob DEF CachedName
<1>2. name \in Shown
  BY <1>1 DEF Types, CacheTypes, Pages
<1>3. Named(j, c, name) /\ UNCHANGED <<book, cache, at, lock, outdated, outrun, alone>>
  BY DEF CachedName, site, caches, history
<1> HIDE DEF name
<1>4. /\ \E y : Plain(y) /\ job' = [job EXCEPT ![j] = y]
      /\ shown' \in [Rooms -> Shown]
  BY <1>1, <1>2, <1>3, NameFound DEF Types
<1>5. RestTypes'
  BY <1>3, <1>4 DEF Types, RestTypes
<1> QED
  BY <1>1, <1>3, <1>4, <1>5, PlainMoves DEF Types, CacheTypes

LEMMA ReadTypes ==
  ASSUME Types, NEW j \in Jobs, NEW c \in Logins, ReadPhonebook(j, c)
  PROVE  Types'
<1> DEFINE x == job[j]
           y == [x EXCEPT !.page = Contents(c)]
<1>1. /\ JobShape(x) /\ x.step \in {"room", "ghost"} /\ x.page = <<>> /\ x.entry = 0
      /\ x.number \in Numbers
  BY AskingJob DEF ReadPhonebook
<1>2. Contents(c) \in Pages /\ Contents(c) # <<>>
  <2>1. Contents(c) \in [Numbers -> Shown]
    BY ContentsType DEF Types, Pages
  <2>2. DOMAIN Contents(c) = Numbers /\ DOMAIN <<>> = {}
    BY <2>1
  <2> QED
    BY <1>1, <2>1, <2>2 DEF Pages
<1>3. /\ job' = [job EXCEPT ![j] = y] /\ lock' = [lock EXCEPT ![c] = j]
      /\ lock[c] = Free /\ at[c] = "never"
      /\ UNCHANGED <<book, cache, at, shown, outrun, alone>> /\ outdated' = outdated \ {c}
  BY DEF ReadPhonebook, Types, JobTypes, site
<1>4. JobShape(y) /\ y.page = Contents(c) /\ y.entry = 0
  <2> DEFINE page == Contents(c)
  <2>1. page \in Pages
    BY <1>2
  <2> HIDE DEF page
  <2>2. JobShape([x EXCEPT !.page = page]) /\ [x EXCEPT !.page = page].page = page
        /\ [x EXCEPT !.page = page].entry = 0
    BY <1>1, <2>1 DEF JobShape, Steps
  <2> QED
    BY <2>2 DEF page
<1> HIDE DEF y
<1>5. JobTypes'
  <2>1. Fits(y, book')
    BY <1>4 DEF Fits, JobFits
  <2> QED
    BY <1>3, <2>1, JobMoves DEF Types
<1>6. \A k \in Jobs : k # j => job'[k] = job[k]
  BY <1>3 DEF Types, JobTypes
<1>7. job'[j] = y
  BY <1>3 DEF Types, JobTypes
<1>8. \A d \in Logins : lock[d] # j
  BY <1>1, HoldsNone
<1>9. lock'[c] = j /\ (\A d \in Logins : d # c => lock'[d] = lock[d]) /\ j # Free
  BY <1>3, JobsAssumption DEF Types, CacheTypes, Free
<1>10. Locks'
  <2>1. ASSUME NEW d \in Logins, lock'[d] # Free PROVE Reading(at'[d], job'[lock'[d]])
    <3>1. CASE d = c
      BY <1>2, <1>3, <1>4, <1>7, <1>9, <3>1 DEF Reading
    <3>2. CASE d # c
      <4>1. lock'[d] = lock[d] /\ lock[d] # j /\ lock[d] # Free /\ lock[d] \in Jobs
        BY <1>8, <1>9, <2>1, <3>2 DEF Types, CacheTypes
      <4>2. job'[lock'[d]] = job[lock[d]] /\ Reading(at[d], job[lock[d]])
        BY <1>6, <4>1 DEF Types, Locks
      <4> QED
        BY <1>3, <4>2 DEF Reading
    <3> QED
      BY <3>1, <3>2
  <2>2. ASSUME NEW d \in Logins, NEW e \in Logins, lock'[d] # Free, lock'[d] = lock'[e]
        PROVE  d = e
    BY <1>8, <1>9, <2>2 DEF Types, Locks
  <2> QED
    BY <2>1, <2>2 DEF Locks
<1>11. CacheTypes' /\ RestTypes'
  BY <1>3 DEF Types, CacheTypes, RestTypes
<1> QED
  BY <1>3, <1>5, <1>10, <1>11 DEF Types, Site

LEMMA AnsweredTypes ==
  ASSUME Types, NEW j \in Jobs, NEW c \in Logins, CacheNames(j, c) \/ KeepNames(j, c)
  PROVE  Types'
<1> DEFINE x == job[j]
<1>1. lock[c] = j /\ j # Free
  BY JobsAssumption DEF CacheNames, KeepNames, Free
<1>2. /\ JobShape(x) /\ x.page # <<>> /\ x.page \in Pages /\ x.step \in {"room", "ghost"}
      /\ x.number \in Numbers /\ at[c] = "never"
  BY <1>1 DEF Types, Locks, Reading, JobShape
<1>3. /\ lock' = [lock EXCEPT ![c] = Free]
      /\ at' \in [Logins -> {"never", "read", "failed"}]
      /\ \A d \in Logins : d # c => at'[d] = at[d]
      /\ cache' \in [Logins -> Pages]
      /\ UNCHANGED <<book, outdated, outrun>> /\ alone' \subseteq alone
  BY <1>2 DEF CacheNames, KeepNames, site, history, Types, CacheTypes
<1>4. PICK name \in Shown : Named(j, c, name)
  BY <1>2 DEF CacheNames, KeepNames, Types, CacheTypes, Pages
<1>5. PICK y : Plain(y) /\ job' = [job EXCEPT ![j] = y]
  BY <1>2, <1>4, NameFound DEF Types
<1>6. shown' \in [Rooms -> Shown]
  BY <1>2, <1>4, NameFound DEF Types
<1>7. JobTypes'
  <2>1. Fits(y, book')
    BY <1>5 DEF Plain, Fits, JobFits
  <2> QED
    BY <1>3, <1>5, <2>1, JobMoves DEF Types
<1>8. Locks'
  <2>1. ASSUME NEW d \in Logins, lock'[d] # Free
        PROVE  d # c /\ lock'[d] = lock[d] /\ Reading(at'[d], job'[lock'[d]])
    <3>1. d # c /\ lock'[d] = lock[d] /\ at'[d] = at[d]
      BY <1>3, <2>1 DEF Types, CacheTypes
    <3>2. lock[d] # j /\ lock[d] \in Jobs
      BY <1>1, <2>1, <3>1 DEF Types, Locks, CacheTypes
    <3>3. job'[lock[d]] = job[lock[d]]
      BY <1>5, <3>2 DEF Types, JobTypes
    <3> QED
      BY <2>1, <3>1, <3>3 DEF Types, Locks
  <2>2. ASSUME NEW d \in Logins, NEW e \in Logins, lock'[d] # Free, lock'[d] = lock'[e]
        PROVE  d = e
    BY <2>1, <2>2 DEF Types, Locks
  <2> QED
    BY <2>1, <2>2 DEF Locks
<1>9. CacheTypes' /\ RestTypes'
  BY <1>3, <1>6 DEF Types, CacheTypes, RestTypes
<1> QED
  BY <1>3, <1>7, <1>8, <1>9 DEF Types, Site

LEMMA RoomTypes ==
  ASSUME Types, NEW j \in Jobs, NextRoom(j) \/ UpdateRoom(j)
  PROVE  Types'
<1> DEFINE x == job[j]
<1>1. JobShape(x) /\ x.page = <<>> /\ x.entry = 0 /\ x.step \in {"forget", "show"}
  BY AtStep DEF NextRoom, UpdateRoom, Step, Steps, Types, JobShape
<1>2. PICK y : Plain(y) /\ job' = [job EXCEPT ![j] = y]
  <2>1. CASE NextRoom(j) /\ x.kind = "room name"
    <3> DEFINE y == [x EXCEPT !.step = "ghost", !.ask = Logins]
    <3>1. job' = [job EXCEPT ![j] = y]
      BY <2>1 DEF NextRoom, Types, JobTypes
    <3>2. Plain(y)
      BY <1>1, <2>1 DEF Plain, JobShape, Steps
    <3> QED
      BY <3>1, <3>2
  <2>2. CASE NextRoom(j) /\ x.kind # "room name" /\ x.rooms = {}
    BY <2>2 DEF NextRoom, Returns, Plain
  <2>3. CASE NextRoom(j) /\ x.kind # "room name" /\ x.rooms # {}
    <3>1. PICK r \in x.rooms :
            job' = [job EXCEPT ![j].step = "room", ![j].room = {r},
                      ![j].rooms = @ \ {r}, ![j].number = PeerOf[r]]
      BY <2>3 DEF NextRoom
    <3> DEFINE y == [x EXCEPT !.step = "room", !.room = {r},
                       !.rooms = x.rooms \ {r}, !.number = PeerOf[r]]
    <3>2. job' = [job EXCEPT ![j] = y]
      BY <3>1 DEF Types, JobTypes
    <3>3. r \in Rooms /\ PeerOf[r] \in Numbers
      BY <1>1, LoginsAssumption DEF JobShape
    <3>4. Plain(y)
      BY <1>1, <3>3 DEF Plain, JobShape, Steps
    <3> QED
      BY <3>2, <3>4
  <2>4. CASE UpdateRoom(j)
    <3> DEFINE y == [x EXCEPT !.step = "ghost", !.ask = Logins, !.got = Nameless]
    <3>1. job' = [job EXCEPT ![j] = y]
      BY <2>4 DEF UpdateRoom, Types, JobTypes
    <3>2. x.step = "show"
      BY <2>4 DEF UpdateRoom, Step
    <3>3. Plain(y)
      BY <1>1, <3>2 DEF Plain, JobShape, Steps, Shown
    <3> QED
      BY <3>1, <3>3
  <2> QED
    BY <2>1, <2>2, <2>3, <2>4
<1>3. /\ UNCHANGED <<book, cache, at, lock, outdated, outrun, alone>>
      /\ shown' \in [Rooms -> Shown]
  <2>1. CASE NextRoom(j)
    BY <2>1 DEF NextRoom, site, caches, history, Types, RestTypes
  <2>2. CASE UpdateRoom(j)
    <3>1. x.got \in Shown
      BY <1>1 DEF JobShape
    <3> QED
      BY <2>2, <3>1 DEF UpdateRoom, site, caches, history, Types, RestTypes
  <2> QED
    BY <2>1, <2>2
<1>4. RestTypes'
  BY <1>3 DEF Types, RestTypes
<1> QED
  BY <1>1, <1>2, <1>3, <1>4, PlainMoves DEF Types, CacheTypes

LEMMA NoContactTypes ==
  ASSUME Types, NEW j \in Jobs, NoContact(j)
  PROVE  Types'
<1>1. /\ job[j].step = "ghost" /\ job[j].page = <<>> /\ GhostNamed(j)
      /\ UNCHANGED <<book, cache, at, lock, outdated, outrun, alone>>
  BY DEF NoContact, Step, site, caches, history
<1>2. /\ \E y : Plain(y) /\ job' = [job EXCEPT ![j] = y]
      /\ shown' \in [Rooms -> Shown]
  <2>1. Nameless \in Shown
    BY DEF Shown
  <2> QED
    BY <1>1, <2>1, NameFound DEF Types
<1>3. RestTypes'
  BY <1>1, <1>2 DEF Types, RestTypes
<1> QED
  BY <1>1, <1>2, <1>3, PlainMoves DEF Types, CacheTypes

LEMMA TypesStep == Types /\ [Next]_vars => Types'
<1> SUFFICES ASSUME Types, [Next]_vars PROVE Types'
  OBVIOUS
<1>1. ASSUME NEW c \in Logins, NEW n \in Peers, NEW name \in Names, EditOnSite(c, n, name)
      PROVE  Types'
  BY <1>1, EditTypes
<1>2. ASSUME NEW c \in Logins, CacheExpires(c) PROVE Types'
  <2>1. /\ lock[c] = Free /\ at' = [at EXCEPT ![c] = "never"]
        /\ UNCHANGED <<book, cache, lock, job, shown, outdated, outrun, alone>>
    BY <1>2 DEF CacheExpires, history
  <2>2. JobTypes'
    BY <2>1, JobsStay DEF Types
  <2>3. Locks'
    BY <2>1 DEF Types, Locks, Reading, CacheTypes
  <2> QED
    BY <2>1, <2>2, <2>3 DEF Types, Site, CacheTypes, RestTypes
<1>3. CASE UNCHANGED vars
  <2>1. UNCHANGED <<book, cache, at, lock, job, shown, outdated, outrun, alone>>
    BY <1>3 DEF vars, site, caches, history
  <2>2. JobTypes'
    BY <2>1, JobsStay DEF Types
  <2> QED
    BY <2>1, <2>2 DEF Types, Site, CacheTypes, Locks, RestTypes
<1> QED
  BY <1>1, <1>2, <1>3, BeginTypes, GetTypes, SetTypes, ForgetTypes, CachedTypes, ReadTypes,
     AnsweredTypes, RoomTypes, NoContactTypes DEF Next, ContactName

\* What jobs, caches and phonebooks hold keeps its form: a lookup that reads has
\* the lock of the login it reads for, and what SetContactName found is there
\* until it writes, for entries are only added.
THEOREM ContactTypes == Spec => []TypeOK
  BY TypesInit, TypesStep, TypesOK, PTL DEF Spec

-----------------------------------------------------------------------------
(* Freshness.                                                              *)

\* A lookup that reads began after its login was told to forget, for that
\* waits for the lock.
Fresh == \A c \in Logins : at[c] = "read" \/ lock[c] # Free => c \notin outdated

LEMMA FreshStep == Types /\ Fresh /\ [Next]_vars => Fresh'
<1> SUFFICES ASSUME Types, Fresh, [Next]_vars PROVE Fresh'
  OBVIOUS
<1> USE DEF site, caches, history
<1>1. ASSUME NEW j \in Jobs, NEW c \in Logins, InvalidatePhonebook(j, c) PROVE Fresh'
  BY <1>1 DEF InvalidatePhonebook, Fresh, Types, CacheTypes
<1>2. ASSUME NEW j \in Jobs, NEW c \in Logins, ReadPhonebook(j, c) PROVE Fresh'
  BY <1>2 DEF ReadPhonebook, Fresh, Types, CacheTypes
<1>3. ASSUME NEW j \in Jobs, NEW c \in Logins, CacheNames(j, c) \/ KeepNames(j, c)
      PROVE  Fresh'
  <2>1. lock[c] # Free
    BY <1>3, JobsAssumption DEF CacheNames, KeepNames, Free
  <2> QED
    BY <1>3, <2>1 DEF CacheNames, KeepNames, Fresh, Types, CacheTypes
<1>4. ASSUME NEW c \in Logins, CacheExpires(c) PROVE Fresh'
  BY <1>4 DEF CacheExpires, Fresh, Types, CacheTypes
<1>5. ASSUME UNCHANGED <<at, lock, outdated>> PROVE Fresh'
  BY <1>5 DEF Fresh
<1>6. ASSUME \/ \E c \in Logins, n \in Peers, name \in Names : EditOnSite(c, n, name)
             \/ \E j \in Jobs :
                  \/ \E c \in Logins, n \in Peers, name \in Names : BeginRename(j, c, n, name)
                  \/ \E r \in Rooms, name \in Names : BeginRoomName(j, r, name)
                  \/ BeginSync(j) \/ \E n \in Numbers : BeginGhost(j, n)
                  \/ GetPhonebook(j) \/ SetPhonebook(j) \/ CallFails(j)
                  \/ \E c \in Logins : CachedName(j, c)
                  \/ NextRoom(j) \/ UpdateRoom(j) \/ NoContact(j)
             \/ UNCHANGED vars
      PROVE  UNCHANGED <<at, lock, outdated>>
  BY <1>6 DEF EditOnSite, BeginRename, BeginRoomName, BeginSync, BeginGhost, GetPhonebook,
              SetPhonebook, CallFails, CachedName, NextRoom, UpdateRoom, NoContact, vars
<1> QED
  BY <1>1, <1>2, <1>3, <1>4, <1>5, <1>6 DEF Next, ContactName

\* Whatever lookups are under way when a login is told to forget its names, what
\* it takes for fresh afterwards was read after it was told.
THEOREM NoStaleNames == Spec => []FreshIsCurrent
<1>1. Init => Fresh
  BY DEF Init, Fresh
<1>2. Fresh => FreshIsCurrent
  BY DEF Fresh, FreshIsCurrent
<1> QED
  BY <1>1, <1>2, TypesInit, TypesStep, FreshStep, PTL DEF Spec

-----------------------------------------------------------------------------
(* What a step makes of a job.                                             *)

Begins(j) ==
  \/ \E c \in Logins, n \in Peers, name \in Names : BeginRename(j, c, n, name)
  \/ \E r \in Rooms, name \in Names : BeginRoomName(j, r, name)
  \/ BeginSync(j) \/ \E n \in Numbers : BeginGhost(j, n)
Acts(j) ==
  \/ GetPhonebook(j) \/ SetPhonebook(j) \/ CallFails(j)
  \/ \E c \in Logins : InvalidatePhonebook(j, c) \/ ContactName(j, c)
  \/ NextRoom(j) \/ UpdateRoom(j) \/ NoContact(j)
Outside ==
  \/ \E c \in Logins, n \in Peers, name \in Names : EditOnSite(c, n, name)
  \/ \E c \in Logins : CacheExpires(c)

\* What a name, or none, makes of the job that asked for it.
Turned(j, y) == job'[j] = y /\ \A k \in Jobs \ {j} : job'[k] = job[k]
LEMMA Turns ==
  ASSUME Types, NEW j \in Jobs, NEW y, job' = [job EXCEPT ![j] = y]
  PROVE  Turned(j, y)
BY DEF Types, JobTypes, Turned

LEMMA GhostTurns ==
  ASSUME Types, NEW j \in Jobs, GhostNamed(j)
  PROVE  LET x == job[j]
         IN  \/ /\ x.kind \in {"rename", "sync"} /\ shown' = shown
                /\ Turned(j, [x EXCEPT !.step = "forget", !.room = {}, !.ask = {},
                                       !.page = <<>>])
             \/ x.kind \notin {"rename", "sync"} /\ Turned(j, Done)
                /\ (x.room = {} => shown' = shown)
<1> DEFINE x == job[j]
<1>1. CASE x.kind \in {"rename", "sync"}
  <2>1. job' = [job EXCEPT ![j] = [x EXCEPT !.step = "forget", !.room = {}, !.ask = {},
                                            !.page = <<>>]]
        /\ shown' = shown
    BY <1>1 DEF GhostNamed, Types, JobTypes
  <2> QED
    BY <1>1, <2>1, Turns
<1>2. CASE x.kind \notin {"rename", "sync"}
  <2>1. job' = [job EXCEPT ![j] = Done]
    BY <1>2 DEF GhostNamed, Returns
  <2>2. x.room = {} => shown' = shown
    BY <1>2 DEF GhostNamed, Types, RestTypes
  <2> QED
    BY <1>2, <2>1, <2>2, Turns
<1> QED
  BY <1>1, <1>2

LEMMA NamedTurns ==
  ASSUME Types, NEW j \in Jobs, NEW c, NEW name, Named(j, c, name)
  PROVE  LET x == job[j]
         IN  \/ /\ x.step = "room" /\ shown' = shown
                /\ Turned(j, [x EXCEPT !.step = "show", !.got = name, !.page = <<>>])
             \/ x.step # "room" /\ GhostNamed(j)
             \/ /\ x.step # "room" /\ shown' = shown
                /\ Turned(j, [x EXCEPT !.ask = x.ask \ {c}, !.page = <<>>])
<1> DEFINE x == job[j]
<1>1. CASE x.step = "room"
  <2>1. job' = [job EXCEPT ![j] = [x EXCEPT !.step = "show", !.got = name, !.page = <<>>]]
        /\ shown' = shown
    BY <1>1 DEF Named, Step, Types, JobTypes
  <2> QED
    BY <1>1, <2>1, Turns
<1>2. CASE x.step # "room" /\ ~GhostNamed(j)
  <2>1. job' = [job EXCEPT ![j] = [x EXCEPT !.ask = x.ask \ {c}, !.page = <<>>]]
        /\ shown' = shown
    BY <1>2 DEF Named, Step, Types, JobTypes
  <2> QED
    BY <1>2, <2>1, Turns
<1> QED
  BY <1>1, <1>2

\* What the other steps make of a job.
LEMMA SetTurns ==
  ASSUME Types, NEW j \in Jobs, SetPhonebook(j)
  PROVE  LET x == job[j]
         IN  /\ x.step = "set" /\ JobShape(x)
             /\ Turned(j, [x EXCEPT !.step = "forget", !.forget = Logins, !.entry = 0,
                             !.rooms = IF x.kind = "rename"
                                       THEN {r \in Rooms : PeerOf[r] = x.number} ELSE {}])
<1>1. job[j].step = "set" /\ JobShape(job[j])
  BY AtStep DEF SetPhonebook, Step, Steps, Types
<1>2. job' = [job EXCEPT ![j] =
                [job[j] EXCEPT !.step = "forget", !.forget = Logins, !.entry = 0,
                   !.rooms = IF job[j].kind = "rename"
                             THEN {r \in Rooms : PeerOf[r] = job[j].number} ELSE {}]]
  BY DEF SetPhonebook, Types, JobTypes
<1> QED
  BY <1>1, <1>2, Turns

LEMMA GetTurns ==
  ASSUME Types, NEW j \in Jobs, GetPhonebook(j)
  PROVE  /\ job[j].step = "get" /\ JobShape(job[j])
         /\ \E i \in Nat : Turned(j, [job[j] EXCEPT !.step = "set", !.entry = i])
<1>1. job[j].step = "get" /\ JobShape(job[j]) /\ job[j].login \in Logins
  BY AtStep DEF GetPhonebook, Step, Steps, Types, JobShape
<1>2. PICK i \in Nat : i = Found(job[j].login, job[j].number)
  BY <1>1, FoundIsEntry DEF Types
<1>3. job' = [job EXCEPT ![j] = [job[j] EXCEPT !.step = "set", !.entry = i]]
  BY <1>2 DEF GetPhonebook, Types, JobTypes
<1> QED
  BY <1>1, <1>3, Turns

LEMMA ForgetTurns ==
  ASSUME Types, NEW j \in Jobs, NEW c \in Logins, InvalidatePhonebook(j, c)
  PROVE  /\ job[j].step = "forget" /\ JobShape(job[j])
         /\ Turned(j, [job[j] EXCEPT !.forget = job[j].forget \ {c}])
<1>1. job[j].step = "forget" /\ JobShape(job[j])
  BY AtStep DEF InvalidatePhonebook, Step, Steps, Types
<1>2. job' = [job EXCEPT ![j] = [job[j] EXCEPT !.forget = job[j].forget \ {c}]]
  BY DEF InvalidatePhonebook, Types, JobTypes
<1> QED
  BY <1>1, <1>2, Turns

LEMMA ReadTurns ==
  ASSUME Types, NEW j \in Jobs, NEW c \in Logins, ReadPhonebook(j, c)
  PROVE  Turned(j, [job[j] EXCEPT !.page = Contents(c)])
<1>1. job' = [job EXCEPT ![j] = [job[j] EXCEPT !.page = Contents(c)]]
  BY DEF ReadPhonebook, Types, JobTypes
<1> QED
  BY <1>1, Turns

LEMMA RoomTurns ==
  ASSUME Types, NEW j \in Jobs, NextRoom(j)
  PROVE  LET x == job[j]
         IN  /\ x.step = "forget" /\ x.forget = {} /\ JobShape(x)
             /\ \/ /\ x.kind = "room name"
                   /\ Turned(j, [x EXCEPT !.step = "ghost", !.ask = Logins])
                \/ x.kind # "room name" /\ x.rooms = {} /\ Turned(j, Done)
                \/ /\ x.kind # "room name"
                   /\ \E r \in x.rooms :
                        Turned(j, [x EXCEPT !.step = "room", !.room = {r},
                                     !.rooms = x.rooms \ {r}, !.number = PeerOf[r]])
<1> DEFINE x == job[j]
<1>1. x.step = "forget" /\ x.forget = {} /\ JobShape(x)
  BY AtStep DEF NextRoom, Step, Steps, Types
<1>2. CASE x.kind = "room name"
  <2>1. job' = [job EXCEPT ![j] = [x EXCEPT !.step = "ghost", !.ask = Logins]]
    BY <1>2 DEF NextRoom, Types, JobTypes
  <2> QED
    BY <1>1, <1>2, <2>1, Turns
<1>3. CASE x.kind # "room name" /\ x.rooms = {}
  <2>1. job' = [job EXCEPT ![j] = Done]
    BY <1>3, Zenon DEF NextRoom, Returns
  <2> QED
    BY <1>1, <1>3, <2>1, Turns
<1>4. CASE x.kind # "room name" /\ x.rooms # {}
  <2>1. PICK r \in x.rooms :
          job' = [job EXCEPT ![j].step = "room", ![j].room = {r},
                    ![j].rooms = @ \ {r}, ![j].number = PeerOf[r]]
    BY <1>4 DEF NextRoom
  <2>2. job' = [job EXCEPT ![j] =
                  [x EXCEPT !.step = "room", !.room = {r}, !.rooms = x.rooms \ {r},
                            !.number = PeerOf[r]]]
    BY <2>1 DEF Types, JobTypes
  <2> QED
    BY <1>1, <1>4, <2>2, Turns
<1> QED
  BY <1>1, <1>2, <1>3, <1>4

LEMMA UpdateTurns ==
  ASSUME Types, NEW j \in Jobs, UpdateRoom(j)
  PROVE  /\ job[j].step = "show" /\ JobShape(job[j])
         /\ Turned(j, [job[j] EXCEPT !.step = "ghost", !.ask = Logins, !.got = Nameless])
<1>1. job[j].step = "show" /\ JobShape(job[j])
  BY AtStep DEF UpdateRoom, Step, Steps, Types
<1>2. job' = [job EXCEPT ![j] =
                [job[j] EXCEPT !.step = "ghost", !.ask = Logins, !.got = Nameless]]
  BY DEF UpdateRoom, Types, JobTypes
<1> QED
  BY <1>1, <1>2, Turns

\* A lookup for a ghost is about no room, and sync never writes.
PathOK(x) ==
  x.step \in Steps => /\ x.kind = "ghost" => x.step = "ghost" /\ x.room = {}
                      /\ x.kind = "sync" => x.step \notin {"get", "set"}
Paths == \A k \in Jobs : PathOK(job[k])
Keeps(x, y) == (y = Done \/ (y.step \in Steps /\ y.kind = x.kind)) /\ (PathOK(x) => PathOK(y))

LEMMA AskedName ==
  ASSUME Types, NEW j \in Jobs, NEW c \in Logins,
         CachedName(j, c) \/ CacheNames(j, c) \/ KeepNames(j, c)
  PROVE  /\ JobShape(job[j]) /\ job[j].step \in {"room", "ghost"}
         /\ \E name \in Shown : Named(j, c, name)
<1>1. CASE CachedName(j, c)
  <2>1. JobShape(job[j]) /\ job[j].step \in {"room", "ghost"} /\ job[j].number \in Numbers
    BY <1>1, AskingJob DEF CachedName
  <2>2. cache[c][job[j].number] \in Shown
    BY <2>1 DEF Types, CacheTypes, Pages
  <2> QED
    BY <1>1, <2>1, <2>2 DEF CachedName
<1>2. CASE CacheNames(j, c) \/ KeepNames(j, c)
  <2>1. lock[c] = j /\ j # Free
    BY <1>2, JobsAssumption DEF CacheNames, KeepNames, Free
  <2>2. /\ JobShape(job[j]) /\ job[j].page \in Pages /\ job[j].step \in {"room", "ghost"}
        /\ job[j].number \in Numbers
    BY <2>1 DEF Types, Locks, Reading, JobShape
  <2>3. \E name \in Shown : Named(j, c, name)
    BY <1>2, <2>2 DEF CacheNames, KeepNames, Types, CacheTypes, Pages
  <2> QED
    BY <2>2, <2>3
<1> QED
  BY <1>1, <1>2

\* A job that acts changes itself only.
LEMMA ActsTurn ==
  ASSUME Types, NEW j \in Jobs, Acts(j)
  PROVE  /\ job[j].step \in Steps /\ JobShape(job[j])
         /\ \E y : Turned(j, y) /\ Keeps(job[j], y)
<1> DEFINE x == job[j]
<1> USE DEF Keeps, PathOK, Done, Steps
<1>0. Keeps(x, Done)
  OBVIOUS
<1>1. ASSUME JobShape(x), x.step = "ghost", GhostNamed(j)
      PROVE  \E y : Turned(j, y) /\ Keeps(x, y)
  <2>1. CASE x.kind \in {"rename", "sync"}
    <3> DEFINE y == [x EXCEPT !.step = "forget", !.room = {}, !.ask = {}, !.page = <<>>]
    <3>1. Turned(j, y)
      BY <1>1, <2>1, GhostTurns
    <3>2. y.step = "forget" /\ y.kind = x.kind
      BY <1>1 DEF JobShape
    <3> QED
      BY <2>1, <3>1, <3>2
  <2>2. CASE x.kind \notin {"rename", "sync"}
    <3>1. Turned(j, Done)
      BY <1>1, <2>2, GhostTurns
    <3> QED
      BY <1>0, <3>1
  <2> QED
    BY <2>1, <2>2
<1>2. ASSUME NEW c \in Logins, CachedName(j, c) \/ CacheNames(j, c) \/ KeepNames(j, c)
      PROVE  x.step \in Steps /\ JobShape(x) /\ \E y : Turned(j, y) /\ Keeps(x, y)
  <2>1. JobShape(x) /\ x.step \in {"room", "ghost"}
    BY <1>2, AskedName
  <2>2. PICK name \in Shown : Named(j, c, name)
    BY <1>2, AskedName
  <2>3. CASE x.step # "room" /\ GhostNamed(j)
    BY <1>1, <2>1, <2>3
  <2>4. CASE x.step = "room" /\ Turned(j, [x EXCEPT !.step = "show", !.got = name, !.page = <<>>])
    <3> DEFINE y == [x EXCEPT !.step = "show", !.got = name, !.page = <<>>]
    <3>1. y.step = "show" /\ y.kind = x.kind
      BY <2>1 DEF JobShape
    <3> QED
      BY <2>1, <2>4, <3>1
  <2>5. CASE x.step # "room" /\ Turned(j, [x EXCEPT !.ask = x.ask \ {c}, !.page = <<>>])
    <3> DEFINE y == [x EXCEPT !.ask = x.ask \ {c}, !.page = <<>>]
    <3>1. y.step = x.step /\ y.kind = x.kind /\ y.room = x.room
      BY <2>1 DEF JobShape
    <3> QED
      BY <2>1, <2>5, <3>1
  <2> QED
    BY <2>2, <2>3, <2>4, <2>5, NamedTurns
<1>3. ASSUME NEW c \in Logins, ReadPhonebook(j, c)
      PROVE  x.step \in Steps /\ JobShape(x) /\ \E y : Turned(j, y) /\ Keeps(x, y)
  <2> DEFINE y == [x EXCEPT !.page = Contents(c)]
  <2>1. JobShape(x) /\ x.step \in {"room", "ghost"}
    BY <1>3, AskingJob DEF ReadPhonebook
  <2>2. Turned(j, y)
    BY <1>3, ReadTurns
  <2>3. y.step = x.step /\ y.kind = x.kind /\ y.room = x.room
    BY <2>1 DEF JobShape
  <2> QED
    BY <2>1, <2>2, <2>3
<1>4. ASSUME NEW c \in Logins, InvalidatePhonebook(j, c)
      PROVE  x.step \in Steps /\ JobShape(x) /\ \E y : Turned(j, y) /\ Keeps(x, y)
  <2> DEFINE y == [x EXCEPT !.forget = x.forget \ {c}]
  <2>1. JobShape(x) /\ x.step = "forget" /\ Turned(j, y)
    BY <1>4, ForgetTurns
  <2>2. y.step = x.step /\ y.kind = x.kind /\ y.room = x.room
    BY <2>1 DEF JobShape
  <2> QED
    BY <2>1, <2>2
<1>5. ASSUME NoContact(j)
      PROVE  x.step \in Steps /\ JobShape(x) /\ \E y : Turned(j, y) /\ Keeps(x, y)
  <2>1. x.step = "ghost" /\ GhostNamed(j) /\ JobShape(x)
    BY <1>5, AtStep DEF NoContact, Step, Types
  <2> QED
    BY <1>1, <2>1
<1>6. ASSUME GetPhonebook(j) \/ SetPhonebook(j) \/ CallFails(j)
      PROVE  x.step \in Steps /\ JobShape(x) /\ \E y : Turned(j, y) /\ Keeps(x, y)
  <2>1. CASE GetPhonebook(j)
    <3>1. PICK i \in Nat : Turned(j, [x EXCEPT !.step = "set", !.entry = i])
      BY <2>1, GetTurns
    <3> DEFINE y == [x EXCEPT !.step = "set", !.entry = i]
    <3>2. JobShape(x) /\ x.step = "get"
      BY <2>1, GetTurns
    <3>3. y.step = "set" /\ y.kind = x.kind
      BY <3>2 DEF JobShape
    <3> QED
      BY <3>1, <3>2, <3>3
  <2>2. CASE SetPhonebook(j)
    <3> DEFINE rooms == IF x.kind = "rename" THEN {r \in Rooms : PeerOf[r] = x.number} ELSE {}
               y == [x EXCEPT !.step = "forget", !.forget = Logins, !.entry = 0,
                              !.rooms = rooms]
    <3>1. JobShape(x) /\ x.step = "set" /\ Turned(j, y)
      BY <2>2, SetTurns
    <3> HIDE DEF rooms
    <3>2. y.step = "forget" /\ y.kind = x.kind
      BY <3>1 DEF JobShape
    <3> QED
      BY <3>1, <3>2
  <2>3. CASE CallFails(j)
    <3>1. job' = [job EXCEPT ![j] = Done] /\ x.step \in Steps
      BY <2>3 DEF CallFails, Returns, Step
    <3>2. JobShape(x) /\ Turned(j, Done)
      BY <3>1, AtStep, Turns DEF Types
    <3> QED
      BY <1>0, <3>1, <3>2
  <2> QED
    BY <1>6, <2>1, <2>2, <2>3
<1>7. ASSUME NextRoom(j)
      PROVE  x.step \in Steps /\ JobShape(x) /\ \E y : Turned(j, y) /\ Keeps(x, y)
  <2>1. x.step = "forget" /\ JobShape(x)
    BY <1>7, RoomTurns
  <2>2. CASE x.kind = "room name" /\ Turned(j, [x EXCEPT !.step = "ghost", !.ask = Logins])
    <3> DEFINE y == [x EXCEPT !.step = "ghost", !.ask = Logins]
    <3>1. y.step = "ghost" /\ y.kind = x.kind
      BY <2>1 DEF JobShape
    <3> QED
      BY <2>1, <2>2, <3>1
  <2>3. CASE x.rooms = {} /\ Turned(j, Done)
    BY <2>1, <2>3
  <2>4. ASSUME NEW r \in x.rooms,
               Turned(j, [x EXCEPT !.step = "room", !.room = {r}, !.rooms = x.rooms \ {r},
                            !.number = PeerOf[r]])
        PROVE  \E y : Turned(j, y) /\ Keeps(x, y)
    <3> DEFINE y == [x EXCEPT !.step = "room", !.room = {r}, !.rooms = x.rooms \ {r},
                       !.number = PeerOf[r]]
    <3>1. y.step = "room" /\ y.kind = x.kind
      BY <2>1 DEF JobShape
    <3> QED
      BY <2>1, <2>4, <3>1
  <2> QED
    BY <1>7, <2>1, <2>2, <2>3, <2>4, RoomTurns
<1>8. ASSUME UpdateRoom(j)
      PROVE  x.step \in Steps /\ JobShape(x) /\ \E y : Turned(j, y) /\ Keeps(x, y)
  <2> DEFINE y == [x EXCEPT !.step = "ghost", !.ask = Logins, !.got = Nameless]
  <2>1. x.step = "show" /\ JobShape(x) /\ Turned(j, y)
    BY <1>8, UpdateTurns
  <2>2. y.step = "ghost" /\ y.kind = x.kind
    BY <2>1 DEF JobShape
  <2> QED
    BY <2>1, <2>2
<1> QED
  BY <1>2, <1>3, <1>4, <1>5, <1>6, <1>7, <1>8 DEF Acts, ContactName

LEMMA NextCases == Next => Outside \/ \E j \in Jobs : Begins(j) \/ Acts(j)
BY DEF Next, Outside, Begins, Acts

LEMMA BeginsTurn ==
  ASSUME Types, NEW j \in Jobs, Begins(j)
  PROVE  job[j] = Idle /\ \E y : Turned(j, y)
BY Begun, Turns DEF Begins, Types

-----------------------------------------------------------------------------
(* Second entries.                                                         *)

\* A job moves by its own actions only.
LEMMA MovesItself ==
  ASSUME Types, Next, NEW j \in Jobs, job'[j] # job[j]
  PROVE  Acts(j) \/ (job[j] = Idle /\ \E y : Plain(y) /\ job'[j] = y)
<1>1. ~Outside
  BY DEF Outside, EditOnSite, CacheExpires
<1>2. ASSUME NEW k \in Jobs \ {j}, Begins(k) \/ Acts(k) PROVE FALSE
  <2>1. \E y : Turned(k, y)
    BY <1>2, BeginsTurn, ActsTurn
  <2> QED
    BY <2>1 DEF Turned
<1>3. ASSUME Begins(j) PROVE job[j] = Idle /\ \E y : Plain(y) /\ job'[j] = y
  <2>1. PICK y : Plain(y) /\ job' = [job EXCEPT ![j] = y] /\ job[j] = Idle
    BY <1>3, Begun DEF Types, Begins
  <2>2. job'[j] = y
    BY <2>1 DEF Types, JobTypes
  <2> QED
    BY <2>1, <2>2
<1> QED
  BY <1>1, <1>2, <1>3, NextCases

\* With its second call a job stops writing.
LEMMA WriteEnds ==
  ASSUME Types, NEW j \in Jobs, SetPhonebook(j) \/ CallFails(j)
  PROVE  job'[j].step # "set"
<1>0. job = [i \in Jobs |-> job[i]]
  BY DEF Types, JobTypes
<1>1. JobShape(job[j])
  BY AtStep DEF SetPhonebook, CallFails, Step, Steps, Types
<1>2. CASE CallFails(j)
  BY <1>0, <1>2 DEF CallFails, Returns, Done
<1>3. CASE SetPhonebook(j)
  <2>1. PICK rooms \in SUBSET Rooms :
          job' = [job EXCEPT ![j].step = "forget", ![j].forget = Logins, ![j].entry = 0,
                             ![j].rooms = rooms]
    <3>1. (IF job[j].kind = "rename" THEN {r \in Rooms : PeerOf[r] = job[j].number} ELSE {})
            \in SUBSET Rooms
      OBVIOUS
    <3> QED
      BY <1>3, <3>1, Zenon DEF SetPhonebook
  <2> QED
    BY <1>0, <1>1, <2>1 DEF JobShape
<1> QED
  BY <1>2, <1>3

\* Only GetPhonebook makes a job ready to write, and only SetContactName's second
\* call ends that.
LEMMA WritesNext ==
  ASSUME Types, Next, NEW j \in Jobs, job'[j] # job[j]
  PROVE  /\ job[j].step = "set" => SetPhonebook(j) \/ CallFails(j)
         /\ job'[j].step = "set" => GetPhonebook(j)
<1>1. Idle.step # "set" /\ \A y : Plain(y) => y.step # "set"
  BY DEF Idle, Done, Plain
<1>2. ASSUME NEW c, NEW name \in Shown,
             job[j].step \in {"room", "ghost"}, GhostNamed(j) \/ Named(j, c, name)
      PROVE  job'[j].step # "set"
  <2>1. PICK y : Plain(y) /\ job' = [job EXCEPT ![j] = y]
    BY <1>2, NameFound DEF Types
  <2>2. job'[j] = y
    BY <2>1 DEF Types, JobTypes
  <2> QED
    BY <1>1, <2>1, <2>2
<1>3. job = [i \in Jobs |-> job[i]] /\ Nameless \in Shown
  BY DEF Types, JobTypes, Shown
<1>4. ASSUME SetPhonebook(j) \/ CallFails(j) PROVE job'[j].step # "set"
  BY <1>4, WriteEnds
<1>5. ASSUME GetPhonebook(j) PROVE job[j].step # "set"
  BY <1>5 DEF GetPhonebook, Step
<1>6. ASSUME NextRoom(j) \/ UpdateRoom(j)
      PROVE  job[j].step # "set" /\ job'[j].step # "set"
  <2>1. job[j].step \in {"forget", "show"}
    BY <1>6 DEF NextRoom, UpdateRoom, Step
  <2>2. JobShape(job[j])
    BY <2>1, AtStep DEF Types, Steps
  <2>3. job'[j].step \in {"ghost", "done", "room"}
    <3>1. CASE UpdateRoom(j)
      BY <1>3, <2>2, <3>1 DEF UpdateRoom, JobShape
    <3>2. CASE NextRoom(j) /\ job[j].kind = "room name"
      <4>1. job' = [job EXCEPT ![j].step = "ghost", ![j].ask = Logins]
        BY <3>2 DEF NextRoom
      <4> QED
        BY <1>3, <2>2, <4>1 DEF JobShape
    <3>3. CASE NextRoom(j) /\ job[j].kind # "room name" /\ job[j].rooms = {}
      <4>1. job' = [job EXCEPT ![j] = Done]
        BY <3>3, Zenon DEF NextRoom, Returns
      <4> QED
        BY <1>3, <4>1 DEF Done
    <3>4. CASE NextRoom(j) /\ job[j].kind # "room name" /\ job[j].rooms # {}
      <4>1. PICK r \in job[j].rooms :
              job' = [job EXCEPT ![j].step = "room", ![j].room = {r},
                        ![j].rooms = @ \ {r}, ![j].number = PeerOf[r]]
        BY <3>4 DEF NextRoom
      <4> QED
        BY <1>3, <2>2, <4>1 DEF JobShape
    <3> QED
      BY <1>6, <3>1, <3>2, <3>3, <3>4
  <2> QED
    BY <2>1, <2>3
<1>7. ASSUME NoContact(j) PROVE job[j].step # "set" /\ job'[j].step # "set"
  <2>1. job[j].step = "ghost" /\ GhostNamed(j)
    BY <1>7 DEF NoContact, Step
  <2> QED
    BY <1>2, <1>3, <2>1
<1>8. ASSUME NEW c \in Logins, InvalidatePhonebook(j, c)
      PROVE  job[j].step # "set" /\ job'[j].step # "set"
  <2>1. job[j].step = "forget"
    BY <1>8 DEF InvalidatePhonebook, Step
  <2>2. JobShape(job[j])
    BY <2>1, AtStep DEF Types, Steps
  <2> QED
    BY <1>3, <1>8, <2>1, <2>2 DEF InvalidatePhonebook, JobShape
<1>9. ASSUME NEW c \in Logins, CachedName(j, c) \/ ReadPhonebook(j, c)
      PROVE  job[j].step # "set" /\ job'[j].step # "set"
  <2>1. Asks(j, c)
    BY <1>9 DEF CachedName, ReadPhonebook
  <2>2. /\ JobShape(job[j]) /\ job[j].step \in {"room", "ghost"} /\ job[j].number \in Numbers
    BY <2>1, AskingJob
  <2>3. CASE CachedName(j, c)
    <3>1. cache[c][job[j].number] \in Shown
      BY <2>2 DEF Types, CacheTypes, Pages
    <3> QED
      BY <1>2, <2>2, <2>3, <3>1 DEF CachedName
  <2>4. CASE ReadPhonebook(j, c)
    BY <1>3, <2>2, <2>4 DEF ReadPhonebook, JobShape
  <2> QED
    BY <1>9, <2>2, <2>3, <2>4
<1>10. ASSUME NEW c \in Logins, CacheNames(j, c) \/ KeepNames(j, c)
       PROVE  job[j].step # "set" /\ job'[j].step # "set"
  <2>1. lock[c] = j /\ j # Free
    BY <1>10, JobsAssumption DEF CacheNames, KeepNames, Free
  <2>2. /\ job[j].page \in Pages /\ job[j].step \in {"room", "ghost"} /\ job[j].number \in Numbers
    BY <2>1 DEF Types, Locks, Reading, JobShape
  <2>3. PICK name \in Shown : Named(j, c, name)
    BY <1>10, <2>2 DEF CacheNames, KeepNames, Types, CacheTypes, Pages
  <2> QED
    BY <1>2, <2>2, <2>3
<1>11. CASE job[j] = Idle /\ \E y : Plain(y) /\ job'[j] = y
  BY <1>1, <1>11
<1> QED
  BY <1>4, <1>5, <1>6, <1>7, <1>8, <1>9, <1>10, <1>11, MovesItself DEF Acts, ContactName

\* A job that found no entry is right, unless it was outrun.
NoneYet(j, books) ==
  job[j].step = "set" /\ job[j].entry = 0 => Matches(books[job[j].login], job[j].number) = {}
Current == \A j \in Jobs \ outrun : NoneYet(j, book)

\* A phonebook changes for the jobs that are not outrun, if at all, by their own
\* writing.
LEMMA OutrunStep ==
  ASSUME Types, [Next]_vars, NEW j \in Jobs \ outrun', job'[j] = job[j], job[j].step = "set"
  PROVE  j \notin outrun /\ book'[job[j].login] = book[job[j].login]
<1>1. JobShape(job[j]) /\ job[j].login \in Logins
  BY AtStep DEF Types, Steps, JobShape
<1>2. ASSUME NEW k, NEW c, NEW contents, Changes(k, c, contents), k # j
      PROVE  j \notin outrun /\ book'[job[j].login] = book[job[j].login]
  <2>1. j \notin outrun /\ job[j].login # c
    BY <1>2 DEF Changes, Step
  <2> QED
    BY <1>1, <1>2, <2>1 DEF Changes, Types, Site
<1>3. ASSUME NEW k \in Jobs, SetPhonebook(k) \/ CallFails(k) \/ GetPhonebook(k)
      PROVE  j \notin outrun /\ book'[job[j].login] = book[job[j].login]
  <2>1. k # j
    BY <1>3, WriteEnds DEF GetPhonebook, Step
  <2>2. CASE Written(k)
    BY <1>2, <2>1, <2>2 DEF Written
  <2>3. CASE book' = book /\ outrun \ {k} \subseteq outrun'
    BY <2>1, <2>3
  <2> QED
    BY <1>3, <2>2, <2>3 DEF SetPhonebook, CallFails, GetPhonebook, site
<1>4. ASSUME NEW c \in Logins, NEW n \in Peers, NEW name \in Names, EditOnSite(c, n, name)
      PROVE  j \notin outrun /\ book'[job[j].login] = book[job[j].login]
  <2>1. \E contents : Changes(Nobody, c, contents)
    BY <1>4 DEF EditOnSite
  <2> QED
    BY <1>2, <2>1, JobsAssumption DEF Nobody
<1>5. ASSUME UNCHANGED <<book, outrun>>
      PROVE  j \notin outrun /\ book'[job[j].login] = book[job[j].login]
  BY <1>5
<1>6. ASSUME \/ \E c \in Logins : CacheExpires(c)
             \/ \E k \in Jobs :
                  \/ \E c \in Logins, n \in Peers, name \in Names : BeginRename(k, c, n, name)
                  \/ \E r \in Rooms, name \in Names : BeginRoomName(k, r, name)
                  \/ BeginSync(k) \/ \E n \in Numbers : BeginGhost(k, n)
                  \/ \E c \in Logins : InvalidatePhonebook(k, c) \/ ContactName(k, c)
                  \/ NextRoom(k) \/ UpdateRoom(k) \/ NoContact(k)
             \/ UNCHANGED vars
      PROVE  UNCHANGED <<book, outrun>>
  BY <1>6 DEF CacheExpires, BeginRename, BeginRoomName, BeginSync, BeginGhost,
              InvalidatePhonebook, ContactName, CachedName, ReadPhonebook, CacheNames,
              KeepNames, NextRoom, UpdateRoom, NoContact, vars, site, history
<1> QED
  BY <1>3, <1>4, <1>5, <1>6 DEF Next

LEMMA CurrentStep == Types /\ Current /\ [Next]_vars => Current'
<1> SUFFICES ASSUME Types, Current, [Next]_vars,
                    NEW j \in Jobs \ outrun', job'[j].step = "set", job'[j].entry = 0
             PROVE  Matches(book'[job'[j].login], job'[j].number) = {}
  BY DEF Current, NoneYet
<1>1. CASE job'[j] = job[j]
  <2>1. j \notin outrun /\ book'[job[j].login] = book[job[j].login]
    BY <1>1, OutrunStep
  <2> QED
    BY <1>1, <2>1 DEF Current, NoneYet
<1>2. CASE job'[j] # job[j]
  <2>1. Next /\ GetPhonebook(j)
    BY <1>2, WritesNext DEF vars
  <2> DEFINE x == job[j]
             i == Found(x.login, x.number)
  <2>2. JobShape(x) /\ x.login \in Logins
    BY <2>1, AtStep DEF GetPhonebook, Step, Steps, Types, JobShape
  <2>3. book' = book /\ job' = [job EXCEPT ![j] = [x EXCEPT !.step = "set", !.entry = i]]
    BY <2>1 DEF GetPhonebook, site, Types, JobTypes
  <2>4. job'[j].login = x.login /\ job'[j].number = x.number /\ job'[j].entry = i
    <3> HIDE DEF i
    <3>1. job'[j] = [x EXCEPT !.step = "set", !.entry = i]
      BY <2>3 DEF Types, JobTypes
    <3> QED
      BY <2>2, <3>1 DEF JobShape
  <2>5. Entries(x.login, x.number) = {}
    BY <2>2, <2>4, FoundIsEntry DEF Types
  <2> QED
    BY <2>3, <2>4, <2>5 DEF Entries, Matches
<1> QED
  BY <1>1, <1>2

LEMMA OneMore ==
  ASSUME Site, NEW d \in Logins, NEW m \in Numbers, NEW i \in Nat, NEW name \in Names,
         i # 0 => i \in Entries(d, m), i = 0 => Entries(d, m) = {},
         NEW k, Changes(k, d, Upsert(d, m, i, name)),
         NEW c \in Logins, NEW n \in Numbers
  PROVE  Entries(c, n)' = Entries(c, n) \/ Cardinality(Entries(c, n)') = 1
<1> DEFINE w == Upsert(d, m, i, name)
<1>1. Entries(c, n) = Matches(book[c], n) /\ Entries(c, n)' = Matches(book'[c], n)
  BY DEF Entries, Matches
<1>2. book' = [book EXCEPT ![d] = w]
  BY DEF Changes
<1>3. /\ \A l : l # m => Matches(w, l) = Matches(book[d], l)
      /\ Matches(w, m) = IF i = 0 THEN Matches(book[d], m) \cup {Len(book[d]) + 1}
                         ELSE Matches(book[d], m)
  BY WrittenBook
<1> HIDE DEF w
<1>4. CASE c = d /\ n = m /\ i = 0
  <2>1. Matches(book[d], m) = {}
    BY <1>1, <1>4
  <2>2. Matches(book'[c], n) = {Len(book[d]) + 1}
    BY <1>2, <1>3, <1>4, <2>1 DEF Site
  <2> QED
    BY <1>1, <2>2, FS_Singleton
<1>5. CASE ~(c = d /\ n = m /\ i = 0)
  <2>1. Matches(book'[c], n) = Matches(book[c], n)
    BY <1>2, <1>3, <1>5 DEF Site
  <2> QED
    BY <1>1, <2>1
<1> QED
  BY <1>4, <1>5

\* A number gets a second entry only from a job whose phonebook was changed after
\* it had been read: check and write are two calls.
THEOREM OneEntryUnlessOutrun == Spec => OneEntryEach
<1>1. Init => Current
  BY DEF Init, Current, NoneYet, Idle
<1>2. Types /\ Current /\ [Next]_vars =>
        [\A j \in Jobs \ outrun : Step(j, "set") /\ job'[j] # job[j] =>
           \A c \in Logins, n \in Numbers :
             Entries(c, n)' = Entries(c, n) \/ Cardinality(Entries(c, n)') = 1]_vars
  <2> SUFFICES ASSUME Types, Current, Next, NEW j \in Jobs \ outrun,
                      job[j].step = "set", job'[j] # job[j],
                      NEW c \in Logins, NEW n \in Numbers
               PROVE  Entries(c, n)' = Entries(c, n) \/ Cardinality(Entries(c, n)') = 1
    BY DEF Step
  <2> DEFINE x == job[j]
  <2>1. /\ Site /\ x.login \in Logins /\ x.number \in Numbers /\ x.name \in Names
        /\ x.entry \in Nat /\ (x.entry # 0 => x.entry \in Entries(x.login, x.number))
        /\ (x.entry = 0 => Entries(x.login, x.number) = {})
    BY AtStep DEF Types, Steps, JobFits, JobShape, Current, NoneYet, Entries, Matches
  <2>2. CASE book' = book
    BY <2>2 DEF Entries
  <2>3. CASE Written(j)
    BY <2>1, <2>3, OneMore DEF Written
  <2> QED
    BY <2>2, <2>3, WritesNext DEF SetPhonebook, CallFails
<1> QED
  BY <1>1, <1>2, TypesInit, TypesStep, CurrentStep, PTL DEF Spec, OneEntryEach

-----------------------------------------------------------------------------
(* Names reach the rooms.                                                  *)

\* What a login takes for fresh, or reads, is what its phonebook says.
TrueTo(c) ==
  /\ at[c] # "failed"
  /\ at[c] = "read" => cache[c] = Contents(c)
  /\ lock[c] # Free => job[lock[c]].page = Contents(c)

LEMMA ContentsStay == ASSUME book' = book, NEW c PROVE Contents(c)' = Contents(c)
BY DEF Contents, Entries

\* A job that reads nothing goes on.
LEMMA TrueBeside ==
  ASSUME Types, NEW j \in Jobs, NEW y, Turned(j, y),
         job[j] = Idle \/ job[j].page = <<>>,
         UNCHANGED <<book, cache, lock>>, NEW c \in Logins, TrueTo(c),
         at'[c] \in {at[c], "never"}
  PROVE  TrueTo(c)'
<1>1. Contents(c)' = Contents(c)
  BY ContentsStay
<1>2. lock[c] # j /\ lock[c] \in Jobs \cup {Free}
  BY HoldsNone DEF Types, CacheTypes
<1>3. lock[c] # Free => job'[lock[c]] = job[lock[c]]
  BY <1>2 DEF Turned
<1> QED
  BY <1>1, <1>2, <1>3 DEF TrueTo

LEMMA TrueRead ==
  ASSUME Types, NEW j \in Jobs, NEW d \in Logins, ReadPhonebook(j, d),
         NEW c \in Logins, TrueTo(c)
  PROVE  TrueTo(c)'
<1>1. /\ UNCHANGED <<book, cache, at>> /\ lock' = [lock EXCEPT ![d] = j]
  BY DEF ReadPhonebook, site
<1>2. Contents(c)' = Contents(c)
  BY <1>1, ContentsStay
<1>3. JobShape(job[j]) /\ job[j].page = <<>> /\ Turned(j, [job[j] EXCEPT !.page = Contents(d)])
  BY AskingJob, ReadTurns DEF ReadPhonebook
<1>4. CASE c = d
  <2>1. job'[j].page = Contents(c)
    BY <1>3, <1>4 DEF Turned, JobShape
  <2> QED
    BY <1>1, <1>2, <1>4, <2>1 DEF TrueTo, Types, CacheTypes
<1>5. CASE c # d
  <2>1. lock'[c] = lock[c] /\ lock[c] # j /\ lock[c] \in Jobs \cup {Free}
    BY <1>1, <1>3, <1>5, HoldsNone DEF Types, CacheTypes
  <2>2. lock[c] # Free => job'[lock[c]] = job[lock[c]]
    BY <1>3, <2>1 DEF Turned
  <2> QED
    BY <1>1, <1>2, <2>1, <2>2 DEF TrueTo
<1> QED
  BY <1>4, <1>5

LEMMA TrueCached ==
  ASSUME Types, NEW j \in Jobs, NEW d \in Logins, CacheNames(j, d),
         NEW c \in Logins, TrueTo(c)
  PROVE  TrueTo(c)'
<1>1. /\ book' = book /\ lock[d] = j /\ lock' = [lock EXCEPT ![d] = Free]
      /\ cache' = [cache EXCEPT ![d] = job[j].page] /\ at' = [at EXCEPT ![d] = "read"]
  BY DEF CacheNames, site
<1>2. Contents(c)' = Contents(c)
  BY <1>1, ContentsStay
<1>3. j # Free /\ Acts(j)
  BY JobsAssumption DEF Free, Acts, ContactName
<1>4. CASE c = d
  BY <1>1, <1>2, <1>3, <1>4 DEF TrueTo, Types, CacheTypes
<1>5. CASE c # d
  <2>1. /\ lock'[c] = lock[c] /\ cache'[c] = cache[c] /\ at'[c] = at[c]
        /\ lock[c] # j /\ lock[c] \in Jobs \cup {Free}
    BY <1>1, <1>3, <1>5 DEF Types, CacheTypes, Locks
  <2>2. lock[c] # Free => job'[lock[c]] = job[lock[c]]
    BY <1>3, <2>1, ActsTurn DEF Turned
  <2> QED
    BY <1>2, <2>1, <2>2 DEF TrueTo
<1> QED
  BY <1>4, <1>5

\* What is true of a phonebook stays true of it until it changes or a call fails.
LEMMA TrueStays ==
  ASSUME Types, [Next]_vars, NEW c \in Logins, TrueTo(c), book' = book, alone' # {}
  PROVE  TrueTo(c)'
<1>1. CASE UNCHANGED vars
  <2>1. UNCHANGED <<book, cache, at, lock, job>>
    BY <1>1 DEF vars, site, caches
  <2> QED
    BY <2>1, ContentsStay DEF TrueTo
<1>2. CASE Outside
  <2>1. PICK d \in Logins : CacheExpires(d)
    BY <1>2 DEF Outside, EditOnSite
  <2>2. UNCHANGED <<book, cache, lock, job>> /\ at' = [at EXCEPT ![d] = "never"]
    BY <2>1 DEF CacheExpires
  <2> QED
    BY <2>2, ContentsStay DEF TrueTo, Types, CacheTypes
<1>3. ASSUME NEW j \in Jobs, Begins(j) PROVE TrueTo(c)'
  <2>1. UNCHANGED <<book, cache, at, lock>>
    BY <1>3 DEF Begins, BeginRename, BeginRoomName, BeginSync, BeginGhost, site, caches
  <2> QED
    BY <1>3, <2>1, BeginsTurn, TrueBeside
<1>4. ASSUME NEW j \in Jobs, Acts(j), job[j].page = <<>>,
             UNCHANGED <<cache, lock>>, at'[c] \in {at[c], "never"}
      PROVE  TrueTo(c)'
  BY <1>4, ActsTurn, TrueBeside
<1>5. ASSUME NEW j \in Jobs, Acts(j) PROVE TrueTo(c)'
  <2>1. JobShape(job[j])
    BY <1>5, ActsTurn
  <2>2. CASE GetPhonebook(j) \/ SetPhonebook(j) \/ NextRoom(j) \/ UpdateRoom(j)
    <3>1. UNCHANGED <<cache, at, lock>> /\ job[j].step \notin {"room", "ghost"}
      BY <2>2 DEF GetPhonebook, SetPhonebook, NextRoom, UpdateRoom, caches, Step
    <3> QED
      BY <1>4, <1>5, <2>1, <3>1 DEF JobShape
  <2>3. CASE CallFails(j)
    BY <2>3 DEF CallFails
  <2>4. CASE NoContact(j)
    BY <1>4, <1>5, <2>4 DEF NoContact, caches
  <2>5. ASSUME NEW d \in Logins, InvalidatePhonebook(j, d) PROVE TrueTo(c)'
    <3>1. /\ UNCHANGED <<cache, lock>> /\ at' = [at EXCEPT ![d] = "never"]
          /\ job[j].step \notin {"room", "ghost"}
      BY <2>5 DEF InvalidatePhonebook, Step
    <3>2. at'[c] \in {at[c], "never"}
      BY <3>1 DEF Types, CacheTypes
    <3> QED
      BY <1>4, <1>5, <2>1, <3>1, <3>2 DEF JobShape
  <2>6. ASSUME NEW d \in Logins, CachedName(j, d) PROVE TrueTo(c)'
    BY <1>4, <1>5, <2>6 DEF CachedName, Asks, caches
  <2>7. ASSUME NEW d \in Logins, ReadPhonebook(j, d) \/ CacheNames(j, d) \/ KeepNames(j, d)
        PROVE  TrueTo(c)'
    BY <2>7, TrueRead, TrueCached DEF KeepNames
  <2> QED
    BY <1>5, <2>2, <2>3, <2>4, <2>5, <2>6, <2>7 DEF Acts, ContactName
<1> QED
  BY <1>1, <1>2, <1>3, <1>5, NextCases

-----------------------------------------------------------------------------
\* Who works alone has begun.
Lone ==
  \A j \in alone : job[j].step # "idle"
                   /\ \A k \in Jobs : j \in Working /\ k \in Working => j = k

LEMMA WorkingJobs ==
  ASSUME Types, NEW j \in Jobs
  PROVE  j \in Working <=> job[j].step \in Steps /\ job[j].kind # "ghost"
<1>1. job[j] = Idle \/ job[j] = Done \/ JobShape(job[j])
  BY DEF Types, JobTypes, Fits, JobFits
<1>2. JobShape(job[j]) => job[j].step \in Steps
  BY DEF JobShape
<1>3. Idle.step = "idle" /\ Done.step = "done"
  BY DEF Idle, Done
<1> QED
  BY <1>1, <1>2, <1>3 DEF Working, Steps

\* While it works, others only look names up for ghosts.
LEMMA OthersAreQuiet ==
  ASSUME Types, Paths, Lone, [Next]_vars, NEW j \in alone', j \in Jobs,
         j \in Working,
         UNCHANGED vars \/ Outside \/ \E k \in Jobs \ {j} : Begins(k) \/ Acts(k)
  PROVE  /\ job'[j] = job[j] /\ UNCHANGED <<book, shown>> /\ j \in alone
         /\ \A c \in Logins : lock'[c] = j => lock[c] = j
<1> DEFINE Goal == /\ job'[j] = job[j] /\ UNCHANGED <<book, shown>> /\ j \in alone
                   /\ \A c \in Logins : lock'[c] = j => lock[c] = j
<1>1. CASE UNCHANGED vars
  BY <1>1 DEF vars, site, caches, history
<1>2. CASE Outside
  BY <1>2 DEF Outside, EditOnSite, CacheExpires, history
<1>3. ASSUME NEW k \in Jobs \ {j}, Begins(k) PROVE Goal
  <2>1. UNCHANGED <<book, shown, lock>>
    BY <1>3 DEF Begins, BeginRename, BeginRoomName, BeginSync, BeginGhost, site, caches
  <2>2. job'[j] = job[j]
    BY <1>3, BeginsTurn DEF Turned
  <2>3. j \in alone
    BY <1>3 DEF Begins, BeginRename, BeginRoomName, BeginSync, BeginGhost, Begin
  <2> QED
    BY <2>1, <2>2, <2>3
<1>4. ASSUME NEW k \in Jobs \ {j}, Acts(k) PROVE Goal
  <2>1. j \in alone
    BY <1>4 DEF Acts, GetPhonebook, SetPhonebook, CallFails, InvalidatePhonebook, ContactName,
                CachedName, ReadPhonebook, CacheNames, KeepNames, NextRoom, UpdateRoom,
                NoContact, history
  <2>2. job'[j] = job[j]
    BY <1>4, ActsTurn DEF Turned
  <2>3. k \notin Working /\ job[k].step \in Steps
    BY <1>4, <2>1, ActsTurn DEF Lone
  <2>4. job[k].step = "ghost" /\ job[k].room = {} /\ job[k].kind = "ghost"
    BY <2>3, WorkingJobs DEF Paths, PathOK
  <2>5. ASSUME GhostNamed(k) PROVE shown' = shown
    BY <2>4, <2>5, GhostTurns
  <2>6. ASSUME NEW c \in Logins, CachedName(k, c) \/ CacheNames(k, c) \/ KeepNames(k, c)
        PROVE  Goal
    <3>1. \E name : Named(k, c, name)
      BY <2>6 DEF CachedName, CacheNames, KeepNames
    <3>2. shown' = shown
      BY <2>4, <2>5, <3>1, NamedTurns
    <3>3. /\ book' = book
          /\ lock' \in {lock, [lock EXCEPT ![c] = Free]}
      BY <2>6 DEF CachedName, CacheNames, KeepNames, site, caches
    <3>4. \A d \in Logins : lock'[d] = j => lock[d] = j
      BY <3>3, JobsAssumption DEF Types, CacheTypes, Free
    <3> QED
      BY <2>1, <2>2, <3>2, <3>3, <3>4
  <2>7. ASSUME NEW c \in Logins, ReadPhonebook(k, c) PROVE Goal
    BY <2>1, <2>2, <2>7 DEF ReadPhonebook, site, Types, CacheTypes
  <2>8. CASE NoContact(k)
    BY <2>1, <2>2, <2>5, <2>8 DEF NoContact, site, caches
  <2> QED
    BY <1>4, <2>4, <2>6, <2>7, <2>8
       DEF Acts, GetPhonebook, SetPhonebook, CallFails, InvalidatePhonebook, ContactName,
           NextRoom, UpdateRoom, Step
<1> QED
  BY <1>1, <1>2, <1>3, <1>4, NextCases

\* What a job begins with.
LEMMA BeginsAs ==
  ASSUME Types, NEW i \in Jobs, Begins(i)
  PROVE  LET y == job'[i]
         IN  \/ Begin(i, "rename") /\ y.kind = "rename" /\ y.step = "get"
             \/ Begin(i, "room name") /\ y.kind = "room name" /\ y.step = "get"
             \/ /\ Begin(i, "sync") /\ y.kind = "sync" /\ y.step = "forget"
                /\ y.forget = Logins /\ y.rooms = Rooms
             \/ /\ Begin(i, "ghost") /\ y.kind = "ghost" /\ y.step = "ghost"
                /\ y.room = {}
<1>1. ASSUME NEW c \in Logins, NEW n \in Peers, NEW name \in Names, BeginRename(i, c, n, name)
      PROVE  Begin(i, "rename") /\ job'[i].kind = "rename" /\ job'[i].step = "get"
  BY <1>1 DEF BeginRename, Types, JobTypes, Job
<1>2. ASSUME NEW r \in Rooms, NEW name \in Names, BeginRoomName(i, r, name)
      PROVE  Begin(i, "room name") /\ job'[i].kind = "room name" /\ job'[i].step = "get"
  BY <1>2 DEF BeginRoomName, Types, JobTypes, Job
<1>3. ASSUME BeginSync(i)
      PROVE  /\ Begin(i, "sync") /\ job'[i].kind = "sync" /\ job'[i].step = "forget"
             /\ job'[i].forget = Logins /\ job'[i].rooms = Rooms
  BY <1>3 DEF BeginSync, Types, JobTypes, Job
<1>4. ASSUME NEW n \in Numbers, BeginGhost(i, n)
      PROVE  /\ Begin(i, "ghost") /\ job'[i].kind = "ghost" /\ job'[i].step = "ghost"
             /\ job'[i].room = {}
  BY <1>4 DEF BeginGhost, Types, JobTypes, Job
<1> QED
  BY <1>1, <1>2, <1>3, <1>4 DEF Begins

LEMMA PathsStep == Types /\ Paths /\ [Next]_vars => Paths'
<1> SUFFICES ASSUME Types, Paths, [Next]_vars, NEW i \in Jobs PROVE PathOK(job'[i])
  BY DEF Paths
<1>0. PathOK(job[i])
  BY DEF Paths
<1>1. CASE UNCHANGED vars \/ Outside
  <2>1. job' = job
    BY <1>1 DEF Outside, EditOnSite, CacheExpires, vars
  <2> QED
    BY <1>0, <2>1
<1>2. ASSUME NEW j \in Jobs, Acts(j) PROVE PathOK(job'[i])
  BY <1>0, <1>2, ActsTurn DEF Turned, Keeps
<1>3. ASSUME NEW j \in Jobs, Begins(j), i # j PROVE PathOK(job'[i])
  BY <1>0, <1>3, BeginsTurn DEF Turned
<1>4. ASSUME Begins(i) PROVE PathOK(job'[i])
  BY <1>4, BeginsAs DEF PathOK
<1> QED
  BY <1>1, <1>2, <1>3, <1>4, NextCases

\* Nobody but the job itself makes it alone, when it begins.
LEMMA AloneActs ==
  ASSUME NEW j, Acts(j) PROVE alone' \subseteq alone
BY DEF Acts, GetPhonebook, SetPhonebook, CallFails, InvalidatePhonebook, ContactName,
       CachedName, ReadPhonebook, CacheNames, KeepNames, NextRoom, UpdateRoom, NoContact,
       history

LEMMA LoneStep == Types /\ Lone /\ [Next]_vars => Lone'
<1> SUFFICES ASSUME Types, Lone, [Next]_vars, NEW j \in alone'
             PROVE  /\ job'[j].step # "idle"
                    /\ \A k \in Jobs : j \in Working' /\ k \in Working' => j = k
  BY DEF Lone
<1> DEFINE Goal == /\ job'[j].step # "idle"
                   /\ \A k \in Jobs : j \in Working' /\ k \in Working' => j = k
<1>0. Types' /\ alone' \subseteq Jobs
  BY TypesStep DEF Types, RestTypes
<1>1. ASSUME job' = job, alone' \subseteq alone PROVE Goal
  BY <1>1 DEF Lone, Working
<1>2. ASSUME NEW i \in Jobs, Acts(i) PROVE Goal
  <2>1. PICK y : Turned(i, y) /\ (y = Done \/ (y.step \in Steps /\ y.kind = job[i].kind))
    BY <1>2, ActsTurn DEF Keeps
  <2>2. job[i].step \in Steps
    BY <1>2, ActsTurn
  <2>3. Working' \subseteq Working
    BY <2>1, <2>2, WorkingJobs DEF Turned, Working, Done, Steps
  <2>4. j \in alone
    BY <1>2, AloneActs
  <2>5. job'[j].step # "idle"
    BY <1>0, <2>1, <2>4 DEF Turned, Done, Steps, Lone
  <2> QED
    BY <2>3, <2>4, <2>5 DEF Lone
<1>3. ASSUME NEW i \in Jobs, Begins(i) PROVE Goal
  <2>1. job[i] = Idle /\ \A k \in Jobs \ {i} : job'[k] = job[k]
    BY <1>3, BeginsTurn DEF Turned
  <2>2. /\ job'[i].step # "idle" /\ Working' \subseteq Working \cup {i}
        /\ i \in Working' => job'[i].kind # "ghost"
    BY <1>3, <2>1, BeginsAs DEF Working
  <2>3. PICK kind : Begin(i, kind) /\ (kind = "ghost" => job'[i].kind = "ghost")
    BY <1>3, BeginsAs
  <2>4. CASE kind = "ghost"
    <3>1. alone' = alone /\ Working' \subseteq Working
      BY <2>2, <2>3, <2>4 DEF Begin
    <3> QED
      BY <1>0, <2>1, <2>2, <3>1 DEF Lone
  <2>5. CASE kind # "ghost" /\ Working = {}
    <3>1. alone' = alone \cup {i} /\ Working' \subseteq {i}
      BY <2>2, <2>3, <2>5 DEF Begin
    <3> QED
      BY <1>0, <2>1, <2>2, <3>1 DEF Lone
  <2>6. CASE kind # "ghost" /\ Working # {}
    <3>1. j \in alone \ Working
      BY <2>3, <2>6 DEF Begin
    <3>2. j # i
      BY <2>1, <3>1 DEF Lone, Idle
    <3> QED
      BY <1>0, <2>1, <2>2, <3>1, <3>2 DEF Lone
  <2> QED
    BY <2>4, <2>5, <2>6
<1> QED
  BY <1>1, <1>2, <1>3, NextCases
     DEF Outside, EditOnSite, CacheExpires, vars, history

-----------------------------------------------------------------------------
Listed(r) == Contents(LoginOf[r])[PeerOf[r]]

\* A rename or sync has written, if it writes, and every login it has told to
\* forget says the truth;
Refreshes(x) ==
  x.step \in {"forget", "room", "show", "ghost"} /\ x.kind \in {"rename", "sync"}
Forgotten(x) ==
  /\ x.step # "forget" => x.forget = {}
  /\ \A c \in Logins \ x.forget : TrueTo(c)

\* the rooms it has been to have the right names, and it knows the one for the
\* room it is at;
RoomsNamed(x) ==
  /\ x.kind = "rename" => \A r \in x.rooms : PeerOf[r] = x.number
  /\ \A r \in Rooms \ x.rooms :
       \/ x.kind = "rename" /\ PeerOf[r] # x.number
       \/ x.step \in {"room", "show"} /\ r \in x.room
       \/ shown[r] = Listed(r)
AtRoom(j, x) ==
  x.step \in {"room", "show"} =>
    \E r \in Rooms : /\ x.room = {r} /\ x.number = PeerOf[r]
                     /\ x.step = "show" => x.got = Listed(r)
                     /\ x.step = "room" => \A c \in Logins : lock[c] = j => c = LoginOf[r]

\* and a number's only entry has the name it was given.
Given(x) ==
  x.kind = "rename" /\ Cardinality(Entries(x.login, x.number)) = 1
    => Contents(x.login)[x.number] = x.name

Knows(j) ==
  LET x == job[j]
  IN  Refreshes(x) => Forgotten(x) /\ RoomsNamed(x) /\ AtRoom(j, x) /\ Given(x)
Undisturbed == \A j \in alone : Knows(j)

\* It goes on, with what it knows.
LEMMA KnowsOn ==
  ASSUME NEW j, Knows(j), NEW y, job'[j] = y, UNCHANGED <<book, shown>>,
         \A c \in Logins : TrueTo(c) => TrueTo(c)',
         Refreshes(job[j]), y.kind = job[j].kind,
         y.number = job[j].number, y.login = job[j].login, y.name = job[j].name,
         y.rooms = job[j].rooms,
         y.step # "forget" => y.forget = {},
         \A c \in job[j].forget \ y.forget : TrueTo(c)',
         job[j].step \in {"room", "show"} => y.step \in {"room", "show"} /\ y.room = job[j].room,
         AtRoom(j, y)'
  PROVE  Knows(j)'
<1>1. \A r : Listed(r)' = Listed(r)
  BY ContentsStay DEF Listed
<1>2. Forgotten(y)'
  BY DEF Knows, Forgotten
<1>3. RoomsNamed(y)'
  BY <1>1 DEF Knows, RoomsNamed
<1>4. Given(y)'
  <2>1. \A c : Contents(c)' = Contents(c)
    BY ContentsStay
  <2>2. \A c, n : Entries(c, n)' = Entries(c, n)
    BY DEF Entries
  <2> QED
    BY <2>1, <2>2 DEF Knows, Given
<1> QED
  BY <1>2, <1>3, <1>4 DEF Knows

\* Others look names up for ghosts meanwhile.
LEMMA KnowsBeside ==
  ASSUME Types, Paths, Lone, [Next]_vars, NEW j \in alone', j \in Jobs,
         j \in alone => Knows(j),
         UNCHANGED vars \/ Outside \/ \E k \in Jobs \ {j} : Begins(k) \/ Acts(k)
  PROVE  Knows(j)'
<1>1. SUFFICES ASSUME Refreshes(job'[j]) PROVE Knows(j)'
  BY DEF Knows
<1>2. job'[j] = job[j]
  <2>1. CASE UNCHANGED vars \/ Outside
    BY <2>1 DEF Outside, EditOnSite, CacheExpires, vars
  <2>2. ASSUME NEW k \in Jobs \ {j}, Begins(k) \/ Acts(k) PROVE job'[j] = job[j]
    <3>1. \E y : Turned(k, y)
      BY <2>2, BeginsTurn, ActsTurn
    <3> QED
      BY <3>1 DEF Turned
  <2> QED
    BY <2>1, <2>2
<1>3. j \in Working
  BY <1>1, <1>2, WorkingJobs DEF Refreshes, Steps
<1>4. /\ UNCHANGED <<book, shown>> /\ Knows(j)
      /\ \A c \in Logins : lock'[c] = j => lock[c] = j
  BY <1>3, OthersAreQuiet
<1>5. \A c \in Logins : TrueTo(c) => TrueTo(c)'
  BY <1>4, TrueStays
<1>6. AtRoom(j, job[j])'
  <2>1. \A r : Listed(r)' = Listed(r)
    BY <1>4, ContentsStay DEF Listed
  <2> QED
    BY <1>1, <1>2, <1>4, <2>1 DEF Knows, AtRoom
<1>7. job[j].step # "forget" => job[j].forget = {}
  BY <1>1, <1>2, <1>4 DEF Knows, Forgotten
<1> QED
  BY <1>1, <1>2, <1>4, <1>5, <1>6, <1>7, KnowsOn

\* It begins, or writes: nothing is told yet.
LEMMA KnowsBegun ==
  ASSUME Types, NEW j \in Jobs, Begins(j)
  PROVE  Knows(j)'
<1>1. CASE job'[j].kind = "sync" /\ job'[j].step = "forget"
           /\ job'[j].forget = Logins /\ job'[j].rooms = Rooms
  BY <1>1 DEF Knows, Forgotten, RoomsNamed, AtRoom, Given
<1>2. CASE ~Refreshes(job'[j])
  BY <1>2 DEF Knows
<1> QED
  BY <1>1, <1>2, BeginsAs DEF Refreshes

\* The entry that is written has the name afterwards.
LEMMA NameWritten ==
  ASSUME Site, NEW c \in Logins, NEW n \in Numbers, NEW i \in Nat, NEW name \in Names,
         i # 0 => i \in Entries(c, n)
  PROVE  LET w == Upsert(c, n, i, name)
         IN  w \in Seq(Entry) /\ \E k \in Matches(w, n) : w[k].name = name
<1> DEFINE b == book[c]
           w == Upsert(c, n, i, name)
<1>1. b \in Seq(Entry) /\ Len(b) \in Nat
  BY DEF Site
<1>2. w \in Seq(Entry)
  BY WrittenBook
<1>3. CASE i = 0
  <2> DEFINE e == [number |-> n, name |-> name]
  <2>1. w = Append(b, e) /\ e \in Entry /\ e.number = n /\ e.name = name
    BY <1>3 DEF Upsert, Create, Entry
  <2> HIDE DEF e, w, b
  <2>2. Len(w) = Len(b) + 1 /\ w[Len(b) + 1] = e
    BY <1>1, <2>1
  <2>3. Len(b) + 1 \in Matches(w, n) /\ w[Len(b) + 1].name = name
    BY <1>1, <2>1, <2>2 DEF Matches
  <2> QED
    BY <1>2, <2>3 DEF w, b
<1>4. CASE i # 0
  <2>1. i \in 1 .. Len(b) /\ b[i] \in Entry /\ b[i].number = n
    BY <1>1, <1>4 DEF Entries
  <2>2. w = [b EXCEPT ![i] = [b[i] EXCEPT !.name = name]]
    BY <1>4 DEF Upsert, Update
  <2> DEFINE e == [b[i] EXCEPT !.name = name]
  <2>3. e \in Entry /\ e.number = n /\ e.name = name
    BY <2>1 DEF Entry
  <2>4. w = [b EXCEPT ![i] = e]
    BY <2>2
  <2> HIDE DEF e, w, b
  <2>5. Len(w) = Len(b) /\ w[i] = e
    BY <1>1, <2>1, <2>3, <2>4
  <2>6. i \in Matches(w, n) /\ w[i].name = name
    BY <2>1, <2>3, <2>5 DEF Matches
  <2> QED
    BY <1>2, <2>6 DEF w, b
<1> QED
  BY <1>3, <1>4

\* A number's only entry is the one that ContactName takes.
Last(b, n) == CHOOSE i \in Matches(b, n) : \A other \in Matches(b, n) : other <= i
LEMMA OnlyIsLast ==
  ASSUME NEW b \in Seq(Entry), NEW n, Cardinality(Matches(b, n)) = 1, NEW k \in Matches(b, n)
  PROVE  Last(b, n) = k
<1>1. Matches(b, n) \in SUBSET (1 .. Len(b)) /\ Len(b) \in Nat
  BY DEF Matches
<1>2. IsFiniteSet(Matches(b, n))
  <2>1. 1 \in Int /\ Len(b) \in Int
    BY <1>1
  <2>2. IsFiniteSet(1 .. Len(b))
    BY <2>1, FS_Interval
  <2> QED
    BY <1>1, <2>2, FS_Subset
<1>3. Matches(b, n) = {k} /\ k \in Nat
  BY <1>1, <1>2, FS_Singleton
<1>4. \E i \in Matches(b, n) : \A other \in Matches(b, n) : other <= i
  BY <1>3
<1>5. Last(b, n) \in Matches(b, n)
  BY <1>4 DEF Last
<1> QED
  BY <1>3, <1>5

\* It writes: nothing is told yet.
LEMMA KnowsWritten ==
  ASSUME Types, NEW j \in Jobs, SetPhonebook(j), PathOK(job[j])
  PROVE  Knows(j)'
<1> DEFINE x == job[j]
<1>0. PICK rooms : rooms = IF x.kind = "rename" THEN {r \in Rooms : PeerOf[r] = x.number} ELSE {}
  OBVIOUS
<1>1. PICK y : y = [x EXCEPT !.step = "forget", !.forget = Logins, !.entry = 0, !.rooms = rooms]
  OBVIOUS
<1>2. x.step = "set" /\ JobShape(x) /\ JobFits(x, book) /\ job'[j] = y
  BY <1>0, <1>1, SetTurns, AtStep DEF Turned, Types, Steps
<1>3. /\ y.step = "forget" /\ y.kind = x.kind /\ y.forget = Logins /\ y.rooms = rooms
      /\ y.number = x.number /\ y.login = x.login /\ y.name = x.name
  BY <1>1, <1>2 DEF JobShape
<1>4. PICK c \in Logins, n \in Numbers, i \in Nat, name \in Names :
        /\ c = x.login /\ n = x.number /\ i = x.entry /\ name = x.name
        /\ (i # 0 => i \in Entries(c, n))
  BY <1>2 DEF JobFits, JobShape, Entries, Matches
<1>5. Cardinality(Entries(c, n)') = 1 => Contents(c)'[n] = name
  <2> SUFFICES ASSUME Cardinality(Entries(c, n)') = 1 PROVE Contents(c)'[n] = name
    OBVIOUS
  <2>1. PICK w : w = Upsert(c, n, i, name)
    OBVIOUS
  <2>2. book'[c] = w
    BY <1>4, <2>1 DEF SetPhonebook, Written, Changes, Types, Site
  <2>3. w \in Seq(Entry) /\ \E k \in Matches(w, n) : w[k].name = name
    BY <1>4, <2>1, NameWritten DEF Types
  <2>4. Entries(c, n)' = Matches(w, n)
    BY <2>2 DEF Entries, Matches
  <2>5. PICK k \in Matches(w, n) : w[k].name = name
    BY <2>3
  <2>6. Last(w, n) = k
    BY <2>3, <2>4, <2>5, OnlyIsLast
  <2>7. Contents(c)'[n] = w[Last(w, n)].name
    BY <2>2, <2>4, <2>5 DEF Contents, Last
  <2> QED
    BY <2>5, <2>6, <2>7
<1>6. Given(y)'
  BY <1>3, <1>4, <1>5 DEF Given
<1>7. Refreshes(y) => y.kind = "rename"
  BY <1>2, <1>3 DEF Refreshes, PathOK, Steps
<1>8. Refreshes(y) => Forgotten(y)' /\ RoomsNamed(y)' /\ AtRoom(j, y)'
  BY <1>0, <1>3, <1>7 DEF Forgotten, RoomsNamed, AtRoom
<1> QED
  BY <1>2, <1>6, <1>8 DEF Knows

\* A login has forgotten.
LEMMA KnowsForgotten ==
  ASSUME Types, [Next]_vars, NEW j \in Jobs, NEW d \in Logins, InvalidatePhonebook(j, d),
         Knows(j), alone' # {}
  PROVE  Knows(j)'
<1> DEFINE x == job[j]
<1>1. PICK y : y = [x EXCEPT !.forget = x.forget \ {d}]
  OBVIOUS
<1>2. x.step = "forget" /\ JobShape(x) /\ job'[j] = y
  BY <1>1, ForgetTurns DEF Turned
<1>3. /\ y.step = "forget" /\ y.kind = x.kind /\ y.number = x.number /\ y.login = x.login
      /\ y.name = x.name /\ y.rooms = x.rooms /\ y.forget = x.forget \ {d}
  BY <1>1, <1>2 DEF JobShape
<1>4. UNCHANGED <<book, shown, lock>> /\ lock[d] = Free /\ at' = [at EXCEPT ![d] = "never"]
  BY DEF InvalidatePhonebook, site
<1>5. \A c \in Logins : TrueTo(c) => TrueTo(c)'
  BY <1>4, TrueStays
<1>6. TrueTo(d)'
  BY <1>4 DEF TrueTo, Types, CacheTypes
<1>7. AtRoom(j, y)'
  BY <1>3 DEF AtRoom
<1>8. CASE Refreshes(x)
  BY <1>2, <1>3, <1>4, <1>5, <1>6, <1>7, <1>8, KnowsOn
<1>9. CASE ~Refreshes(x)
  BY <1>2, <1>3, <1>9 DEF Knows, Refreshes
<1> QED
  BY <1>8, <1>9

\* A name comes from a cache or an answer that says the truth.
LEMMA KnowsNamed ==
  ASSUME Types, [Next]_vars, NEW j \in Jobs, NEW d, NEW name, Named(j, d, name),
         JobShape(job[j]), job[j].step \in {"room", "ghost"}, Acts(j),
         book' = book, Knows(j), alone' # {},
         Refreshes(job[j]) /\ job[j].step = "room" =>
           \A r \in Rooms : job[j].room = {r} => name = Listed(r)
  PROVE  Knows(j)'
<1> DEFINE x == job[j]
<1>1. CASE Refreshes(x)
  <2>1. \A c \in Logins : TrueTo(c) => TrueTo(c)'
    BY TrueStays
  <2>2. \A r : Listed(r)' = Listed(r)
    BY ContentsStay DEF Listed
  <2>3. x.forget = {} /\ x.kind \in {"rename", "sync"}
    BY <1>1 DEF Knows, Forgotten, Refreshes
  <2>4. CASE x.step = "room"
    <3>1. PICK y : y = [x EXCEPT !.step = "show", !.got = name, !.page = <<>>]
      OBVIOUS
    <3>2. job'[j] = y /\ shown' = shown
      BY <2>4, <3>1, NamedTurns DEF Turned
    <3>3. /\ y.step = "show" /\ y.kind = x.kind /\ y.number = x.number
          /\ y.login = x.login /\ y.name = x.name /\ y.rooms = x.rooms
          /\ y.forget = x.forget /\ y.room = x.room /\ y.got = name
      BY <3>1 DEF JobShape
    <3>4. AtRoom(j, y)'
      <4>1. AtRoom(j, x)
        BY <1>1 DEF Knows
      <4> QED
        BY <1>1, <2>2, <2>4, <3>3, <4>1 DEF AtRoom
    <3> QED
      BY <1>1, <2>1, <2>3, <2>4, <3>2, <3>3, <3>4, KnowsOn
  <2>5. ASSUME NEW y, job'[j] = y, shown' = shown, x.step = "ghost",
               y.step \in {"forget", "ghost"}, y.kind = x.kind, y.number = x.number,
               y.login = x.login, y.name = x.name, y.rooms = x.rooms, y.forget = x.forget
        PROVE  Knows(j)'
    <3>1. AtRoom(j, y)'
      BY <2>5 DEF AtRoom
    <3> QED
      BY <1>1, <2>1, <2>3, <2>5, <3>1, KnowsOn
  <2>6. CASE x.step = "ghost" /\ GhostNamed(j)
    <3>1. PICK y : y = [x EXCEPT !.step = "forget", !.room = {}, !.ask = {}, !.page = <<>>]
      OBVIOUS
    <3>2. job'[j] = y /\ shown' = shown
      BY <2>3, <2>6, <3>1, GhostTurns DEF Turned
    <3>3. /\ y.step = "forget" /\ y.kind = x.kind /\ y.number = x.number
          /\ y.login = x.login /\ y.name = x.name /\ y.rooms = x.rooms
          /\ y.forget = x.forget
      BY <3>1 DEF JobShape
    <3> QED
      BY <2>5, <2>6, <3>2, <3>3
  <2>7. CASE x.step = "ghost" /\ ~GhostNamed(j)
    <3>1. PICK y : y = [x EXCEPT !.ask = x.ask \ {d}, !.page = <<>>]
      OBVIOUS
    <3>2. job'[j] = y /\ shown' = shown
      BY <2>7, <3>1, NamedTurns DEF Turned
    <3>3. /\ y.step = "ghost" /\ y.kind = x.kind /\ y.number = x.number
          /\ y.login = x.login /\ y.name = x.name /\ y.rooms = x.rooms
          /\ y.forget = x.forget
      BY <2>7, <3>1 DEF JobShape
    <3> QED
      BY <2>5, <2>7, <3>2, <3>3
  <2> QED
    BY <2>4, <2>6, <2>7
<1>2. CASE ~Refreshes(x)
  <2>1. x.kind \notin {"rename", "sync"}
    BY <1>2 DEF Refreshes
  <2>2. job'[j] = Done \/ job'[j].kind = x.kind
    BY ActsTurn DEF Turned, Keeps
  <2> QED
    BY <2>1, <2>2 DEF Knows, Refreshes, Done
<1> QED
  BY <1>1, <1>2

\* It asks for a name.
LEMMA KnowsAsked ==
  ASSUME Types, [Next]_vars, NEW j \in Jobs, NEW d \in Logins, ContactName(j, d),
         Knows(j), alone' # {}
  PROVE  Knows(j)'
<1> DEFINE x == job[j]
<1>0. Acts(j) /\ book' = book
  BY DEF Acts, ContactName, CachedName, ReadPhonebook, CacheNames, KeepNames, site
<1>1. Refreshes(x) /\ x.step # "forget" => \A c \in Logins : TrueTo(c)
  BY DEF Knows, Forgotten
<1>2. Refreshes(x) /\ x.step = "room" =>
        \E r \in Rooms : /\ x.room = {r} /\ x.number = PeerOf[r]
                         /\ \A c \in Logins : lock[c] = j => c = LoginOf[r]
  BY DEF Knows, AtRoom
<1>3. ASSUME CachedName(j, d) PROVE Knows(j)'
  <2>1. /\ Named(j, d, cache[d][x.number]) /\ Asks(j, d) /\ at[d] # "never"
        /\ JobShape(x) /\ x.step \in {"room", "ghost"}
    BY <1>3, AskingJob DEF CachedName
  <2>2. ASSUME Refreshes(x), x.step = "room", NEW r \in Rooms, x.room = {r}
        PROVE  cache[d][x.number] = Listed(r)
    <3>1. d = LoginOf[r] /\ x.number = PeerOf[r]
      BY <1>2, <2>1, <2>2 DEF Asks, Step
    <3>2. cache[d] = Contents(d)
      BY <1>1, <2>1, <2>2 DEF TrueTo, Types, CacheTypes
    <3> QED
      BY <3>1, <3>2 DEF Listed
  <2> QED
    BY <1>0, <2>1, <2>2, KnowsNamed
<1>4. ASSUME CacheNames(j, d) PROVE Knows(j)'
  <2>1. /\ Named(j, d, x.page[x.number]) /\ lock[d] = j /\ j # Free
        /\ JobShape(x) /\ x.step \in {"room", "ghost"}
    BY <1>4, AskedName, JobsAssumption DEF CacheNames, Free
  <2>2. ASSUME Refreshes(x), x.step = "room", NEW r \in Rooms, x.room = {r}
        PROVE  x.page[x.number] = Listed(r)
    <3>1. d = LoginOf[r] /\ x.number = PeerOf[r]
      BY <1>2, <2>1, <2>2
    <3>2. x.page = Contents(d)
      BY <1>1, <2>1, <2>2 DEF TrueTo
    <3> QED
      BY <3>1, <3>2 DEF Listed
  <2> QED
    BY <1>0, <2>1, <2>2, KnowsNamed
<1>5. CASE KeepNames(j, d)
  BY <1>5 DEF KeepNames
<1>6. ASSUME ReadPhonebook(j, d) PROVE Knows(j)'
  <2>1. /\ JobShape(x) /\ x.step \in {"room", "ghost"} /\ x.page = <<>> /\ Asks(j, d)
        /\ lock' = [lock EXCEPT ![d] = j] /\ shown' = shown
    BY <1>6, AskingJob DEF ReadPhonebook
  <2>2. PICK page : page = Contents(d)
    OBVIOUS
  <2>3. PICK y : y = [x EXCEPT !.page = page]
    OBVIOUS
  <2>4. job'[j] = y
    BY <1>6, <2>2, <2>3, ReadTurns DEF Turned
  <2>5. /\ y.step = x.step /\ y.kind = x.kind /\ y.number = x.number
        /\ y.login = x.login /\ y.name = x.name /\ y.rooms = x.rooms
        /\ y.forget = x.forget /\ y.room = x.room /\ y.got = x.got
    BY <2>1, <2>3 DEF JobShape
  <2>6. CASE Refreshes(x)
    <3>1. \A c \in Logins : TrueTo(c) => TrueTo(c)'
      BY <1>0, TrueStays
    <3>2. x.forget = {}
      BY <2>1, <2>6 DEF Knows, Forgotten
    <3>3. AtRoom(j, y)'
      <4>1. \A c \in Logins : lock[c] # j
        BY <2>1, HoldsNone
      <4>2. \A c \in Logins : lock'[c] = j => c = d
        BY <2>1, <4>1 DEF Types, CacheTypes
      <4>3. x.step = "room" => \E r \in x.room : d = LoginOf[r]
        BY <2>1 DEF Asks, Step
      <4> QED
        BY <1>2, <2>1, <2>5, <2>6, <4>2, <4>3 DEF AtRoom
    <3> QED
      BY <1>0, <2>1, <2>4, <2>5, <2>6, <3>1, <3>2, <3>3, KnowsOn
  <2>7. CASE ~Refreshes(x)
    BY <2>4, <2>5, <2>7 DEF Knows, Refreshes
  <2> QED
    BY <2>6, <2>7
<1> QED
  BY <1>3, <1>4, <1>5, <1>6 DEF ContactName

LEMMA KnowsNobody ==
  ASSUME Types, [Next]_vars, NEW j \in Jobs, NoContact(j), Knows(j), alone' # {}
  PROVE  Knows(j)'
<1>1. Acts(j) /\ book' = book /\ GhostNamed(j) /\ job[j].step = "ghost"
  BY DEF Acts, NoContact, site, Step
<1>2. JobShape(job[j])
  BY <1>1, ActsTurn
<1>3. Named(j, Nobody, Nobody)
  BY <1>1 DEF Named, Step, Nobody, Nameless
<1> QED
  BY <1>1, <1>2, <1>3, KnowsNamed

\* It goes to the next room.
LEMMA KnowsNext ==
  ASSUME Types, [Next]_vars, NEW j \in Jobs, NextRoom(j), Knows(j), alone' # {}
  PROVE  Knows(j)'
<1> DEFINE x == job[j]
<1>1. /\ UNCHANGED <<book, shown, lock>> /\ x.step = "forget" /\ x.forget = {} /\ JobShape(x)
  BY RoomTurns DEF NextRoom, site, caches
<1>2. CASE ~Refreshes(x)
  <2>1. x.kind \notin {"rename", "sync"}
    BY <1>1, <1>2 DEF Refreshes
  <2>2. job'[j] = Done \/ job'[j].kind = x.kind
    BY ActsTurn DEF Turned, Keeps, Acts
  <2> QED
    BY <2>1, <2>2 DEF Knows, Refreshes, Done
<1>3. CASE Refreshes(x) /\ job'[j] # Done
  <2>1. PICK r \in x.rooms :
          job'[j] = [x EXCEPT !.step = "room", !.room = {r}, !.rooms = x.rooms \ {r},
                              !.number = PeerOf[r]]
    BY <1>3, RoomTurns DEF Turned, Refreshes
  <2>2. PICK y : y = [x EXCEPT !.step = "room", !.room = {r}, !.rooms = x.rooms \ {r},
                               !.number = PeerOf[r]]
    OBVIOUS
  <2>3. /\ y.step = "room" /\ y.kind = x.kind /\ y.number = PeerOf[r] /\ y.login = x.login
        /\ y.name = x.name /\ y.rooms = x.rooms \ {r} /\ y.forget = {} /\ y.room = {r}
        /\ r \in Rooms
    BY <1>1, <2>2 DEF JobShape
  <2>4. y.kind = "rename" => y.number = x.number
    BY <1>3, <2>3 DEF Knows, RoomsNamed
  <2>5. \A c \in Logins : TrueTo(c)'
    BY <1>1, <1>3, TrueStays DEF Knows, Forgotten
  <2>6. \A s : Listed(s)' = Listed(s)
    BY <1>1, ContentsStay DEF Listed
  <2>7. RoomsNamed(y)'
    BY <1>1, <1>3, <2>3, <2>4, <2>6 DEF Knows, RoomsNamed
  <2>8. AtRoom(j, y)'
    <3>1. x.page = <<>>
      BY <1>1 DEF JobShape
    <3>2. \A c \in Logins : lock'[c] # j
      BY <1>1, <3>1, HoldsNone
    <3> QED
      BY <2>3, <3>2 DEF AtRoom
  <2>9. Given(y)'
    <3>1. \A c : Contents(c)' = Contents(c)
      BY <1>1, ContentsStay
    <3>2. \A c, n : Entries(c, n)' = Entries(c, n)
      BY <1>1 DEF Entries
    <3> QED
      BY <1>3, <2>3, <2>4, <3>1, <3>2 DEF Knows, Given
  <2> QED
    BY <2>1, <2>2, <2>3, <2>5, <2>7, <2>8, <2>9 DEF Knows, Forgotten
<1>4. CASE job'[j] = Done
  BY <1>4 DEF Knows, Refreshes, Done
<1> QED
  BY <1>2, <1>3, <1>4

\* It gives a room its name.
LEMMA KnowsShown ==
  ASSUME Types, [Next]_vars, NEW j \in Jobs, UpdateRoom(j), Knows(j), alone' # {}
  PROVE  Knows(j)'
<1> DEFINE x == job[j]
<1>1. PICK y : y = [x EXCEPT !.step = "ghost", !.ask = Logins, !.got = Nameless]
  OBVIOUS
<1>2. x.step = "show" /\ JobShape(x) /\ job'[j] = y
  BY <1>1, UpdateTurns DEF Turned
<1>3. /\ y.step = "ghost" /\ y.kind = x.kind /\ y.number = x.number /\ y.login = x.login
      /\ y.name = x.name /\ y.rooms = x.rooms /\ y.forget = x.forget /\ y.room = x.room
  BY <1>1, <1>2 DEF JobShape
<1>4. /\ book' = book
      /\ \A r \in Rooms : shown'[r] = IF r \in x.room THEN x.got ELSE shown[r]
  BY DEF UpdateRoom, site
<1>5. CASE Refreshes(x)
  <2>1. \A c \in Logins : TrueTo(c) => TrueTo(c)'
    BY <1>4, TrueStays
  <2>2. \A r : Listed(r)' = Listed(r)
    BY <1>4, ContentsStay DEF Listed
  <2>3. PICK r \in Rooms : x.room = {r} /\ x.got = Listed(r)
    BY <1>2, <1>5 DEF Knows, AtRoom
  <2>4. RoomsNamed(y)'
    BY <1>2, <1>3, <1>4, <1>5, <2>2, <2>3 DEF Knows, RoomsNamed
  <2>5. Forgotten(y)' /\ AtRoom(j, y)'
    BY <1>2, <1>3, <1>5, <2>1 DEF Knows, Forgotten, AtRoom
  <2>6. Given(y)'
    <3>1. \A c : Contents(c)' = Contents(c)
      BY <1>4, ContentsStay
    <3>2. \A c, n : Entries(c, n)' = Entries(c, n)
      BY <1>4 DEF Entries
    <3> QED
      BY <1>3, <1>5, <3>1, <3>2 DEF Knows, Given
  <2> QED
    BY <1>2, <2>4, <2>5, <2>6 DEF Knows
<1>6. CASE ~Refreshes(x)
  BY <1>2, <1>3, <1>6 DEF Knows, Refreshes
<1> QED
  BY <1>5, <1>6

LEMMA UndisturbedStep == Types /\ Paths /\ Lone /\ Undisturbed /\ [Next]_vars => Undisturbed'
<1> SUFFICES ASSUME Types, Paths, Lone, Undisturbed, [Next]_vars, NEW j \in alone'
             PROVE  Knows(j)'
  BY DEF Undisturbed
<1>1. j \in Jobs /\ (j \in alone => Knows(j))
  BY TypesStep DEF Types, RestTypes, Undisturbed
<1>2. CASE UNCHANGED vars \/ Outside \/ \E k \in Jobs \ {j} : Begins(k) \/ Acts(k)
  BY <1>1, <1>2, KnowsBeside
<1>3. CASE Begins(j)
  BY <1>1, <1>3, KnowsBegun
<1>4. CASE Acts(j)
  <2>1. Knows(j)
    BY <1>1, <1>4, AloneActs
  <2>2. CASE GetPhonebook(j)
    <3>1. PICK i \in Nat : Turned(j, [job[j] EXCEPT !.step = "set", !.entry = i])
      BY <1>1, <2>2, GetTurns
    <3>2. JobShape(job[j])
      BY <1>1, <2>2, GetTurns
    <3>3. job'[j].step = "set"
      BY <3>1, <3>2 DEF Turned, JobShape
    <3> QED
      BY <3>3 DEF Knows, Refreshes
  <2>3. CASE SetPhonebook(j)
    BY <1>1, <2>3, KnowsWritten DEF Paths
  <2>4. CASE CallFails(j)
    BY <2>4 DEF CallFails
  <2>5. ASSUME NEW c \in Logins, InvalidatePhonebook(j, c) \/ ContactName(j, c)
        PROVE  Knows(j)'
    BY <1>1, <2>1, <2>5, KnowsForgotten, KnowsAsked
  <2>6. CASE NextRoom(j) \/ UpdateRoom(j) \/ NoContact(j)
    BY <1>1, <2>1, <2>6, KnowsNext, KnowsShown, KnowsNobody
  <2> QED
    BY <1>4, <2>2, <2>3, <2>4, <2>5, <2>6 DEF Acts
<1> QED
  BY <1>1, <1>2, <1>3, <1>4, NextCases

NamesInv == Paths /\ Lone /\ Undisturbed

\* Only NextRoom ends a rename or a sync that no failure disturbed.
LEMMA EndsAtRooms ==
  ASSUME Types, NEW j \in alone', j \in Jobs, job'[j] = Done, Acts(j),
         job[j].kind \in {"rename", "sync"}
  PROVE  NextRoom(j) /\ job[j].rooms = {}
<1> DEFINE x == job[j]
<1>0. JobShape(x) /\ x.step \in Steps /\ job'[j].step \notin Steps
  BY ActsTurn DEF Done, Steps
<1>1. ASSUME GhostNamed(j) PROVE FALSE
  <2>1. PICK y : y = [x EXCEPT !.step = "forget", !.room = {}, !.ask = {}, !.page = <<>>]
    OBVIOUS
  <2>2. y.step = "forget" /\ job'[j] = y
    BY <1>0, <1>1, <2>1, GhostTurns DEF JobShape, Turned
  <2> QED
    BY <1>0, <2>2 DEF Steps
<1>2. ASSUME NEW c \in Logins, CachedName(j, c) \/ CacheNames(j, c) \/ KeepNames(j, c)
      PROVE  FALSE
  <2>1. PICK name \in Shown : Named(j, c, name)
    BY <1>2, AskedName
  <2>2. x.step \in {"room", "ghost"}
    BY <1>2, AskedName
  <2>3. PICK y : y = [x EXCEPT !.step = "show", !.got = name, !.page = <<>>]
    OBVIOUS
  <2>4. PICK z : z = [x EXCEPT !.ask = x.ask \ {c}, !.page = <<>>]
    OBVIOUS
  <2>5. y.step = "show" /\ z.step = x.step
    BY <1>0, <2>3, <2>4 DEF JobShape
  <2>6. job'[j] = y \/ job'[j] = z
    BY <1>1, <2>1, <2>3, <2>4, NamedTurns DEF Turned
  <2> QED
    BY <1>0, <2>2, <2>5, <2>6 DEF Steps
<1>3. ASSUME GetPhonebook(j) \/ SetPhonebook(j) \/ CallFails(j) PROVE FALSE
  <2>1. CASE GetPhonebook(j)
    <3>1. PICK i \in Nat : job'[j] = [x EXCEPT !.step = "set", !.entry = i]
      BY <2>1, GetTurns DEF Turned
    <3> QED
      BY <1>0, <3>1 DEF JobShape, Steps
  <2>2. CASE SetPhonebook(j)
    <3>1. PICK rooms :
            job'[j] = [x EXCEPT !.step = "forget", !.forget = Logins, !.entry = 0, !.rooms = rooms]
      BY <2>2, SetTurns DEF Turned
    <3> QED
      BY <1>0, <3>1 DEF JobShape, Steps
  <2> QED
    BY <1>3, <2>1, <2>2 DEF CallFails
<1>4. ASSUME NEW c \in Logins, InvalidatePhonebook(j, c) PROVE FALSE
  <2>1. x.step = "forget" /\ job'[j] = [x EXCEPT !.forget = x.forget \ {c}]
    BY <1>4, ForgetTurns DEF Turned
  <2> QED
    BY <1>0, <2>1 DEF JobShape, Steps
<1>5. ASSUME NEW c \in Logins, ReadPhonebook(j, c) PROVE FALSE
  <2>1. PICK page : job'[j] = [x EXCEPT !.page = page]
    BY <1>5, ReadTurns DEF Turned
  <2> QED
    BY <1>0, <2>1 DEF JobShape, Steps
<1>6. ASSUME UpdateRoom(j) PROVE FALSE
  <2>1. job'[j] = [x EXCEPT !.step = "ghost", !.ask = Logins, !.got = Nameless]
    BY <1>6, UpdateTurns DEF Turned
  <2> QED
    BY <1>0, <2>1 DEF JobShape, Steps
<1>7. ASSUME NextRoom(j), x.rooms # {} PROVE FALSE
  <2>1. PICK r : job'[j] = [x EXCEPT !.step = "room", !.room = {r}, !.rooms = x.rooms \ {r},
                                     !.number = PeerOf[r]]
    BY <1>7, RoomTurns DEF Turned
  <2> QED
    BY <1>0, <2>1 DEF JobShape, Steps
<1>8. ~NoContact(j)
  BY <1>1 DEF NoContact
<1> QED
  BY <1>2, <1>3, <1>4, <1>5, <1>6, <1>7, <1>8 DEF Acts, ContactName

\* An undisturbed rename or sync leaves the rooms with the phonebook's names,
\* whatever was looked up meanwhile.
THEOREM NamesAlwaysReach == Spec => NamesReach
<1>1. Init => NamesInv
  BY DEF Init, NamesInv, Paths, PathOK, Lone, Undisturbed, Idle, Steps
<1>2. Types /\ NamesInv /\ [Next]_vars => NamesInv'
  BY PathsStep, LoneStep, UndisturbedStep DEF NamesInv
<1>3. Types /\ NamesInv /\ [Next]_vars =>
        [\A j \in alone \cap alone' :
           job[j] # Done /\ job'[j] = Done /\ job[j].kind \in {"rename", "sync"} =>
             \A r \in Rooms :
               LET c == LoginOf[r]  n == PeerOf[r]
               IN  /\ job[j].kind = "sync" \/ n = job[j].number
                        => shown[r] = Contents(c)[n]
                   /\ /\ job[j].kind = "rename" /\ n = job[j].number
                      /\ c = job[j].login /\ Cardinality(Entries(c, n)) = 1
                      => shown[r] = job[j].name]_vars
  <2> SUFFICES ASSUME Types, NamesInv, Next, NEW j \in alone \cap alone',
                      job[j] # Done, job'[j] = Done, job[j].kind \in {"rename", "sync"},
                      NEW r \in Rooms
               PROVE  LET c == LoginOf[r]  n == PeerOf[r]
                      IN  /\ job[j].kind = "sync" \/ n = job[j].number
                               => shown[r] = Contents(c)[n]
                          /\ /\ job[j].kind = "rename" /\ n = job[j].number
                             /\ c = job[j].login /\ Cardinality(Entries(c, n)) = 1
                             => shown[r] = job[j].name
    OBVIOUS
  <2>1. j \in Jobs /\ Knows(j)
    BY DEF Types, RestTypes, NamesInv, Undisturbed
  <2>2. Acts(j)
    <3>1. ASSUME NEW k \in Jobs, k # j, Begins(k) \/ Acts(k) PROVE FALSE
      <4>1. \E y : Turned(k, y)
        BY <3>1, BeginsTurn, ActsTurn
      <4> QED
        BY <2>1, <3>1, <4>1 DEF Turned
    <3>2. ~Outside
      BY DEF Outside, EditOnSite, CacheExpires
    <3>3. ~Begins(j)
      <4>1. Done.step = "done"
        BY DEF Done
      <4>2. Begins(j) => job'[j].step \in {"get", "forget", "ghost"}
        BY <2>1, BeginsAs
      <4> QED
        BY <4>1, <4>2
    <3> QED
      BY <3>1, <3>2, <3>3, NextCases
  <2>3. NextRoom(j) /\ job[j].rooms = {}
    BY <2>1, <2>2, EndsAtRooms
  <2>4. job[j].step = "forget" /\ Refreshes(job[j])
    BY <2>1, <2>3, RoomTurns DEF Refreshes
  <2>5. \/ job[j].kind = "rename" /\ PeerOf[r] # job[j].number
        \/ shown[r] = Listed(r)
    BY <2>1, <2>3, <2>4 DEF Knows, RoomsNamed
  <2>6. Given(job[j])
    BY <2>1, <2>4 DEF Knows
  <2> QED
    BY <2>5, <2>6 DEF Given, Listed
<1> QED
  BY <1>1, <1>2, <1>3, TypesInit, TypesStep, PTL DEF Spec, NamesReach
=============================================================================
