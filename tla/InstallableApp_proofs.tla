------------------------ MODULE InstallableApp_proofs ------------------------
(***************************************************************************)
(* Proofs about InstallableApp, for all files, precache lists, numbers of  *)
(* deployments and of offers to install.                                   *)
(***************************************************************************)
EXTENDS InstallableApp, TLAPS

-----------------------------------------------------------------------------
(***************************************************************************)
(* The inductive invariants                                                *)
(***************************************************************************)

\* No fingerprinted file is older in v than in w.
NotOlder(v, w) == \A f \in Fingerprinted : v[f] >= w[f]

\* Deployments only add: the workers of a device are in the order in which they
\* were served, none of them ahead of the server.
WorkersInv ==
  /\ \A f \in Files : deployed[f] <= release
  /\ installing # None => NotOlder(deployed, installing.version)
  /\ waiting # None => NotOlder(deployed, waiting)
  /\ active # None => NotOlder(deployed, active.version)
  /\ active # None /\ waiting # None => NotOlder(waiting, active.version)
  /\ active # None /\ installing # None => NotOlder(installing.version, active.version)
  /\ waiting # None /\ installing # None => NotOlder(installing.version, waiting)

\* What the server gave is no older than the version whose cache it is in, or, as
\* a copy still to be put away, than the worker that asked, which is in control;
\* and no cache is older than the worker in control.
CachesInv ==
  /\ \A e \in stores :
       e.file \in Fingerprinted /\ e.from = "server" => e.content >= e.version[e.file]
  /\ \A r \in fetched :
       /\ active # None
       /\ r.file \in Fingerprinted /\ r.from = "server"
            => r.content >= active.version[r.file]
  /\ InControl => \A e \in stores : NotOlder(e.version, active.version)

\* Events are numbered as they come, and only those that came are spent.
OfferInv ==
  /\ spent \subseteq 1..events
  /\ deferred # None => deferred \in 1..events /\ deferred \notin spent
  /\ visible => deferred # None

-----------------------------------------------------------------------------
(***************************************************************************)
(* Types                                                                   *)
(***************************************************************************)

LEMMA FilesType ==
  /\ Fingerprinted \subseteq Files
  /\ Assets \subseteq Files /\ Precached \subseteq Files
BY FilesAssumption DEF Files

LEMMA VersionType ==
  ASSUME TypeOK
  PROVE  CacheVersion \in Versions /\ CacheVersion # None
BY FilesType, FilesAssumption DEF TypeOK, CacheVersion, Versions

\* An answer is the server's or the copy the browser held.
LEMMA AnswerType ==
  ASSUME TypeOK, NEW f \in Files, NEW a \in Answers(f)
  PROVE  /\ a.file = f /\ a.content \in Releases /\ a.from \in Sources
         /\ a.from = "server" => a.content = deployed[f]
         /\ a.from = "browser" => f \in Assets /\ held[f] # None /\ a.content = held[f]
         /\ f \in Assets => a \in Response
BY DEF Answers, TypeOK, Response, Sources

LEMMA HoldType ==
  ASSUME TypeOK, NEW f \in Files, NEW a \in Answers(f), Hold(a)
  PROVE  held' \in [Assets -> Releases \cup {None}]
BY AnswerType DEF Hold, TypeOK

\* An answer to a request for `f' as an entry of a cache.
LEMMA EntryType ==
  ASSUME TypeOK, NEW f \in Files, NEW a \in Answers(f), NEW v \in Versions,
         NEW kind \in {"precache", "runtime"}
  PROVE  /\ EntryOf(kind, v, a) \in Entry
         /\ EntryOf(kind, v, a).version = v /\ EntryOf(kind, v, a).file = f
         /\ EntryOf(kind, v, a).content = a.content /\ EntryOf(kind, v, a).from = a.from
BY AnswerType DEF EntryOf, Entry

\* The same for a copy that was waiting to be put away.
LEMMA CopyType ==
  ASSUME NEW r \in Response, NEW v \in Versions, NEW kind \in {"precache", "runtime"}
  PROVE  /\ EntryOf(kind, v, r) \in Entry
         /\ EntryOf(kind, v, r).version = v /\ EntryOf(kind, v, r).file = r.file
         /\ EntryOf(kind, v, r).content = r.content /\ EntryOf(kind, v, r).from = r.from
BY FilesType DEF EntryOf, Entry, Response

\* What a step of a worker leaves alone.
LEMMA WorkerRest ==
  ASSUME TypeOK, UNCHANGED offerVars
  PROVE  /\ deferred' \in 1..MaxEvents \cup {None}
         /\ visible' \in BOOLEAN /\ dismissed' \in BOOLEAN
         /\ events' \in 0..MaxEvents
         /\ choosing' \subseteq 1..MaxEvents /\ spent' \subseteq 1..MaxEvents
BY DEF TypeOK, offerVars

LEMMA OfferRest ==
  ASSUME TypeOK, UNCHANGED workerVars
  PROVE  /\ release' \in Releases /\ deployed' \in [Files -> Releases]
         /\ held' \in [Assets -> Releases \cup {None}]
         /\ installing' \in Worker \cup {None}
         /\ waiting' \in Versions \cup {None}
         /\ active' \in Active \cup {None}
         /\ stores' \subseteq Entry /\ fetched' \subseteq Response
BY DEF TypeOK, workerVars

LEMMA WorkerType ==
  ASSUME TypeOK, CachesInv,
         \/ \E changed \in SUBSET Files \ {{}} : Deploy(changed)
         \/ Update \/ FillNext \/ Installed \/ TakeOver \/ Activated
         \/ \E f \in Assets : Browse(f) \/ Fetch(f)
         \/ \E r \in fetched : Store(r)
  PROVE  TypeOK'
<1>1. ASSUME NEW changed \in SUBSET Files, Deploy(changed) PROVE TypeOK'
  <2>1. release' \in Releases
    BY <1>1, FilesAssumption DEF Deploy, TypeOK, Releases
  <2>2. deployed' \in [Files -> Releases]
    BY <1>1, <2>1 DEF Deploy, TypeOK
  <2> QED BY <1>1, <2>1, <2>2, WorkerRest DEF Deploy, TypeOK
<1>2. CASE Update
  <2>1. installing' \in Worker
    BY <1>2, VersionType, FilesAssumption DEF Update, Worker
  <2> QED BY <1>2, <2>1, WorkerRest DEF Update, TypeOK
<1>3. CASE FillNext
  <2>1. installing \in Worker /\ installing.todo \in Seq(Precached)
        /\ installing.todo # <<>> /\ installing.version \in Versions
    BY <1>3 DEF FillNext, TypeOK, Worker
  <2>2. Head(installing.todo) \in Files /\ Tail(installing.todo) \in Seq(Precached)
    BY <2>1, FilesType
  <2>3. installing' \in Worker
    BY <1>3, <2>1, <2>2 DEF FillNext, Worker
  <2>4. stores' \subseteq Entry /\ held' \in [Assets -> Releases \cup {None}]
    <3>1. CASE UNCHANGED <<held, stores>>
      BY <3>1 DEF TypeOK
    <3>2. ASSUME NEW a \in Answers(Head(installing.todo)), Hold(a),
                 stores' = IF installing.reachable
                             THEN Put(EntryOf("precache", installing.version, a))
                             ELSE stores
          PROVE  stores' \subseteq Entry /\ held' \in [Assets -> Releases \cup {None}]
      <4>1. EntryOf("precache", installing.version, a) \in Entry
        BY <2>1, <2>2, EntryType
      <4> QED BY <4>1, <3>2, <2>2, HoldType DEF Put, TypeOK
    <3> QED BY <1>3, <3>1, <3>2 DEF FillNext
  <2> QED BY <1>3, <2>3, <2>4, WorkerRest DEF FillNext, TypeOK
<1>4. CASE Installed
  <2>1. installing.version \in Versions
    BY <1>4 DEF Installed, TypeOK, Worker
  <2> QED BY <1>4, <2>1, WorkerRest DEF Installed, TypeOK
<1>5. CASE TakeOver
  <2>1. active' \in Active
    BY <1>5 DEF TakeOver, TypeOK, Active
  <2> QED BY <1>5, <2>1, WorkerRest DEF TakeOver, TypeOK
<1>6. CASE Activated
  <2>1. active' \in Active
    BY <1>6 DEF Activated, TypeOK, Active
  <2>2. installing' \in Worker \cup {None}
    BY <1>6 DEF Activated, TypeOK, Worker
  <2>3. stores' \subseteq Entry
    BY <1>6 DEF Activated, TypeOK
  <2> QED BY <1>6, <2>1, <2>2, <2>3, WorkerRest DEF Activated, TypeOK
<1>7. ASSUME NEW f \in Assets, Fetch(f) PROVE TypeOK'
  <2>1. PICK a \in Answers(f) : Hold(a) /\ fetched' = fetched \cup {a}
    BY <1>7 DEF Fetch
  <2>2. a \in Response /\ held' \in [Assets -> Releases \cup {None}]
    BY <2>1, FilesType, AnswerType, HoldType
  <2> QED BY <1>7, <2>1, <2>2, WorkerRest DEF Fetch, TypeOK
<1>8. ASSUME NEW r \in fetched, Store(r) PROVE TypeOK'
  <2>1. active.version \in Versions /\ r \in Response
    BY DEF CachesInv, TypeOK, Active
  <2>2. EntryOf("runtime", active.version, r) \in Entry
    BY <2>1, CopyType
  <2>3. stores' \subseteq stores \cup {EntryOf("runtime", active.version, r)}
    BY <1>8 DEF Store, Put
  <2> QED BY <1>8, <2>2, <2>3, WorkerRest DEF Store, TypeOK
<1>9. ASSUME NEW f \in Assets, Browse(f) PROVE TypeOK'
  <2>1. held' \in [Assets -> Releases \cup {None}]
    BY <1>9, FilesType, HoldType DEF Browse
  <2> QED BY <1>9, <2>1, WorkerRest DEF Browse, TypeOK
<1> QED BY <1>1, <1>2, <1>3, <1>4, <1>5, <1>6, <1>7, <1>8, <1>9

LEMMA OfferType ==
  ASSUME TypeOK,
         \/ OfferInstall \/ PressInstall
         \/ \E e \in choosing, accepted \in BOOLEAN : Choose(e, accepted)
         \/ AppInstalled \/ LoadPage
  PROVE  TypeOK'
<1>1. CASE OfferInstall
  <2>1. events' \in 1..MaxEvents /\ deferred' = events'
    BY <1>1, FilesAssumption DEF OfferInstall, TypeOK
  <2> QED BY <1>1, <2>1, OfferRest DEF OfferInstall, TypeOK
<1>2. CASE PressInstall
  BY <1>2, OfferRest DEF PressInstall, TypeOK
<1>3. CASE \E e \in choosing, accepted \in BOOLEAN : Choose(e, accepted)
  <2>1. dismissed' \in BOOLEAN /\ choosing' \subseteq choosing
    BY <1>3 DEF Choose, WriteDismissed, TypeOK
  <2> QED BY <1>3, <2>1, OfferRest DEF Choose, TypeOK
<1>4. CASE AppInstalled \/ LoadPage
  BY <1>4, OfferRest DEF AppInstalled, LoadPage, TypeOK
<1> QED BY <1>1, <1>2, <1>3, <1>4

LEMMA TypeStep ==
  ASSUME TypeOK, CachesInv, [Next]_vars
  PROVE  TypeOK'
<1>1. CASE UNCHANGED vars
  BY <1>1, WorkerRest, OfferRest DEF vars, TypeOK
<1> QED BY <1>1, WorkerType, OfferType DEF Next

LEMMA InitType == Init => TypeOK
<1> SUFFICES ASSUME Init PROVE TypeOK
  OBVIOUS
<1>1. 0 \in Releases /\ 0 \in 0..MaxEvents
  BY FilesAssumption DEF Releases
<1>2. visible \in BOOLEAN /\ dismissed \in BOOLEAN
  BY DEF Init
<1>3. deployed \in [Files -> Releases]
  BY <1>1 DEF Init
<1> QED BY <1>1, <1>2, <1>3 DEF Init, TypeOK

-----------------------------------------------------------------------------
(***************************************************************************)
(* Workers and caches                                                      *)
(***************************************************************************)

LEMMA Transitive ==
  ASSUME NEW u \in Versions, NEW v \in Versions, NEW w \in Versions,
         NotOlder(u, v), NotOlder(v, w)
  PROVE  NotOlder(u, w)
BY DEF NotOlder, Versions, Releases

LEMMA Reflexive ==
  ASSUME NEW v \in Versions
  PROVE  NotOlder(v, v)
BY DEF NotOlder, Versions, Releases

\* A deployment moves no file back.
LEMMA DeployStep ==
  ASSUME TypeOK, WorkersInv, NEW changed \in SUBSET Files, Deploy(changed)
  PROVE  WorkersInv'
<1>1. \A f \in Files : deployed'[f] >= deployed[f] /\ deployed'[f] <= release'
  BY FilesAssumption DEF Deploy, TypeOK, Releases, WorkersInv
<1>2. ASSUME NEW v \in Versions, NotOlder(deployed, v) PROVE NotOlder(deployed', v)
  <2> SUFFICES ASSUME NEW f \in Fingerprinted PROVE deployed'[f] >= v[f]
    BY DEF NotOlder
  <2>1. f \in Files /\ deployed[f] >= v[f]
    BY <1>2, FilesType DEF NotOlder
  <2>2. v[f] \in Nat /\ deployed[f] \in Nat
    BY <2>1 DEF Versions, Releases, TypeOK
  <2>3. deployed'[f] \in Nat
    BY <2>1, FilesAssumption DEF Deploy, TypeOK, Releases
  <2> QED BY <1>1, <2>1, <2>2, <2>3
<1>3. installing # None => installing.version \in Versions
  BY DEF TypeOK, Worker
<1>4. waiting # None => waiting \in Versions
  BY DEF TypeOK
<1>5. active # None => active.version \in Versions
  BY DEF TypeOK, Active
<1>6. UNCHANGED <<installing, waiting, active>>
  BY DEF Deploy
<1> QED BY <1>1, <1>2, <1>3, <1>4, <1>5, <1>6 DEF WorkersInv

LEMMA WorkersStep ==
  ASSUME TypeOK, CachesInv, WorkersInv, [Next]_vars
  PROVE  WorkersInv'
<1>1. CASE \E changed \in SUBSET Files \ {{}} : Deploy(changed)
  BY <1>1, DeployStep
<1>2. CASE Update
  <2>1. NotOlder(CacheVersion, deployed)' /\ installing'.version = CacheVersion
        /\ UNCHANGED <<release, deployed, waiting, active>>
    BY <1>2, FilesType DEF Update, NotOlder, CacheVersion, TypeOK, Releases
  <2>2. \A v : NotOlder(deployed, v) => NotOlder(CacheVersion, v)
    BY DEF NotOlder, CacheVersion
  <2>3. NotOlder(deployed, CacheVersion)
    BY FilesType DEF NotOlder, CacheVersion, TypeOK, Releases
  <2> QED BY <2>1, <2>2, <2>3 DEF WorkersInv
<1>3. CASE FillNext
  <2>1. installing'.version = installing.version /\ installing # None
        /\ UNCHANGED <<release, deployed, waiting, active>>
    BY <1>3 DEF FillNext, TypeOK, Worker
  <2> QED BY <2>1 DEF WorkersInv
<1>4. CASE Installed
  BY <1>4 DEF Installed, WorkersInv
<1>5. CASE TakeOver
  <2>1. active'.version = waiting /\ waiting # None /\ waiting' = None
        /\ UNCHANGED <<release, deployed, installing>>
    BY <1>5 DEF TakeOver
  <2> QED BY <2>1 DEF WorkersInv
<1>6. CASE Activated
  <2>1. active'.version = active.version /\ active # None
        /\ UNCHANGED <<release, deployed, waiting>>
    BY <1>6 DEF Activated, TypeOK, Active
  <2>2. installing # None => installing'.version = installing.version
    BY <1>6 DEF Activated, TypeOK, Worker
  <2>3. installing = None => installing' = None
    BY <1>6 DEF Activated
  <2> QED BY <2>1, <2>2, <2>3 DEF WorkersInv
<1>7. CASE UNCHANGED <<release, deployed, installing, waiting, active>>
  BY <1>7 DEF WorkersInv
<1> QED BY <1>1, <1>2, <1>3, <1>4, <1>5, <1>6, <1>7
  DEF Next, Browse, Fetch, Store, OfferInstall, PressInstall, Choose, AppInstalled,
      LoadPage, vars, workerVars

\* The steps that put an entry in a cache.
LEMMA EntryStep ==
  ASSUME TypeOK, CachesInv, WorkersInv, NEW e \in Entry, stores' \subseteq stores \cup {e},
         e.file \in Fingerprinted /\ e.from = "server" => e.content >= e.version[e.file],
         InControl => NotOlder(e.version, active.version),
         fetched' \subseteq fetched, UNCHANGED active
  PROVE  CachesInv'
BY DEF CachesInv, InControl

LEMMA CachesStep ==
  ASSUME TypeOK, CachesInv, WorkersInv, [Next]_vars
  PROVE  CachesInv'
<1>1. CASE FillNext
  <2>1. installing \in Worker /\ installing.todo \in Seq(Precached)
        /\ installing.todo # <<>> /\ installing.version \in Versions
        /\ installing # None
    BY <1>1 DEF FillNext, TypeOK, Worker
  <2>2. Head(installing.todo) \in Files
    BY <2>1, FilesType
  <2>3. CASE UNCHANGED stores
    BY <1>1, <2>3 DEF FillNext, CachesInv, InControl
  <2>4. ASSUME NEW a \in Answers(Head(installing.todo)),
               stores' \subseteq stores \cup {EntryOf("precache", installing.version, a)}
        PROVE  CachesInv'
    <3> DEFINE entry == EntryOf("precache", installing.version, a)
    <3>1. /\ entry \in Entry /\ entry.version = installing.version
          /\ entry.file = Head(installing.todo)
          /\ entry.content = a.content /\ entry.from = a.from
      BY <2>1, <2>2, EntryType
    <3>2. a.from = "server" => a.content = deployed[Head(installing.todo)]
      BY <2>2, AnswerType
    <3>3. /\ entry.file \in Fingerprinted /\ entry.from = "server"
               => entry.content >= entry.version[entry.file]
          /\ InControl => NotOlder(entry.version, active.version)
      BY <2>1, <3>1, <3>2 DEF WorkersInv, NotOlder, InControl
    <3>4. fetched' \subseteq fetched /\ UNCHANGED active
      BY <1>1 DEF FillNext
    <3>5. stores' \subseteq stores \cup {entry}
      BY <2>4
    <3> HIDE DEF entry
    <3> QED BY <3>1, <3>3, <3>4, <3>5, EntryStep
  <2> QED BY <1>1, <2>3, <2>4 DEF FillNext, Put
<1>2. CASE TakeOver
  <2>1. ~active'.activated /\ fetched' = {} /\ stores' = stores
    BY <1>2 DEF TakeOver
  <2> QED BY <2>1 DEF CachesInv, InControl
<1>3. CASE Activated
  <2>1. active \in Active /\ active' = [active EXCEPT !.activated = TRUE]
        /\ stores' = {e \in stores : e.version = active.version}
        /\ fetched' = fetched
    BY <1>3 DEF Activated, Outdated, TypeOK
  <2>2. active' \in Active /\ active'.version = active.version
        /\ active.version \in Versions
    BY <2>1 DEF Active
  <2>3. active' # None
    BY <2>2, FilesAssumption
  <2>4. NotOlder(active.version, active.version)
    BY <2>2, Reflexive
  <2> QED BY <2>1, <2>2, <2>3, <2>4 DEF CachesInv
<1>4. ASSUME NEW f \in Assets, Fetch(f) PROVE CachesInv'
  <2>1. active # None /\ UNCHANGED <<active, stores>>
    BY <1>4 DEF Fetch
  <2>2. PICK a \in Answers(f) : fetched' = fetched \cup {a}
    BY <1>4 DEF Fetch
  <2>3. a.file = f /\ (a.from = "server" => a.content = deployed[f])
    BY FilesType, AnswerType
  <2>4. f \in Fingerprinted => deployed[f] >= active.version[f]
    BY <2>1 DEF WorkersInv, NotOlder
  <2> QED BY <2>1, <2>2, <2>3, <2>4 DEF CachesInv, InControl
<1>5. ASSUME NEW r \in fetched, Store(r) PROVE CachesInv'
  <2> DEFINE entry == EntryOf("runtime", active.version, r)
  <2>1. active.version \in Versions /\ r \in Response
    BY DEF CachesInv, TypeOK, Active
  <2>2. /\ entry \in Entry /\ entry.version = active.version
        /\ entry.file = r.file /\ entry.content = r.content /\ entry.from = r.from
    BY <2>1, CopyType
  <2>3. stores' \subseteq stores \cup {entry} /\ fetched' \subseteq fetched
        /\ UNCHANGED active
    BY <1>5 DEF Store, Put
  <2>4. /\ entry.file \in Fingerprinted /\ entry.from = "server"
             => entry.content >= entry.version[entry.file]
        /\ NotOlder(entry.version, active.version)
    BY <2>1, <2>2, Reflexive DEF CachesInv
  <2> HIDE DEF entry
  <2> QED BY <2>2, <2>3, <2>4, EntryStep
<1>6. CASE UNCHANGED <<active, stores, fetched>>
  BY <1>6 DEF CachesInv, InControl
<1> QED BY <1>1, <1>2, <1>3, <1>4, <1>5, <1>6
  DEF Next, Deploy, Browse, Update, Installed, OfferInstall, PressInstall, Choose,
      AppInstalled, LoadPage, vars, workerVars

LEMMA CachesInit == Init => WorkersInv /\ CachesInv
BY DEF Init, WorkersInv, CachesInv, InControl

LEMMA NotOlderServed ==
  ASSUME TypeOK, CachesInv
  PROVE  NothingOlderServed
<1> SUFFICES ASSUME InControl, NEW e \in stores, NEW f \in Fingerprinted
             PROVE  /\ e.version[f] >= active.version[f]
                    /\ e.file = f /\ e.from = "server" => e.content >= active.version[f]
  BY DEF NothingOlderServed
<1>1. e.version[f] >= active.version[f]
  BY DEF CachesInv, NotOlder
<1>2. active \in Active /\ e \in Entry
  BY DEF InControl, TypeOK
<1>3. e.content \in Nat /\ e.version[f] \in Nat /\ active.version[f] \in Nat
  BY <1>2 DEF Active, Entry, Versions, Releases
<1>4. e.file = f /\ e.from = "server" => e.content >= e.version[f]
  BY DEF CachesInv
<1> QED BY <1>1, <1>3, <1>4

\* Every variable of the device keeps its type.
THEOREM TypeCorrect == Spec => []TypeOK
BY InitType, CachesInit, TypeStep, WorkersStep, CachesStep, PTL DEF Spec

\* However deployments, installs, takeovers and late puts interleave, a worker
\* in control answers from no cache filled for an earlier version, nor with a
\* fingerprinted file older than its release, unless the browser's own HTTP
\* cache answered the worker when it asked for that file.
THEOREM NothingOlderIsServed == Spec => []NothingOlderServed
BY InitType, CachesInit, TypeStep, WorkersStep, CachesStep, NotOlderServed, PTL
   DEF Spec

-----------------------------------------------------------------------------
(***************************************************************************)
(* The offer to install                                                    *)
(***************************************************************************)

LEMMA OfferStep ==
  ASSUME TypeOK, OfferInv, [Next]_vars
  PROVE  OfferInv'
<1>1. CASE OfferInstall
  <2>1. /\ events \in Nat /\ events' = events + 1 /\ deferred' = events'
        /\ spent' = spent
    BY <1>1 DEF OfferInstall, TypeOK
  <2> QED BY <2>1, FilesAssumption DEF OfferInv
<1>2. CASE PressInstall
  BY <1>2 DEF PressInstall, OfferInv
<1>3. CASE \E e \in choosing, accepted \in BOOLEAN : Choose(e, accepted)
  BY <1>3 DEF Choose, OfferInv
<1>4. CASE AppInstalled \/ LoadPage
  BY <1>4 DEF AppInstalled, LoadPage, OfferInv
<1>5. CASE UNCHANGED offerVars
  BY <1>5 DEF offerVars, OfferInv
<1> QED BY <1>1, <1>2, <1>3, <1>4, <1>5
  DEF Next, Deploy, Browse, Update, FillNext, Installed, TakeOver, Activated, Fetch,
      Store, vars

\* A button that can be seen holds a prompt that was never shown.
THEOREM OffersAreLive == Spec => []OfferIsLive
<1>1. Init => OfferInv
  BY DEF Init, OfferInv
<1>2. OfferInv => OfferIsLive
  BY DEF OfferInv, OfferIsLive
<1> QED BY <1>1, <1>2, InitType, CachesInit, TypeStep, WorkersStep, CachesStep,
           OfferStep, PTL DEF Spec

-----------------------------------------------------------------------------
(***************************************************************************)
(* Never ahead of the server, so up to date when the worker is             *)
(***************************************************************************)

\* Whoever answered, nothing on the device is newer than what is deployed, which
\* only moves forward, and no cache is of a version that was not served yet.
AheadInv ==
  /\ \A f \in Assets : held[f] # None => held[f] <= deployed[f]
  /\ \A r \in fetched : r.content <= deployed[r.file]
  /\ \A e \in stores : e.content <= deployed[e.file] /\ NotOlder(deployed, e.version)

\* What a device serves once it has caught up.
ServesDeployed ==
  \A e \in stores :
    /\ e.version = CacheVersion
    /\ e.file \in Fingerprinted /\ e.from = "server" => e.content = deployed[e.file]

\* Once a device has a worker, it has one, and none for an older release.
NoWorkerGoesBack ==
  [][active # None => active' # None /\ NotOlder(active'.version, active.version)]_vars

LEMMA AnswerAhead ==
  ASSUME TypeOK, AheadInv, NEW f \in Files, NEW a \in Answers(f)
  PROVE  a.content <= deployed[f] /\ a.file = f
BY AnswerType DEF AheadInv, TypeOK, Releases, Sources

\* The steps in which a request was answered.
LEMMA AheadHeld ==
  ASSUME TypeOK, AheadInv, NEW f \in Files, NEW a \in Answers(f), Hold(a),
         UNCHANGED deployed
  PROVE  \A g \in Assets : held'[g] # None => held'[g] <= deployed'[g]
BY AnswerAhead DEF Hold, AheadInv

\* The steps that put an entry in a cache.
LEMMA AheadPut ==
  ASSUME AheadInv, NEW e, e.content <= deployed[e.file], NotOlder(deployed, e.version),
         stores' \subseteq stores \cup {e}, fetched' \subseteq fetched, UNCHANGED deployed,
         \A g \in Assets : held'[g] # None => held'[g] <= deployed'[g]
  PROVE  AheadInv'
BY DEF AheadInv

LEMMA AheadDeploy ==
  ASSUME TypeOK, WorkersInv, AheadInv, NEW changed \in SUBSET Files, Deploy(changed)
  PROVE  AheadInv'
<1>1. ASSUME NEW f \in Files PROVE deployed[f] <= deployed'[f] /\ deployed'[f] \in Nat
  <2>1. deployed[f] <= release /\ release' = release + 1
    BY DEF Deploy, WorkersInv
  <2>2. deployed'[f] \in {release', deployed[f]}
    BY DEF Deploy
  <2>3. deployed[f] \in Nat /\ release \in Nat
    BY DEF TypeOK, Releases
  <2> QED BY <2>1, <2>2, <2>3
<1>2. ASSUME NEW f \in Files, NEW c \in Releases, c <= deployed[f]
      PROVE  c <= deployed'[f]
  <2>1. c \in Nat /\ deployed[f] \in Nat
    BY DEF TypeOK, Releases
  <2> QED BY <1>1, <1>2, <2>1
<1>3. ASSUME NEW v \in Versions, NotOlder(deployed, v) PROVE NotOlder(deployed', v)
  <2> SUFFICES ASSUME NEW f \in Fingerprinted PROVE deployed'[f] >= v[f]
    BY DEF NotOlder
  <2>1. f \in Files /\ v[f] \in Releases /\ deployed[f] >= v[f]
    BY <1>3, FilesType DEF NotOlder, Versions
  <2>2. v[f] \in Nat /\ deployed[f] \in Nat
    BY <2>1 DEF Releases, TypeOK
  <2> QED BY <1>1, <2>1, <2>2
<1>4. UNCHANGED <<held, stores, fetched>>
  BY DEF Deploy
<1>5. \A e \in stores' : e.content <= deployed'[e.file] /\ NotOlder(deployed', e.version)
  <2> SUFFICES ASSUME NEW e \in stores
               PROVE  e.content <= deployed'[e.file] /\ NotOlder(deployed', e.version)
    BY <1>4
  <2>1. e.file \in Files /\ e.content \in Releases /\ e.version \in Versions
    BY DEF TypeOK, Entry
  <2> QED BY <1>2, <1>3, <2>1 DEF AheadInv
<1>6. \A r \in fetched' : r.content <= deployed'[r.file]
  <2> SUFFICES ASSUME NEW r \in fetched PROVE r.content <= deployed'[r.file]
    BY <1>4
  <2>1. r.file \in Files /\ r.content \in Releases
    BY FilesType DEF TypeOK, Response
  <2> QED BY <1>2, <2>1 DEF AheadInv
<1>7. \A f \in Assets : held'[f] # None => held'[f] <= deployed'[f]
  BY <1>2, <1>4, FilesType DEF AheadInv, TypeOK
<1> QED BY <1>5, <1>6, <1>7 DEF AheadInv

LEMMA AheadStep ==
  ASSUME TypeOK, WorkersInv, CachesInv, AheadInv, [Next]_vars
  PROVE  AheadInv'
<1>1. CASE \E changed \in SUBSET Files \ {{}} : Deploy(changed)
  BY <1>1, AheadDeploy
<1>2. CASE FillNext
  <2>1. /\ installing # None /\ installing.version \in Versions
        /\ installing.todo \in Seq(Precached) /\ installing.todo # <<>>
    BY <1>2 DEF FillNext, TypeOK, Worker
  <2>2. Head(installing.todo) \in Files
    BY <2>1, FilesType
  <2>3. UNCHANGED <<deployed, fetched>>
    BY <1>2 DEF FillNext
  <2>4. CASE UNCHANGED <<held, stores>>
    BY <2>3, <2>4 DEF AheadInv
  <2>5. ASSUME NEW a \in Answers(Head(installing.todo)), Hold(a),
               stores' \subseteq stores \cup {EntryOf("precache", installing.version, a)}
        PROVE  AheadInv'
    <3> DEFINE entry == EntryOf("precache", installing.version, a)
    <3>1. entry.content <= deployed[entry.file] /\ entry.version = installing.version
      BY <2>1, <2>2, EntryType, AnswerAhead
    <3>2. NotOlder(deployed, entry.version)
      BY <2>1, <3>1 DEF WorkersInv
    <3>3. stores' \subseteq stores \cup {entry}
      BY <2>5
    <3>4. \A g \in Assets : held'[g] # None => held'[g] <= deployed'[g]
      BY <2>2, <2>3, <2>5, AheadHeld
    <3> HIDE DEF entry
    <3> QED BY <2>3, <3>1, <3>2, <3>3, <3>4, AheadPut
  <2> QED BY <1>2, <2>4, <2>5 DEF FillNext, Put
<1>3. CASE Activated
  BY <1>3 DEF Activated, AheadInv
<1>4. ASSUME NEW f \in Assets, Fetch(f) PROVE AheadInv'
  <2>1. PICK a \in Answers(f) : Hold(a) /\ fetched' = fetched \cup {a}
    BY <1>4 DEF Fetch
  <2>2. UNCHANGED <<deployed, stores>>
    BY <1>4 DEF Fetch
  <2>3. a.content <= deployed[a.file]
    BY FilesType, AnswerAhead
  <2>4. \A g \in Assets : held'[g] # None => held'[g] <= deployed'[g]
    BY <2>1, <2>2, FilesType, AheadHeld
  <2> QED BY <2>1, <2>2, <2>3, <2>4 DEF AheadInv
<1>5. ASSUME NEW r \in fetched, Store(r) PROVE AheadInv'
  <2> DEFINE entry == EntryOf("runtime", active.version, r)
  <2>1. active # None /\ active.version \in Versions /\ r \in Response
    BY DEF CachesInv, TypeOK, Active
  <2>2. entry.content <= deployed[entry.file] /\ entry.version = active.version
    BY <2>1, CopyType DEF AheadInv
  <2>3. NotOlder(deployed, entry.version)
    BY <2>1, <2>2 DEF WorkersInv
  <2>4. stores' \subseteq stores \cup {entry} /\ fetched' \subseteq fetched
        /\ UNCHANGED <<deployed, held>>
    BY <1>5 DEF Store, Put
  <2>5. \A g \in Assets : held'[g] # None => held'[g] <= deployed'[g]
    BY <2>4 DEF AheadInv
  <2> HIDE DEF entry
  <2> QED BY <2>2, <2>3, <2>4, <2>5, AheadPut
<1>6. CASE TakeOver
  BY <1>6 DEF TakeOver, AheadInv
<1>7. ASSUME NEW f \in Assets, Browse(f) PROVE AheadInv'
  <2>1. UNCHANGED <<deployed, stores, fetched>>
    BY <1>7 DEF Browse
  <2>2. \A g \in Assets : held'[g] # None => held'[g] <= deployed'[g]
    BY <1>7, <2>1, FilesType, AheadHeld DEF Browse
  <2> QED BY <2>1, <2>2 DEF AheadInv
<1>8. CASE UNCHANGED <<deployed, held, stores, fetched>>
  BY <1>8 DEF AheadInv
<1> QED BY <1>1, <1>2, <1>3, <1>4, <1>5, <1>6, <1>7, <1>8
  DEF Next, Update, Installed, OfferInstall, PressInstall, Choose, AppInstalled,
      LoadPage, vars, workerVars

\* A worker in control that was built for what is deployed answers from its own
\* caches alone, and what the server gave them is exactly what is deployed,
\* whatever was cached before it, by a fill a deployment overtook or by a put
\* nobody awaited: to catch up, a device has only to get that worker.  What the
\* browser's HTTP cache gave them may be older: the worker does not look again.
THEOREM UpToDateServesDeployed == Spec => [](UpToDate => ServesDeployed)
<1>1. Init => AheadInv
  BY DEF Init, AheadInv
<1>2. ASSUME TypeOK, NothingOlderServed, AheadInv PROVE UpToDate => ServesDeployed
  <2> SUFFICES ASSUME UpToDate, NEW e \in stores
               PROVE  /\ e.version = CacheVersion
                      /\ e.file \in Fingerprinted /\ e.from = "server"
                           => e.content = deployed[e.file]
    BY DEF ServesDeployed
  <2>1. e \in Entry /\ e.version \in Versions /\ CacheVersion \in Versions
    BY <1>2, VersionType DEF TypeOK, Entry
  <2>2. \A f \in Fingerprinted : CacheVersion[f] = deployed[f] /\ deployed[f] \in Nat
    BY <1>2, FilesType DEF CacheVersion, TypeOK, Releases
  <2>3. ASSUME NEW f \in Fingerprinted PROVE e.version[f] = CacheVersion[f]
    <3>1. e.version[f] >= deployed[f]
      BY <1>2, <2>2 DEF UpToDate, NothingOlderServed
    <3>2. deployed[f] >= e.version[f]
      BY <1>2 DEF AheadInv, NotOlder
    <3>3. e.version[f] \in Nat
      BY <2>1 DEF Versions, Releases
    <3> QED BY <2>2, <3>1, <3>2, <3>3
  <2>4. e.version = CacheVersion
    BY <2>1, <2>3 DEF Versions
  <2>5. ASSUME e.file \in Fingerprinted, e.from = "server" PROVE e.content = deployed[e.file]
    <3>1. e.content >= deployed[e.file]
      BY <1>2, <2>2, <2>5 DEF UpToDate, NothingOlderServed
    <3>2. e.content <= deployed[e.file] /\ e.content \in Nat
      BY <1>2, <2>1 DEF AheadInv, Entry, Releases
    <3> QED BY <2>2, <2>5, <3>1, <3>2
  <2> QED BY <2>4, <2>5
<1> QED BY <1>1, <1>2, InitType, CachesInit, TypeStep, WorkersStep, CachesStep,
           AheadStep, NotOlderServed, PTL DEF Spec

\* skipWaiting and clients.claim take the newest worker that was installed: no
\* order of installs, deployments and takeovers hands a device back to a worker
\* of an earlier build.
THEOREM WorkersOnlyMoveForward == Spec => NoWorkerGoesBack
<1>1. ASSUME TypeOK, WorkersInv, [Next]_vars
      PROVE  [active # None => active' # None /\ NotOlder(active'.version, active.version)]_vars
  <2> SUFFICES ASSUME active # None
               PROVE  active' # None /\ NotOlder(active'.version, active.version)
    OBVIOUS
  <2>1. active \in Active /\ active.version \in Versions
    BY <1>1 DEF TypeOK, Active
  <2>2. CASE TakeOver
    <3>1. active' \in Active /\ active'.version = waiting /\ waiting # None
      BY <1>1, <2>2 DEF TakeOver, TypeOK, Active
    <3> QED BY <3>1, <2>2, FilesAssumption, <1>1 DEF WorkersInv
  <2>3. CASE Activated
    <3>1. active' \in Active /\ active'.version = active.version
      BY <2>1, <2>3 DEF Activated, Active
    <3> QED BY <2>1, <3>1, FilesAssumption, Reflexive
  <2>4. CASE UNCHANGED active
    BY <2>1, <2>4, Reflexive
  <2> QED BY <1>1, <2>2, <2>3, <2>4
    DEF Next, Deploy, Browse, Update, FillNext, Installed, Fetch, Store, OfferInstall,
        PressInstall, Choose, AppInstalled, LoadPage, vars, workerVars
<1> QED BY <1>1, InitType, CachesInit, TypeStep, WorkersStep, CachesStep, PTL
           DEF Spec, NoWorkerGoesBack
=============================================================================
