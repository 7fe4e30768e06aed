--------------------------- MODULE InstallableApp ---------------------------
(***************************************************************************)
(* The installable app on one device: the service worker that keeps static *)
(* files (resources/pwa/service-worker.js), the version the server stamps  *)
(* on it (app/Support/Pwa.php) and the offer to install (resources/js/     *)
(* pwa.js).                                                                *)
(*                                                                         *)
(* A file's content is the number of the release that last changed it.  A  *)
(* worker is known by its SZ_VERSION, the fingerprint of the files that    *)
(* cacheVersion() hashes.  A cache is the set of its entries: the precache *)
(* and the runtime cache of a version are told apart by `kind'.  The files *)
(* under /assets/ have stable URLs and are served with a date and without  *)
(* Cache-Control, so the browser's own HTTP cache may answer a request for *)
(* one, the worker's too: `from' remembers who answered.  A file under     *)
(* /build/ is content-hashed: it changes the version, and no copy of it    *)
(* can be of another release, so its copies are not followed.              *)
(*                                                                         *)
(* The browser's part is external: its HTTP cache answers as long as it    *)
(* finds a copy fresh; one update job at a time, an installed              *)
(* worker that called skipWaiting() activates once the active worker is    *)
(* not itself activating, and activation terminates the worker it replaces *)
(* with whatever it had left to do.                                        *)
(***************************************************************************)
EXTENDS Naturals, Sequences, SequencesExt

CONSTANTS
  Assets,         \* files under /assets/
  PrecacheList,   \* SZ_PRECACHE, in order, without the files under /build/
  Fingerprinted,  \* the files whose content or URL cacheVersion() hashes
  MaxReleases,    \* bound: deployments of new files
  MaxEvents,      \* bound: beforeinstallprompt events
  None

Precached == ToSet(PrecacheList)
Files == Assets \cup Precached \cup Fingerprinted
Releases == 0..MaxReleases
Versions == [Fingerprinted -> Releases]

VARIABLES
  release,     \* the number of the last deployment
  deployed,    \* [Files -> Releases]: what the server answers
  held,        \* [Assets -> Releases or None]: the copies of the browser's HTTP cache
  installing,  \* None, or the worker whose install event runs
  waiting,     \* None, or the version of an installed worker
  active,      \* None, or the worker in control
  stores,      \* entries of the caches of this origin
  fetched,     \* responses the active worker has yet to put in its runtime cache
  deferred,    \* pwa.js: deferredPrompt of the page
  visible,     \* whether the install buttons are shown
  choosing,    \* prompts whose userChoice is awaited
  dismissed,   \* localStorage: DISMISSED_KEY
  events,      \* how many beforeinstallprompt events were fired
  spent        \* the events whose prompt() was called

workerVars == <<release, deployed, held, installing, waiting, active, stores, fetched>>
offerVars == <<deferred, visible, choosing, dismissed, events, spent>>
vars == <<workerVars, offerVars>>

Sources == {"server", "browser"}
Worker == [version : Versions, todo : Seq(Precached), reachable : BOOLEAN]
Active == [version : Versions, activated : BOOLEAN]
Entry == [kind : {"precache", "runtime"}, version : Versions,
          file : Files, content : Releases, from : Sources]
Response == [file : Assets, content : Releases, from : Sources]

ASSUME FilesAssumption ==
  /\ PrecacheList \in Seq(Precached) /\ PrecacheList # <<>>
  /\ MaxReleases \in Nat /\ MaxEvents \in Nat
  /\ None \notin Versions \cup Worker \cup Active /\ None \notin Nat

\* What the code keeps in each variable.
TypeOK ==
  /\ release \in Releases /\ deployed \in [Files -> Releases]
  /\ held \in [Assets -> Releases \cup {None}]
  /\ installing \in Worker \cup {None}
  /\ waiting \in Versions \cup {None}
  /\ active \in Active \cup {None}
  /\ stores \subseteq Entry /\ fetched \subseteq Response
  /\ deferred \in 1..MaxEvents \cup {None}
  /\ visible \in BOOLEAN /\ dismissed \in BOOLEAN
  /\ events \in 0..MaxEvents
  /\ choosing \subseteq 1..MaxEvents /\ spent \subseteq 1..MaxEvents

-----------------------------------------------------------------------------
(* The server.                                                             *)

\* Pwa::cacheVersion().
CacheVersion == [f \in Fingerprinted |-> deployed[f]]

\* A deployment replaces some of the files; their content only moves forward.
Deploy(changed) ==
  /\ release < MaxReleases
  /\ release' = release + 1
  /\ deployed' = [f \in Files |-> IF f \in changed THEN release' ELSE deployed[f]]
  /\ UNCHANGED <<held, installing, waiting, active, stores, fetched, offerVars>>

-----------------------------------------------------------------------------
(* The browser's HTTP cache.                                               *)

\* Who may answer a request for `f', and with what.  The worker asks with the
\* default cache mode; only what nginx serves from /assets/ may be kept unasked.
Answers(f) ==
  {[file |-> f, content |-> deployed[f], from |-> "server"]} \cup
  IF f \in Assets /\ held[f] # None
    THEN {[file |-> f, content |-> held[f], from |-> "browser"]} ELSE {}

\* The answer is kept.
Hold(a) == held' = [f \in Assets |-> IF f = a.file THEN a.content ELSE held[f]]

\* A page that no worker controls loads its stylesheets and scripts.
Browse(f) ==
  /\ \E a \in Answers(f) : Hold(a)
  /\ UNCHANGED <<release, deployed, installing, waiting, active, stores, fetched, offerVars>>

-----------------------------------------------------------------------------
(* The life of a worker.                                                   *)

Newest ==
  CASE installing # None -> installing.version
    [] installing = None /\ waiting # None -> waiting
    [] installing = None /\ waiting = None /\ active # None -> active.version
    [] OTHER -> None

\* A slip to rule out: a worker that is in control is never replaced.
UpdateOnce ==
  /\ Newest = None
  /\ installing' = [version |-> CacheVersion, todo |-> PrecacheList, reachable |-> TRUE]
  /\ UNCHANGED <<release, deployed, held, waiting, active, stores, fetched, offerVars>>

\* register() on load, and the check of every navigation: the bytes served for
\* the worker differ from those of the newest one, so it is installed.
Update ==
  /\ installing = None /\ Newest # CacheVersion
  /\ installing' = [version |-> CacheVersion, todo |-> PrecacheList, reachable |-> TRUE]
  /\ UNCHANGED <<release, deployed, held, waiting, active, stores, fetched, offerVars>>

\* The answer `a' as an entry of a cache of version `v'.
EntryOf(kind, v, a) ==
  [kind |-> kind, version |-> v, file |-> a.file, content |-> a.content, from |-> a.from]

\* What the caches hold after `e' is put in its cache.
Put(e) ==
  {x \in stores : <<x.kind, x.version, x.file>> # <<e.kind, e.version, e.file>>} \cup {e}

\* fillPrecache: the next URL is asked for and added, or its failure is swallowed.
\* A cache deleted since it was opened takes the entry where no match finds it.
FillNext ==
  /\ installing # None /\ installing.todo # <<>>
  /\ installing' = [installing EXCEPT !.todo = Tail(@)]
  /\ \/ \E a \in Answers(Head(installing.todo)) :
          /\ Hold(a)
          /\ stores' = IF installing.reachable
                         THEN Put(EntryOf("precache", installing.version, a)) ELSE stores
     \/ UNCHANGED <<held, stores>>
  /\ UNCHANGED <<release, deployed, waiting, active, fetched, offerVars>>

\* The end of install: skipWaiting().
Installed ==
  /\ installing # None /\ installing.todo = <<>>
  /\ waiting' = installing.version
  /\ installing' = None
  /\ UNCHANGED <<release, deployed, held, active, stores, fetched, offerVars>>

\* The browser replaces the active worker; its unfinished puts go with it.
TakeOver ==
  /\ waiting # None
  /\ active # None => active.activated
  /\ active' = [version |-> waiting, activated |-> FALSE]
  /\ waiting' = None
  /\ fetched' = {}
  /\ UNCHANGED <<release, deployed, held, installing, stores, offerVars>>

\* A slip to rule out: the runtime caches of other versions are kept.
OutdatedPrecache(e) == e.kind = "precache" /\ e.version # active.version

\* The caches that are neither this version's precache nor its runtime cache.
Outdated(e) == e.version # active.version

\* The activate event: every other cache is deleted, then clients.claim().
Activated ==
  /\ active # None /\ ~active.activated
  /\ stores' = {e \in stores : ~Outdated(e)}
  /\ active' = [active EXCEPT !.activated = TRUE]
  /\ installing' = IF installing # None /\ installing.version # active.version
                     THEN [installing EXCEPT !.reachable = FALSE]
                     ELSE installing
  /\ UNCHANGED <<release, deployed, held, waiting, fetched, offerVars>>

-----------------------------------------------------------------------------
(* Requests of the pages the worker controls.                              *)

\* caches.match(): an entry of any cache answers.
Matches(f) == {e \in stores : e.file = f}

\* A static file no cache holds is asked for; the answer goes to the page at once.
\* Any other request is left to the network, and a page that cannot be had is
\* answered with the offline page: neither puts anything in a cache.
Fetch(f) ==
  /\ active # None /\ active.activated
  /\ Matches(f) = {}
  /\ \E a \in Answers(f) : Hold(a) /\ fetched' = fetched \cup {a}
  /\ UNCHANGED <<release, deployed, installing, waiting, active, stores, offerVars>>

\* The copy reaches the runtime cache later: nobody awaits it.
Store(r) ==
  /\ stores' = Put(EntryOf("runtime", active.version, r))
  /\ fetched' = fetched \ {r}
  /\ UNCHANGED <<release, deployed, held, installing, waiting, active, offerVars>>

-----------------------------------------------------------------------------
(* The offer to install, on the page in front.                             *)

ReadDismissed == dismissed

\* beforeinstallprompt, while readDismissed() says no.
OfferInstall ==
  /\ events < MaxEvents /\ ~ReadDismissed
  /\ events' = events + 1
  /\ deferred' = events'
  /\ visible' = TRUE
  /\ UNCHANGED <<workerVars, choosing, dismissed, spent>>

\* A slip to rule out: the button stays.
PressInstallKeepingButton ==
  /\ visible /\ deferred # None
  /\ deferred' = None
  /\ spent' = spent \cup {deferred}
  /\ choosing' = choosing \cup {deferred}
  /\ UNCHANGED <<workerVars, visible, dismissed, events>>

\* A press of the button: hidden first, then the browser's prompt.
PressInstall ==
  /\ visible /\ deferred # None
  /\ visible' = FALSE
  /\ deferred' = None
  /\ spent' = spent \cup {deferred}
  /\ choosing' = choosing \cup {deferred}
  /\ UNCHANGED <<workerVars, dismissed, events>>

\* Without a store (private mode) it is forgotten, which ReadDismissed reads as no.
WriteDismissed == dismissed' \in {dismissed, TRUE}

\* await prompt.userChoice.
Choose(e, accepted) ==
  /\ choosing' = choosing \ {e}
  /\ IF accepted THEN dismissed' = dismissed ELSE WriteDismissed
  /\ UNCHANGED <<workerVars, deferred, visible, events, spent>>

\* appinstalled, also when the browser's own menu installed it.
AppInstalled ==
  /\ deferred' = None
  /\ visible' = FALSE
  /\ UNCHANGED <<workerVars, choosing, dismissed, events, spent>>

\* Another page: its script starts from nothing, its buttons hidden.
LoadPage ==
  /\ deferred' = None
  /\ visible' = FALSE
  /\ choosing' = {}
  /\ UNCHANGED <<workerVars, dismissed, events, spent>>

-----------------------------------------------------------------------------
Init ==
  /\ release = 0 /\ deployed = [f \in Files |-> 0] /\ held = [f \in Assets |-> None]
  /\ installing = None /\ waiting = None /\ active = None
  /\ stores = {} /\ fetched = {}
  /\ deferred = None /\ visible = FALSE /\ dismissed = FALSE
  /\ events = 0 /\ choosing = {} /\ spent = {}

Next ==
  \/ \E changed \in SUBSET Files \ {{}} : Deploy(changed)
  \/ Update \/ FillNext \/ Installed \/ TakeOver \/ Activated
  \/ \E f \in Assets : Browse(f) \/ Fetch(f)
  \/ \E r \in fetched : Store(r)
  \/ OfferInstall \/ PressInstall
  \/ \E e \in choosing, accepted \in BOOLEAN : Choose(e, accepted)
  \/ AppInstalled \/ LoadPage

Spec == Init /\ [][Next]_vars

\* Pages keep being opened online, so the browser checks for an update, runs the
\* worker's events to their end and activates it.
FairSpec == Spec /\ WF_vars(Update \/ FillNext \/ Installed) /\ WF_vars(TakeOver \/ Activated)

-----------------------------------------------------------------------------
(* Properties.                                                             *)

InControl == active # None /\ active.activated

\* The worker in control was built for what is deployed.
UpToDate == InControl /\ active.version = CacheVersion

\* What a worker in control answers with was cached by no worker before it, and
\* a file the server itself gave is no older than the worker's release: a fill
\* that a deployment overtook or a put nobody awaited leaves nothing behind.  An
\* older file is one the browser's HTTP cache gave when the cache was filled.
NothingOlderServed ==
  InControl =>
    \A e \in stores : \A f \in Fingerprinted :
      /\ e.version[f] >= active.version[f]
      /\ e.file = f /\ e.from = "server" => e.content >= active.version[f]

\* An installed app is not left with the worker of a previous build or with what
\* that worker cached: on a device that goes on opening pages the last version
\* comes to control it, every entry is one of its caches, and what the server
\* gave is what is deployed.
CatchesUp ==
  <>[](/\ UpToDate
       /\ \A e \in stores :
            /\ e.version = CacheVersion
            /\ e.file \in Fingerprinted /\ e.from = "server" => e.content = deployed[e.file])

\* A button that can be seen can be pressed: it holds a prompt that was never
\* shown, whatever events, presses, choices and installations came before.
OfferIsLive == visible => deferred # None /\ deferred \notin spent
=============================================================================
