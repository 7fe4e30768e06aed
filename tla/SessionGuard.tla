---------------------------- MODULE SessionGuard ----------------------------
(***************************************************************************)
(* Closing a page ends the sign-in: the script every page runs before it   *)
(* is drawn (public/assets/js/session-guard.js), the server's session as   *)
(* it sees it, and the tabs of one browser.  A page that is left may stay  *)
(* in the back forward cache of its tab, with its script as it was.  When  *)
(* it is brought back a page of the signed-in shell or the sign-in page is *)
(* reloaded (resources/js/history-guard.js), any other is shown as it was. *)
(*                                                                         *)
(* Time is kept only as far as the script reads it: `gone' says that the   *)
(* last stamp is older than GONE_MS.  A confirmed page stamps every two    *)
(* seconds, so it gets that old only while no page is there.  A ping and   *)
(* its answer take less than ASK_MS: the timer of a page that asks fires   *)
(* when every page that heard the ping has dealt with it.                  *)
(***************************************************************************)
EXTENDS Naturals, FiniteSets

CONSTANTS
  Tabs,        \* tabs the browser may have open
  MaxSignIns,  \* bound: sign-ins, which also number the sessions
  MaxKept      \* bound: pages in the back forward caches of all tabs

ASSUME BoundsAssumption == MaxSignIns \in Nat /\ MaxKept \in Nat

VARIABLES
  session,   \* the live session on the server, 0 when there is none
  signIns,   \* how many sessions there were
  at,        \* what the page of a tab does
  gen,       \* the session it was rendered under; 0 without data-sz-auth="1"
  kept,      \* the confirmed pages in the back forward cache of a tab, by that session
  marker,    \* sessionStorage: the tab carries KEY
  gone,      \* localStorage: the stamp SEEN is older than GONE_MS
  pings,     \* [Tabs -> SUBSET Tabs]: who has yet to hear the ping of a tab
  answered,  \* the tabs that heard `alive' while they asked
  beside,    \* history: who was confirmed all the time since a tab that asks did
  ended,     \* history: the session that was live when every page was gone
  guest,     \* history: a page that says it is signed out ran since then
  thawed     \* history: a page came back from a back forward cache since then

vars == <<session, signIns, at, gen, kept, marker, gone, pings, answered,
          beside, ended, guest, thawed>>

Sessions == 1..MaxSignIns

TypeOK ==
  /\ session \in Sessions \cup {0} /\ signIns \in 0..MaxSignIns
  /\ at \in [Tabs -> {"closed", "away", "loading", "asking", "drawn", "leaving"}]
  /\ gen \in [Tabs -> Sessions \cup {0}]
  /\ kept \in [Tabs -> SUBSET (Sessions \cup {0})]
  /\ marker \in [Tabs -> BOOLEAN] /\ gone \in BOOLEAN
  /\ pings \in [Tabs -> SUBSET Tabs] /\ answered \subseteq Tabs
  /\ beside \in [Tabs -> SUBSET Tabs]
  /\ ended \in Sessions \cup {0} /\ guest \in BOOLEAN /\ thawed \in BOOLEAN

\* `confirmed' of the script: the page is shown, answers pings and stamps.
Confirmed(t) == at[t] = "drawn"

\* The document of tab t is left: what was on its way to it is lost, and it no
\* longer stands beside the tabs that ask.
Unload(t) ==
  /\ pings' = [u \in Tabs |-> IF u = t THEN {} ELSE pings[u] \ {t}]
  /\ answered' = answered \ {t}
  /\ beside' = [u \in Tabs |-> IF u = t THEN {} ELSE beside[u] \ {t}]

\* pagehide: a confirmed page stamps as it leaves.
Beat(t) == gone' = (gone /\ ~Confirmed(t))

\* The browser may keep a page that is left for another in the same tab.
Freeze(t) ==
  \/ UNCHANGED kept
  \/ /\ Confirmed(t)
     /\ kept' = [kept EXCEPT ![t] = @ \cup {gen[t]}]
     /\ Cardinality({p \in Tabs \X (Sessions \cup {0}) : p[2] \in kept'[p[1]]}) <= MaxKept

\* Tab t goes from its document to another one, or to none.
Replace(t, stage, g) ==
  /\ at' = [at EXCEPT ![t] = stage]
  /\ gen' = [gen EXCEPT ![t] = g]
  /\ Unload(t) /\ Beat(t)

Load(t, g) == Replace(t, "loading", g)

-----------------------------------------------------------------------------
(* Requests.  A page is rendered under the live session, if there is one;  *)
(* an error page and the offline page carry no data-sz-auth at all.        *)

Rendered == {session, 0}

\* A tab opened by hand has an empty sessionStorage; a duplicate has a copy.
OpenTab(t) ==
  /\ at[t] = "closed"
  /\ \E copied \in {FALSE} \cup {marker[u] : u \in {v \in Tabs : at[v] # "closed"}} :
       marker' = [marker EXCEPT ![t] = copied]
  /\ \E g \in Rendered : Load(t, g)
  /\ UNCHANGED <<session, signIns, kept, ended, guest, thawed>>

\* "Continue where you left off", or a closed tab reopened: with its storage.
RestoreTab(t) ==
  /\ at[t] = "closed"
  /\ \E g \in Rendered : Load(t, g)
  /\ UNCHANGED <<session, signIns, kept, marker, ended, guest, thawed>>

\* Where the next page can be asked for: a page that is seen, or another site.
MayGo(t) == Confirmed(t) \/ at[t] = "away"

\* A link, a form, a reload, an address.
Visit(t) ==
  /\ MayGo(t)
  /\ \E g \in Rendered : Load(t, g)
  /\ Freeze(t)
  /\ UNCHANGED <<session, signIns, marker, ended, guest, thawed>>

\* The sign-in page, wherever it is asked for, ends the session.
VisitLogin(t) ==
  /\ MayGo(t)
  /\ session' = 0
  /\ Load(t, 0) /\ Freeze(t)
  /\ UNCHANGED <<signIns, marker, ended, guest, thawed>>

\* Its form: the next page is rendered under a new session.
SignIn(t) ==
  /\ Confirmed(t) /\ gen[t] = 0 /\ signIns < MaxSignIns
  /\ signIns' = signIns + 1
  /\ session' = signIns'
  /\ Load(t, session') /\ Freeze(t)
  /\ UNCHANGED <<marker, ended, guest, thawed>>

\* Another site, in the same tab.
Leave(t) ==
  /\ at[t] \notin {"closed", "away"}
  /\ Replace(t, "away", 0) /\ Freeze(t)
  /\ UNCHANGED <<session, signIns, marker, ended, guest, thawed>>

CloseTab(t) ==
  /\ at[t] # "closed"
  /\ Replace(t, "closed", 0)
  /\ kept' = [kept EXCEPT ![t] = {}]
  /\ UNCHANGED <<session, signIns, marker, ended, guest, thawed>>

\* Every page is gone: for longer than GONE_MS, or with the storage of its tab.
AllGone ==
  /\ \A t \in Tabs : at[t] \in {"closed", "away"}
  /\ \/ gone' = TRUE /\ marker' = marker
     \/ /\ \A t \in Tabs : at[t] = "closed"
        /\ gone' = gone /\ marker' = [t \in Tabs |-> FALSE]
  /\ ended' = session /\ guest' = FALSE /\ thawed' = FALSE
  /\ UNCHANGED <<session, signIns, at, gen, kept, pings, answered, beside>>

-----------------------------------------------------------------------------
(* Back and Forward to a page of the back forward cache.                   *)

\* A page without data-sz-sensitive is shown as it was left, confirmed: no script
\* runs, and its interval goes on stamping.
Thaw(t) ==
  /\ at[t] # "closed"
  /\ \E g \in kept[t] :
       /\ at' = [at EXCEPT ![t] = "drawn"]
       /\ gen' = [gen EXCEPT ![t] = g]
  /\ Unload(t)
  /\ gone' = FALSE /\ thawed' = TRUE
  /\ UNCHANGED <<session, signIns, kept, marker, ended, guest>>

\* One with it is reloaded by history-guard; it is confirmed as it was left, so it
\* stamps as it goes.
Reload(t) ==
  /\ at[t] # "closed" /\ kept[t] # {}
  /\ at' = [at EXCEPT ![t] = "loading"]
  /\ \E g \in Rendered : gen' = [gen EXCEPT ![t] = g]
  /\ Unload(t)
  /\ gone' = FALSE /\ thawed' = TRUE
  /\ UNCHANGED <<session, signIns, kept, marker, ended, guest>>

-----------------------------------------------------------------------------
(* The script.                                                             *)

Confirm(t) ==
  /\ at' = [at EXCEPT ![t] = "drawn"]
  /\ marker' = [marker EXCEPT ![t] = TRUE]
  /\ gone' = FALSE

\* A page that is not signed in marks its tab and is confirmed.
RunSignedOut(t) ==
  /\ at[t] = "loading" /\ gen[t] = 0
  /\ Confirm(t)
  /\ guest' = TRUE
  /\ UNCHANGED <<session, signIns, gen, kept, pings, answered, beside, ended, thawed>>

\* A signed-in page in a marked tab, after no long silence, carries on.
CarriesOn(t) == marker[t] /\ ~gone

RunSignedIn(t) ==
  /\ at[t] = "loading" /\ gen[t] # 0 /\ CarriesOn(t)
  /\ Confirm(t)
  /\ UNCHANGED <<session, signIns, gen, kept, pings, answered, beside, ended, guest, thawed>>

\* Any other signed-in page hides itself and asks the tabs whose script ran.
Ask(t) ==
  /\ at[t] = "loading" /\ gen[t] # 0 /\ ~CarriesOn(t)
  /\ at' = [at EXCEPT ![t] = "asking"]
  /\ pings' = [pings EXCEPT ![t] =
                 {u \in Tabs \ {t} : at[u] \in {"asking", "drawn", "leaving"}}]
  /\ beside' = [beside EXCEPT ![t] = {u \in Tabs : Confirmed(u)}]
  /\ UNCHANGED <<session, signIns, gen, kept, marker, gone, answered, ended, guest, thawed>>

\* A slip to rule out: a page that is itself asking answers, too.
AnswersAsking(u) == at[u] \in {"asking", "drawn"}

\* A slip to rule out: only a signed-out page answers.
AnswersGuest(u) == Confirmed(u) /\ gen[u] = 0

\* Who answers a ping, with a message that every tab that asks hears.
Answers(u) == Confirmed(u)

Hear(t, u) ==
  /\ u \in pings[t]
  /\ pings' = [pings EXCEPT ![t] = @ \ {u}]
  /\ answered' = IF Answers(u)
                   THEN answered \cup {v \in Tabs \ {u} : at[v] = "asking"}
                   ELSE answered
  /\ UNCHANGED <<session, signIns, at, gen, kept, marker, gone, beside, ended, guest, thawed>>

\* setTimeout(..., ASK_MS).
Due(t) == at[t] = "asking" /\ pings[t] = {}

TimerAnswered(t) ==
  /\ Due(t) /\ t \in answered
  /\ Confirm(t)
  /\ answered' = answered \ {t}
  /\ beside' = [beside EXCEPT ![t] = {}]
  /\ UNCHANGED <<session, signIns, gen, kept, pings, ended, guest, thawed>>

\* A slip to rule out: without an answer the page stays as it is.
TimerUnansweredIdle(t) == Due(t) /\ t \notin answered /\ UNCHANGED vars

TimerUnanswered(t) ==
  /\ Due(t) /\ t \notin answered
  /\ at' = [at EXCEPT ![t] = "leaving"]
  /\ beside' = [beside EXCEPT ![t] = {}]
  /\ UNCHANGED <<session, signIns, gen, kept, marker, gone, pings, answered,
                 ended, guest, thawed>>

\* location.replace: the sign-in page, or offline the worker's offline page.
Replaced(t) ==
  /\ at[t] = "leaving"
  /\ session' \in {0, session}
  /\ Load(t, 0)
  /\ UNCHANGED <<signIns, kept, marker, ended, guest, thawed>>

-----------------------------------------------------------------------------
Init ==
  /\ session = 0 /\ signIns = 0
  /\ at = [t \in Tabs |-> "closed"] /\ gen = [t \in Tabs |-> 0]
  /\ kept = [t \in Tabs |-> {}]
  /\ marker = [t \in Tabs |-> FALSE] /\ gone = FALSE
  /\ pings = [t \in Tabs |-> {}] /\ answered = {}
  /\ beside = [t \in Tabs |-> {}]
  /\ ended = 0 /\ guest = FALSE /\ thawed = FALSE

Script(t) ==
  \/ RunSignedOut(t) \/ RunSignedIn(t) \/ Ask(t)
  \/ \E u \in Tabs : Hear(t, u)
  \/ TimerAnswered(t) \/ TimerUnanswered(t) \/ Replaced(t)

User(t) ==
  \/ OpenTab(t) \/ RestoreTab(t) \/ Visit(t) \/ VisitLogin(t) \/ SignIn(t)
  \/ Leave(t) \/ CloseTab(t) \/ Thaw(t) \/ Reload(t)

Next == AllGone \/ \E t \in Tabs : Script(t) \/ User(t)

Spec == Init /\ [][Next]_vars

\* The browser loads what was asked for, delivers messages and fires timers.
FairSpec == Spec /\ \A t \in Tabs : WF_vars(Script(t))

-----------------------------------------------------------------------------
(* Properties.                                                             *)

\* Restored tabs do not vouch for each other: once every page was gone, no page
\* of that visit is drawn, however many tabs are restored or opened together,
\* until a page that says it is signed out has run or Back has brought a page of
\* that visit from the cache of a tab that was not closed.
RestoredDoNotVouch ==
  ended # 0 /\ ~guest /\ ~thawed => \A t \in Tabs : Confirmed(t) => gen[t] # ended

\* A new tab beside one that is still open stays signed in: a page that asks is
\* sent to the sign-in page only if no other was confirmed all the while.
OpenTabIsHeard ==
  [][\A t \in Tabs : at[t] = "asking" /\ at'[t] = "leaving" => beside[t] = {}]_vars

\* A page that hides itself is in the end drawn, replaced, left or closed.
HiddenPageResolves ==
  \A t \in Tabs : at[t] \in {"asking", "leaving"} ~> at[t] \in {"drawn", "away", "closed"}
=============================================================================
