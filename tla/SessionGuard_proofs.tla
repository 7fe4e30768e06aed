------------------------- MODULE SessionGuard_proofs -------------------------
(***************************************************************************)
(* Proofs about SessionGuard, for every set of tabs and number of sign-ins. *)
(***************************************************************************)
EXTENDS SessionGuard, TLAPS

-----------------------------------------------------------------------------
(***************************************************************************)
(* The inductive invariants                                                *)
(***************************************************************************)

\* Only a page that asks has been answered.  Once every page was gone, and while
\* no page without a sign-in has run and none came back from the cache of its
\* tab, none is confirmed, so none answers or stamps, and no page can carry on by
\* what its tab and the storage still hold.
RestoredInv ==
  /\ \A t \in answered : at[t] = "asking"
  /\ ended # 0 /\ ~guest /\ ~thawed =>
       /\ \A t \in Tabs : ~Confirmed(t)
       /\ answered = {}
       /\ gone \/ \A t \in Tabs : ~marker[t]

\* Whoever was confirmed all the time since a tab asked is confirmed, and either
\* has yet to hear the ping or has answered it.
HeardInv ==
  \A t \in Tabs : at[t] = "asking" =>
    \A u \in beside[t] : Confirmed(u) /\ u # t /\ (u \in pings[t] \/ t \in answered)

-----------------------------------------------------------------------------
(***************************************************************************)
(* Types                                                                   *)
(***************************************************************************)

Stages == {"closed", "away", "loading", "asking", "drawn", "leaving"}

LEMMA UnloadType ==
  ASSUME TypeOK, NEW t \in Tabs, Unload(t)
  PROVE  /\ pings' \in [Tabs -> SUBSET Tabs] /\ answered' \subseteq Tabs
         /\ beside' \in [Tabs -> SUBSET Tabs]
BY DEF TypeOK, Unload

LEMMA ReplaceType ==
  ASSUME TypeOK, NEW t \in Tabs, NEW stage \in Stages, NEW g \in Sessions \cup {0},
         Replace(t, stage, g)
  PROVE  /\ at' \in [Tabs -> Stages]
         /\ gen' \in [Tabs -> Sessions \cup {0}]
         /\ pings' \in [Tabs -> SUBSET Tabs] /\ answered' \subseteq Tabs
         /\ beside' \in [Tabs -> SUBSET Tabs] /\ gone' \in BOOLEAN
<1>1. /\ pings' \in [Tabs -> SUBSET Tabs] /\ answered' \subseteq Tabs
      /\ beside' \in [Tabs -> SUBSET Tabs]
  BY UnloadType DEF Replace
<1>2. gone' \in BOOLEAN
  BY DEF Replace, Beat, TypeOK
<1> QED BY <1>1, <1>2 DEF Replace, TypeOK, Stages

LEMMA LoadType ==
  ASSUME TypeOK, NEW t \in Tabs, NEW g \in Sessions \cup {0}, Load(t, g)
  PROVE  /\ at' \in [Tabs -> Stages]
         /\ gen' \in [Tabs -> Sessions \cup {0}]
         /\ pings' \in [Tabs -> SUBSET Tabs] /\ answered' \subseteq Tabs
         /\ beside' \in [Tabs -> SUBSET Tabs] /\ gone' \in BOOLEAN
BY ReplaceType DEF Load, Stages

\* What the browser keeps are pages it was showing.
LEMMA FreezeType ==
  ASSUME TypeOK, NEW t \in Tabs, Freeze(t)
  PROVE  kept' \in [Tabs -> SUBSET (Sessions \cup {0})]
<1>1. gen[t] \in Sessions \cup {0}
  BY DEF TypeOK
<1> QED BY <1>1 DEF Freeze, TypeOK

LEMMA ConfirmType ==
  ASSUME TypeOK, NEW t \in Tabs, Confirm(t)
  PROVE  /\ at' \in [Tabs -> Stages]
         /\ marker' \in [Tabs -> BOOLEAN] /\ gone' \in BOOLEAN
BY DEF TypeOK, Confirm, Stages

LEMMA UserType ==
  ASSUME TypeOK, NEW t \in Tabs, User(t)
  PROVE  TypeOK'
<1>0. Rendered \subseteq Sessions \cup {0}
  BY DEF Rendered, TypeOK
<1>1. CASE OpenTab(t)
  <2>1. marker' \in [Tabs -> BOOLEAN]
    BY <1>1 DEF OpenTab, TypeOK
  <2> QED BY <1>0, <1>1, <2>1, LoadType DEF OpenTab, TypeOK, Stages
<1>2. CASE RestoreTab(t)
  BY <1>0, <1>2, LoadType DEF RestoreTab, TypeOK, Stages
<1>3. CASE Visit(t)
  BY <1>0, <1>3, LoadType, FreezeType DEF Visit, TypeOK, Stages
<1>4. CASE VisitLogin(t)
  BY <1>4, LoadType, FreezeType DEF VisitLogin, TypeOK, Stages
<1>5. CASE SignIn(t)
  <2>1. signIns' \in Sessions
    BY <1>5, BoundsAssumption DEF SignIn, TypeOK, Sessions
  <2>2. signIns' \in 0..MaxSignIns
    BY <2>1, BoundsAssumption DEF Sessions
  <2> QED BY <1>5, <2>1, <2>2, LoadType, FreezeType DEF SignIn, TypeOK, Stages
<1>6. CASE Leave(t)
  BY <1>6, ReplaceType, FreezeType DEF Leave, TypeOK, Stages
<1>7. CASE CloseTab(t)
  <2>1. kept' \in [Tabs -> SUBSET (Sessions \cup {0})]
    BY <1>7 DEF CloseTab, TypeOK
  <2> QED BY <1>7, <2>1, ReplaceType DEF CloseTab, TypeOK, Stages
<1>8. CASE Thaw(t)
  <2>0. kept[t] \subseteq Sessions \cup {0}
    BY DEF TypeOK
  <2>1. PICK g \in kept[t] :
          at' = [at EXCEPT ![t] = "drawn"] /\ gen' = [gen EXCEPT ![t] = g]
    BY <1>8 DEF Thaw
  <2>2. g \in Sessions \cup {0}
    BY <2>0
  <2>3. at' \in [Tabs -> Stages] /\ gen' \in [Tabs -> Sessions \cup {0}]
    BY <2>1, <2>2 DEF TypeOK, Stages
  <2>4. gone' \in BOOLEAN /\ thawed' \in BOOLEAN
    BY <1>8 DEF Thaw
  <2> QED BY <1>8, <2>3, <2>4, UnloadType DEF Thaw, TypeOK, Stages
<1>9. CASE Reload(t)
  <2>1. /\ at' \in [Tabs -> Stages] /\ gen' \in [Tabs -> Sessions \cup {0}]
        /\ gone' \in BOOLEAN /\ thawed' \in BOOLEAN
    BY <1>0, <1>9 DEF Reload, TypeOK, Stages
  <2> QED BY <1>9, <2>1, UnloadType DEF Reload, TypeOK, Stages
<1> QED BY <1>1, <1>2, <1>3, <1>4, <1>5, <1>6, <1>7, <1>8, <1>9 DEF User

LEMMA ScriptType ==
  ASSUME TypeOK, NEW t \in Tabs, Script(t)
  PROVE  TypeOK'
<1>1. CASE RunSignedOut(t) \/ RunSignedIn(t)
  BY <1>1, ConfirmType DEF RunSignedOut, RunSignedIn, TypeOK, Stages
<1>2. CASE Ask(t)
  BY <1>2 DEF Ask, TypeOK
<1>3. CASE \E u \in Tabs : Hear(t, u)
  BY <1>3 DEF Hear, TypeOK
<1>4. CASE TimerAnswered(t)
  <2>1. answered' \subseteq Tabs /\ beside' \in [Tabs -> SUBSET Tabs]
    BY <1>4 DEF TimerAnswered, TypeOK
  <2> QED BY <1>4, <2>1, ConfirmType DEF TimerAnswered, TypeOK, Stages
<1>5. CASE TimerUnanswered(t)
  BY <1>5 DEF TimerUnanswered, TypeOK
<1>6. CASE Replaced(t)
  BY <1>6, LoadType DEF Replaced, TypeOK, Stages
<1> QED BY <1>1, <1>2, <1>3, <1>4, <1>5, <1>6 DEF Script

LEMMA TypeStep ==
  ASSUME TypeOK, [Next]_vars
  PROVE  TypeOK'
<1>1. CASE AllGone
  <2>1. gone' \in BOOLEAN /\ marker' \in [Tabs -> BOOLEAN]
    BY <1>1 DEF AllGone, TypeOK
  <2> QED BY <1>1, <2>1 DEF AllGone, TypeOK
<1>2. CASE UNCHANGED vars
  BY <1>2 DEF vars, TypeOK
<1> QED BY <1>1, <1>2, UserType, ScriptType DEF Next

LEMMA InitType == Init => TypeOK
<1> SUFFICES ASSUME Init PROVE TypeOK
  OBVIOUS
<1>1. 0 \in 0..MaxSignIns
  BY BoundsAssumption
<1>2. gone \in BOOLEAN /\ guest \in BOOLEAN /\ thawed \in BOOLEAN
      /\ marker \in [Tabs -> BOOLEAN]
  BY DEF Init
<1>3. /\ at \in [Tabs -> Stages]
      /\ gen \in [Tabs -> Sessions \cup {0}]
      /\ kept \in [Tabs -> SUBSET (Sessions \cup {0})]
      /\ pings \in [Tabs -> SUBSET Tabs] /\ beside \in [Tabs -> SUBSET Tabs]
  BY DEF Init, Stages
<1> QED BY <1>1, <1>2, <1>3 DEF Init, TypeOK, Stages

\* Every variable of the browser and of the script keeps its type, for any
\* number of tabs and sign-ins.
THEOREM TypeCorrect == Spec => []TypeOK
BY InitType, TypeStep, PTL DEF Spec

-----------------------------------------------------------------------------
(***************************************************************************)
(* Restored tabs                                                           *)
(***************************************************************************)

\* Leaving a page that was not confirmed leaves the stamp as it is.
LEMMA RestoredUser ==
  ASSUME TypeOK, RestoredInv, NEW t \in Tabs, User(t)
  PROVE  RestoredInv'
<1>1. CASE Thaw(t) \/ Reload(t)
  BY <1>1 DEF Thaw, Reload, Unload, RestoredInv, TypeOK
<1>2. CASE ~(Thaw(t) \/ Reload(t))
  <2>1. /\ answered' = answered \ {t}
        /\ \A u \in Tabs \ {t} : at'[u] = at[u]
        /\ at'[t] \in {"loading", "away", "closed"}
        /\ gone' = (gone /\ ~Confirmed(t))
        /\ UNCHANGED <<ended, guest, thawed>>
    BY <1>2 DEF User, OpenTab, RestoreTab, Visit, VisitLogin, SignIn, Leave, CloseTab,
                Load, Replace, Unload, Beat, TypeOK
  <2>2. (\A u \in Tabs : ~marker[u]) => \A u \in Tabs : ~marker'[u]
    <3>1. CASE OpenTab(t)
      <4>1. PICK copied \in {FALSE} \cup {marker[u] : u \in {v \in Tabs : at[v] # "closed"}} :
              marker' = [marker EXCEPT ![t] = copied]
        BY <3>1 DEF OpenTab
      <4> QED BY <4>1 DEF TypeOK
    <3>2. CASE ~OpenTab(t)
      <4>1. marker' = marker
        BY <1>2, <3>2
        DEF User, RestoreTab, Visit, VisitLogin, SignIn, Leave, CloseTab
      <4> QED BY <4>1
    <3> QED BY <3>1, <3>2
  <2> QED BY <2>1, <2>2 DEF RestoredInv, Confirmed, TypeOK
<1> QED BY <1>1, <1>2

LEMMA RestoredScript ==
  ASSUME TypeOK, RestoredInv, NEW t \in Tabs, Script(t)
  PROVE  RestoredInv'
<1>1. CASE RunSignedOut(t)
  BY <1>1 DEF RunSignedOut, Confirm, RestoredInv, TypeOK
<1>2. CASE RunSignedIn(t)
  <2>1. ~(ended # 0 /\ ~guest /\ ~thawed)
    BY <1>2 DEF RunSignedIn, CarriesOn, RestoredInv
  <2> QED BY <1>2, <2>1 DEF RunSignedIn, Confirm, RestoredInv, TypeOK
<1>3. CASE Ask(t)
  BY <1>3 DEF Ask, RestoredInv, Confirmed, TypeOK
<1>4. CASE \E u \in Tabs : Hear(t, u)
  BY <1>4 DEF Hear, Answers, RestoredInv, Confirmed, TypeOK
<1>5. CASE TimerAnswered(t)
  <2>1. ~(ended # 0 /\ ~guest /\ ~thawed)
    BY <1>5 DEF TimerAnswered, RestoredInv
  <2> QED BY <1>5, <2>1 DEF TimerAnswered, Confirm, RestoredInv, TypeOK
<1>6. CASE TimerUnanswered(t)
  BY <1>6 DEF TimerUnanswered, RestoredInv, Confirmed, TypeOK
<1>7. CASE Replaced(t)
  <2>1. /\ answered' = answered \ {t}
        /\ \A u \in Tabs \ {t} : at'[u] = at[u]
        /\ at'[t] = "loading"
        /\ gone' = gone
        /\ UNCHANGED <<marker, ended, guest, thawed>>
    BY <1>7 DEF Replaced, Load, Replace, Unload, Beat, Confirmed, TypeOK
  <2> QED BY <2>1 DEF RestoredInv, Confirmed, TypeOK
<1> QED BY <1>1, <1>2, <1>3, <1>4, <1>5, <1>6, <1>7 DEF Script

LEMMA RestoredStep ==
  ASSUME TypeOK, RestoredInv, [Next]_vars
  PROVE  RestoredInv'
<1>1. CASE AllGone
  BY <1>1 DEF AllGone, RestoredInv, Confirmed, TypeOK
<1>2. CASE UNCHANGED vars
  BY <1>2 DEF vars, RestoredInv, Confirmed
<1> QED BY <1>1, <1>2, RestoredUser, RestoredScript DEF Next

\* Restored tabs do not vouch for each other: after every page of a visit is
\* gone none of its pages is drawn, however many tabs come back at once, until
\* a page that says it is signed out has run or Back has brought one from the
\* cache of a tab that stayed open.
THEOREM RestoredTabsDoNotVouch == Spec => []RestoredDoNotVouch
<1>1. Init => RestoredInv
  BY DEF Init, RestoredInv
<1>2. RestoredInv => RestoredDoNotVouch
  BY DEF RestoredInv, RestoredDoNotVouch
<1> QED BY <1>1, <1>2, InitType, TypeStep, RestoredStep, PTL DEF Spec

-----------------------------------------------------------------------------
(***************************************************************************)
(* A tab beside an open one                                                *)
(***************************************************************************)

\* Every act of the reader, and the way to the sign-in page, leaves a document for
\* another one or for none.
LEMMA UserUnloads ==
  ASSUME TypeOK, NEW t \in Tabs, User(t) \/ Replaced(t)
  PROVE  /\ Unload(t) /\ \A u \in Tabs \ {t} : at'[u] = at[u]
         /\ at'[t] \in {"closed", "away", "loading", "drawn"}
BY DEF User, OpenTab, RestoreTab, Visit, VisitLogin, SignIn, Leave, CloseTab, Thaw,
       Reload, Replaced, Load, Replace, TypeOK

\* A page that is left stands beside nobody, and asks nobody.
LEMMA HeardUnload ==
  ASSUME TypeOK, HeardInv, NEW t \in Tabs, Unload(t),
         \A u \in Tabs \ {t} : at'[u] = at[u], at'[t] # "asking"
  PROVE  HeardInv'
<1> SUFFICES ASSUME NEW a \in Tabs, at'[a] = "asking", NEW u \in beside'[a]
             PROVE  Confirmed(u)' /\ u # a /\ (u \in pings'[a] \/ a \in answered')
  BY DEF HeardInv
<1>1. a # t /\ at[a] = "asking" /\ u \in beside[a] /\ u # t /\ u \in Tabs
  BY DEF Unload, TypeOK
<1>2. Confirmed(u) /\ u # a /\ (u \in pings[a] \/ a \in answered)
  BY <1>1 DEF HeardInv
<1> QED BY <1>1, <1>2 DEF Unload, Confirmed, TypeOK

LEMMA HeardScript ==
  ASSUME TypeOK, HeardInv, NEW t \in Tabs, Script(t)
  PROVE  HeardInv'
<1>1. CASE RunSignedOut(t) \/ RunSignedIn(t)
  BY <1>1 DEF RunSignedOut, RunSignedIn, Confirm, HeardInv, Confirmed, TypeOK
<1>2. CASE Ask(t)
  BY <1>2 DEF Ask, HeardInv, Confirmed, TypeOK
<1>3. ASSUME NEW u \in Tabs, Hear(t, u) PROVE HeardInv'
  BY <1>3 DEF Hear, Answers, HeardInv, Confirmed, TypeOK
<1>4. CASE TimerAnswered(t)
  BY <1>4 DEF TimerAnswered, Due, Confirm, HeardInv, Confirmed, TypeOK
<1>5. CASE TimerUnanswered(t)
  BY <1>5 DEF TimerUnanswered, Due, HeardInv, Confirmed, TypeOK
<1>6. CASE Replaced(t)
  BY <1>6, HeardUnload DEF Replaced, Load, Replace, TypeOK
<1> QED BY <1>1, <1>2, <1>3, <1>4, <1>5, <1>6 DEF Script

LEMMA HeardStep ==
  ASSUME TypeOK, HeardInv, [Next]_vars
  PROVE  HeardInv'
<1>1. CASE AllGone
  BY <1>1 DEF AllGone, HeardInv, Confirmed
<1>2. ASSUME NEW t \in Tabs, User(t) PROVE HeardInv'
  <2>1. /\ Unload(t) /\ \A u \in Tabs \ {t} : at'[u] = at[u]
        /\ at'[t] # "asking"
    BY <1>2, UserUnloads
  <2> QED BY <2>1, HeardUnload
<1>3. CASE UNCHANGED vars
  BY <1>3 DEF vars, HeardInv, Confirmed
<1> QED BY <1>1, <1>2, <1>3, HeardScript DEF Next

\* Only the timer of a page that nobody answered sends it away.
LEMMA LeavingIsUnanswered ==
  ASSUME TypeOK, [Next]_vars, NEW t \in Tabs, at[t] = "asking", at'[t] = "leaving"
  PROVE  TimerUnanswered(t)
<1>1. ASSUME NEW u \in Tabs, User(u) PROVE FALSE
  BY <1>1, UserUnloads
<1>2. ASSUME NEW u \in Tabs, Script(u) PROVE TimerUnanswered(t)
  BY <1>2 DEF Script, RunSignedOut, RunSignedIn, Ask, Hear, TimerAnswered,
              TimerUnanswered, Replaced, Load, Replace, Confirm, TypeOK
<1> QED BY <1>1, <1>2 DEF Next, AllGone, vars

\* A new tab beside one that stays open is not signed out: the page is sent to
\* the sign-in page only if no other was confirmed all the while it asked.
THEOREM OpenTabsAreHeard == Spec => OpenTabIsHeard
<1>1. Init => HeardInv
  BY DEF Init, HeardInv
<1>2. TypeOK /\ HeardInv /\ [Next]_vars =>
        [\A t \in Tabs : at[t] = "asking" /\ at'[t] = "leaving" => beside[t] = {}]_vars
  <2> SUFFICES ASSUME TypeOK, HeardInv, [Next]_vars, NEW t \in Tabs,
                      at[t] = "asking", at'[t] = "leaving"
               PROVE  beside[t] = {}
    OBVIOUS
  <2>1. pings[t] = {} /\ t \notin answered
    BY LeavingIsUnanswered DEF TimerUnanswered, Due
  <2> QED BY <2>1 DEF HeardInv
<1> QED BY <1>1, <1>2, InitType, TypeStep, HeardStep, PTL DEF Spec, OpenTabIsHeard

-----------------------------------------------------------------------------
(***************************************************************************)
(* A question that is asked comes to its end                               *)
(***************************************************************************)

\* Whoever has yet to hear a ping is there to hear it, and is not who asks.
PingsInv ==
  \A t \in Tabs, u \in Tabs :
    u \in pings[t] =>
      /\ at[t] = "asking" /\ u # t
      /\ at[u] \in {"asking", "drawn", "leaving"}

\* While a page asks, nobody joins those it waits for.
QuestionsShrink ==
  [][\A t \in Tabs :
       at[t] = "asking" /\ at'[t] = "asking" => pings'[t] \subseteq pings[t]]_vars

\* A page that hides itself waits for somebody who can hear it, or its timer
\* can fire.
NobodyAsksInVain ==
  \A t \in Tabs : at[t] = "asking" =>
    \/ Due(t)
    \/ \E u \in Tabs \ {t} : u \in pings[t] /\ at[u] \in {"asking", "drawn", "leaving"}

LEMMA PingsUnload ==
  ASSUME TypeOK, PingsInv, NEW t \in Tabs, Unload(t),
         \A u \in Tabs \ {t} : at'[u] = at[u]
  PROVE  PingsInv' /\ \A u \in Tabs : pings'[u] \subseteq pings[u]
BY DEF Unload, PingsInv, TypeOK

LEMMA PingsStep ==
  ASSUME TypeOK, PingsInv, [Next]_vars
  PROVE  /\ PingsInv'
         /\ \A t \in Tabs : at[t] = "asking" /\ at'[t] = "asking" =>
              pings'[t] \subseteq pings[t]
<1>1. CASE AllGone \/ UNCHANGED vars
  BY <1>1 DEF AllGone, vars, PingsInv
<1>2. ASSUME NEW t \in Tabs, User(t) \/ Replaced(t)
      PROVE  PingsInv' /\ \A u \in Tabs : pings'[u] \subseteq pings[u]
  BY <1>2, UserUnloads, PingsUnload
<1>3. ASSUME NEW t \in Tabs, RunSignedOut(t) \/ RunSignedIn(t)
      PROVE  PingsInv' /\ pings' = pings
  BY <1>3 DEF RunSignedOut, RunSignedIn, Confirm, PingsInv, TypeOK
<1>4. ASSUME NEW t \in Tabs, Ask(t)
      PROVE  PingsInv' /\ at[t] # "asking" /\ \A u \in Tabs \ {t} : pings'[u] = pings[u]
  BY <1>4 DEF Ask, PingsInv, TypeOK
<1>5. ASSUME NEW t \in Tabs, NEW u \in Tabs, Hear(t, u)
      PROVE  PingsInv' /\ \A v \in Tabs : pings'[v] \subseteq pings[v]
  BY <1>5 DEF Hear, PingsInv, TypeOK
<1>6. ASSUME NEW t \in Tabs, TimerAnswered(t) \/ TimerUnanswered(t)
      PROVE  PingsInv' /\ pings' = pings
  BY <1>6 DEF TimerAnswered, TimerUnanswered, Due, Confirm, PingsInv, TypeOK
<1> QED BY <1>1, <1>2, <1>3, <1>4, <1>5, <1>6 DEF Next, Script, AllGone, vars

\* A hidden page is never stuck: it waits for pages that are there to hear its
\* ping or its timer can fire, and while it asks those it waits for only become
\* fewer, however many tabs are opened, closed and restored meanwhile.
THEOREM QuestionsEnd == Spec => []NobodyAsksInVain /\ QuestionsShrink
<1>1. Init => PingsInv
  BY DEF Init, PingsInv
<1>2. ASSUME TypeOK, PingsInv PROVE NobodyAsksInVain
  BY <1>2 DEF PingsInv, NobodyAsksInVain, Due, TypeOK
<1>3. TypeOK /\ PingsInv /\ [Next]_vars =>
        /\ PingsInv'
        /\ [\A t \in Tabs : at[t] = "asking" /\ at'[t] = "asking" =>
               pings'[t] \subseteq pings[t]]_vars
  BY PingsStep
<1> QED BY <1>1, <1>2, <1>3, InitType, TypeStep, PTL DEF Spec, QuestionsShrink
=============================================================================
