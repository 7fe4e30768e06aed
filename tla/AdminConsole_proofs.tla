------------------------- MODULE AdminConsole_proofs -------------------------
(***************************************************************************)
(* Proofs about AdminConsole, for every queue of listings and any number   *)
(* of overlapping transitions of the drawer.                               *)
(***************************************************************************)
EXTENDS AdminConsole, TLAPS, FiniteSetTheorems, SequenceTheorems

-----------------------------------------------------------------------------
(***************************************************************************)
(* The inductive invariants                                                *)
(***************************************************************************)

\* What the transitions under way will leave is what was asked for last.
RestInv ==
  /\ due = <<>> => classShow = shown
  /\ due # <<>> => shown = (due[Len(due)] = "shown")
  /\ wide /\ ~outgrown => ~shown

\* A drawer that was never opened while it was closing: the toggle is right, or
\* the transition that will put it right is still to end.
ToggleInv ==
  ~reopened =>
    \/ due = <<>> /\ expanded = shown
    \/ due = <<"shown">> /\ shown /\ expanded
    \/ due = <<"hidden">> /\ ~shown /\ expanded
    \/ due = <<"shown", "hidden">> /\ ~shown /\ expanded

\* Once the script has run the button counts the boxes that are ticked.
CountInv ==
  /\ page \in {"ready", "kept"} => count = Cardinality(ticked)
  /\ SendsWhatItSays

-----------------------------------------------------------------------------
(***************************************************************************)
(* Types                                                                   *)
(***************************************************************************)

LEMMA CountType ==
  ASSUME NEW boxes \in SUBSET Rows
  PROVE  Cardinality(boxes) \in 0..Cardinality(Rows) /\ 0 \in 0..Cardinality(Rows)
BY BoundsAssumption, FS_Subset, FS_CardinalityType

LEMMA HashesType ==
  /\ \A item \in Items : Fragment(item) \in Hashes
  /\ \A h : Match(h) \in Items
  /\ "" \in Hashes
BY DEF Items, Hashes, Fragment, Match

LEMMA QueueType ==
  ASSUME TypeOK, Len(due) < MaxTransitions, NEW end \in {"shown", "hidden"}
  PROVE  /\ Append(due, end) \in Seq({"shown", "hidden"})
         /\ Len(Append(due, end)) <= MaxTransitions
BY BoundsAssumption DEF TypeOK

LEMMA CloseType ==
  ASSUME TypeOK, Len(due) < MaxTransitions, CloseDrawer
  PROVE  /\ shown' \in BOOLEAN /\ classShow' \in BOOLEAN /\ expanded' \in BOOLEAN
         /\ reopened' \in BOOLEAN /\ outgrown' \in BOOLEAN
         /\ due' \in Seq({"shown", "hidden"}) /\ Len(due') <= MaxTransitions
<1>1. CASE shown
  BY <1>1, QueueType DEF CloseDrawer, TypeOK
<1>2. CASE ~shown
  BY <1>2 DEF CloseDrawer, drawerVars, TypeOK
<1> QED BY <1>1, <1>2

LEMMA FreshType ==
  ASSUME Fresh
  PROVE  /\ shown' \in BOOLEAN /\ classShow' \in BOOLEAN /\ expanded' \in BOOLEAN
         /\ reopened' \in BOOLEAN /\ outgrown' \in BOOLEAN
         /\ due' \in Seq({"shown", "hidden"}) /\ Len(due') <= MaxTransitions
         /\ lit' \subseteq Items /\ count' \in 0..Cardinality(Rows)
         /\ sent' \in [rows : SUBSET Rows, said : 0..Cardinality(Rows), blind : BOOLEAN]
<1>1. 0 \in 0..Cardinality(Rows)
  BY CountType
<1>2. due' \in Seq({"shown", "hidden"}) /\ Len(due') = 0
  BY DEF Fresh
<1>3. sent' \in [rows : SUBSET Rows, said : 0..Cardinality(Rows), blind : BOOLEAN]
  BY <1>1 DEF Fresh, NothingSent
<1>4. Len(due') <= MaxTransitions
  BY <1>2, BoundsAssumption
<1> QED BY <1>1, <1>2, <1>3, <1>4 DEF Fresh, Items

LEMMA TypeStep ==
  ASSUME TypeOK, [Next]_vars
  PROVE  TypeOK'
<1>1. CASE HashChange
  BY <1>1, HashesType DEF HashChange, SyncActiveItem, TypeOK, drawerVars, bulkVars
<1>2. CASE PressToggle
  <2>1. CASE shown
    BY <1>2, <2>1, CloseType DEF PressToggle, MayMove, TypeOK, navVars, bulkVars
  <2>2. CASE ~shown
    <3>1. reopened' \in BOOLEAN
      BY <1>2, <2>2 DEF PressToggle, Opened
    <3> QED BY <1>2, <2>2, <3>1, QueueType
         DEF PressToggle, Opened, MayMove, TypeOK, navVars, bulkVars
  <2> QED BY <2>1, <2>2
<1>3. CASE TransitionEnd
  <2>1. due' \in Seq({"shown", "hidden"}) /\ Len(due') <= MaxTransitions
    BY <1>3, BoundsAssumption DEF TransitionEnd, TypeOK
  <2>2. classShow' \in BOOLEAN /\ expanded' \in BOOLEAN
    BY <1>3 DEF TransitionEnd, TypeOK
  <2> QED BY <1>3, <2>1, <2>2 DEF TransitionEnd, TypeOK, navVars, bulkVars
<1>4. CASE Resize
  <2>1. CASE wide' /\ classShow
    BY <1>4, <2>1, CloseType DEF Resize, TypeOK, navVars, bulkVars
  <2>2. CASE ~(wide' /\ classShow)
    <3>1. outgrown' \in BOOLEAN /\ wide' \in BOOLEAN
      BY <1>4, <2>2 DEF Resize, TypeOK
    <3> QED BY <1>4, <2>2, <3>1 DEF Resize, TypeOK, navVars, bulkVars
  <2> QED BY <2>1, <2>2
<1>5. ASSUME NEW item \in Items, PressItem(item) PROVE TypeOK'
  <2>1. hash' \in Hashes /\ unheard' \in BOOLEAN
    BY <1>5, HashesType DEF PressItem, TypeOK
  <2>2. CASE wide
    BY <1>5, <2>1, <2>2 DEF PressItem, TypeOK, drawerVars, bulkVars
  <2>3. CASE ~wide
    BY <1>5, <2>1, <2>3, CloseType DEF PressItem, MayMove, TypeOK, bulkVars
  <2> QED BY <2>2, <2>3
<1>6. CASE \E h \in Hashes : Traverse(h)
  BY <1>6 DEF Traverse, TypeOK, drawerVars, bulkVars
<1>7. ASSUME NEW r \in Rows, Tick(r) PROVE TypeOK'
  <2>1. ticked' \in SUBSET Rows
    BY <1>7 DEF Tick, TypeOK
  <2>2. count' \in 0..Cardinality(Rows)
    BY <1>7, <2>1, CountType DEF Tick, Sync, TypeOK
  <2> QED BY <1>7, <2>1, <2>2 DEF Tick, TypeOK, navVars, drawerVars
<1>8. CASE Apply
  <2>1. (page = "drawn") \in BOOLEAN
    OBVIOUS
  <2> QED BY <1>8, <2>1 DEF Apply, TypeOK, navVars, drawerVars
<1>9. CASE Ready
  BY <1>9, HashesType, CountType
  DEF Ready, SyncActiveItem, Sync, TypeOK, drawerVars
<1>10. CASE Unload
  <2>1. CASE page' = "kept" /\ UNCHANGED <<lit, drawerVars, count, sent>>
    BY <1>10, <2>1 DEF Unload, TypeOK, drawerVars
  <2>2. CASE page' = "gone" /\ Fresh
    BY <1>10, <2>2, FreshType DEF Unload, TypeOK
  <2> QED BY <1>10, <2>1, <2>2 DEF Unload
<1>11. CASE Arrive
  BY <1>11, FreshType, HashesType DEF Arrive, TypeOK
<1>12. CASE PageShow
  BY <1>12, HashesType DEF PageShow, SyncActiveItem, TypeOK, drawerVars, bulkVars
<1>13. CASE UNCHANGED vars
  BY <1>13 DEF vars, navVars, drawerVars, bulkVars, TypeOK
<1> QED BY <1>1, <1>2, <1>3, <1>4, <1>5, <1>6, <1>7, <1>8, <1>9, <1>10, <1>11,
           <1>12, <1>13 DEF Next

LEMMA InitType == Init => TypeOK
<1>1. 0 \in 0..Cardinality(Rows)
  BY CountType
<1>2. <<>> \in Seq({"shown", "hidden"}) /\ Len(<<>>) = 0
  OBVIOUS
<1> SUFFICES ASSUME Init PROVE TypeOK
  OBVIOUS
<1>3. sent \in [rows : SUBSET Rows, said : 0..Cardinality(Rows), blind : BOOLEAN]
  BY <1>1 DEF Init, NothingSent
<1>4. due \in Seq({"shown", "hidden"}) /\ Len(due) <= MaxTransitions
  BY <1>2, BoundsAssumption DEF Init
<1> QED BY <1>1, <1>3, <1>4 DEF Init, TypeOK, Items

\* Every variable of the page and of its browser keeps its type; no more
\* transitions are under way than the bound.
THEOREM TypeCorrect == Spec => []TypeOK
BY InitType, TypeStep, PTL DEF Spec

-----------------------------------------------------------------------------
(***************************************************************************)
(* The item that is lit                                                    *)
(***************************************************************************)

LEMMA LitStep ==
  ASSUME LitIsTheAddress, [Next]_vars
  PROVE  LitIsTheAddress'
<1>1. CASE HashChange \/ Ready \/ PageShow
  BY <1>1 DEF HashChange, Ready, PageShow, SyncActiveItem, LitIsTheAddress
<1>2. CASE PressToggle \/ TransitionEnd \/ Resize \/ Apply \/ UNCHANGED vars
           \/ \E row \in Rows : Tick(row)
  BY <1>2 DEF PressToggle, TransitionEnd, Resize, Apply, Tick, vars, navVars,
              LitIsTheAddress
<1>3. CASE (\E item \in Items : PressItem(item)) \/ \E h \in Hashes : Traverse(h)
  BY <1>3 DEF PressItem, Traverse, LitIsTheAddress
<1>4. CASE Unload \/ Arrive
  BY <1>4 DEF Unload, Arrive, LitIsTheAddress
<1> QED BY <1>1, <1>2, <1>3, <1>4 DEF Next

\* The item that is lit is the one the address names, from the server's guess,
\* through fragments, history, and a page restored from the cache.
THEOREM LitItemIsTheAddress == Spec => []LitIsTheAddress
<1>1. Init => LitIsTheAddress
  BY DEF Init, LitIsTheAddress
<1> QED BY <1>1, LitStep, PTL DEF Spec

-----------------------------------------------------------------------------
(***************************************************************************)
(* The drawer                                                              *)
(***************************************************************************)

\* What the drawer does without being asked to open, close or move.
LEMMA DrawerSteps ==
  ASSUME [Next]_vars
  PROVE  \/ PressToggle \/ TransitionEnd \/ Resize
         \/ \E item \in Items : PressItem(item)
         \/ UNCHANGED <<drawerVars, wide>>
         \/ Fresh /\ UNCHANGED wide
BY DEF Next, HashChange, Traverse, Tick, Apply, Ready, Unload, Arrive, PageShow,
       vars, drawerVars

LEMMA QueueEnds ==
  ASSUME NEW queue \in Seq({"shown", "hidden"})
  PROVE  /\ \A end \in {"shown", "hidden"} :
              /\ Append(queue, end) # <<>>
              /\ Append(queue, end)[Len(Append(queue, end))] = end
         /\ queue # <<>> =>
              /\ Tail(queue) = <<>> => Head(queue) = queue[Len(queue)]
              /\ Tail(queue) # <<>> => Tail(queue)[Len(Tail(queue))] = queue[Len(queue)]
<1>1. ASSUME NEW end \in {"shown", "hidden"}
      PROVE  /\ Append(queue, end) # <<>>
             /\ Append(queue, end)[Len(Append(queue, end))] = end
  <2>1. Append(queue, end) \in Seq({"shown", "hidden"})
        /\ Len(Append(queue, end)) = Len(queue) + 1
    OBVIOUS
  <2> QED BY <2>1
<1>2. ASSUME queue # <<>>
      PROVE  /\ Tail(queue) = <<>> => Head(queue) = queue[Len(queue)]
             /\ Tail(queue) # <<>> => Tail(queue)[Len(Tail(queue))] = queue[Len(queue)]
  <2>1. Len(queue) \in Nat \ {0}
    BY <1>2
  <2>2. Tail(queue) \in Seq({"shown", "hidden"}) /\ Len(Tail(queue)) = Len(queue) - 1
    BY <1>2
  <2>3. \A i \in 1..Len(queue) - 1 : Tail(queue)[i] = queue[i + 1]
    BY <1>2
  <2>4. CASE Tail(queue) = <<>>
    BY <1>2, <2>1, <2>2, <2>4
  <2>5. CASE Tail(queue) # <<>>
    <3>1. Len(queue) - 1 \in 1..Len(queue) - 1
      BY <2>1, <2>2, <2>5
    <3> QED BY <2>1, <2>2, <2>3, <2>5, <3>1
  <2> QED BY <2>4, <2>5
<1> QED BY <1>1, <1>2

LEMMA RestClose ==
  ASSUME TypeOK, RestInv, CloseDrawer
  PROVE  RestInv'
<1>1. CASE shown
  <2>1. due' = Append(due, "hidden") /\ shown' = FALSE
    BY <1>1 DEF CloseDrawer
  <2>2. due' # <<>> /\ due'[Len(due')] = "hidden"
    BY <2>1, QueueEnds DEF TypeOK
  <2> QED BY <2>1, <2>2 DEF RestInv
<1>2. CASE ~shown
  BY <1>2 DEF CloseDrawer, drawerVars, RestInv
<1> QED BY <1>1, <1>2

LEMMA RestStep ==
  ASSUME TypeOK, RestInv, [Next]_vars
  PROVE  RestInv'
<1>1. CASE PressToggle
  <2>1. PICK end \in {"shown", "hidden"} :
          due' = Append(due, end) /\ shown' = (end = "shown")
    BY <1>1 DEF PressToggle, Opened, CloseDrawer
  <2>2. due' # <<>> /\ due'[Len(due')] = end
    BY <2>1, QueueEnds DEF TypeOK
  <2> QED BY <1>1, <2>1, <2>2 DEF PressToggle, RestInv
<1>2. CASE TransitionEnd
  <2>1. due \in Seq({"shown", "hidden"}) /\ due # <<>> /\ due' = Tail(due)
        /\ classShow' = (Head(due) = "shown")
        /\ UNCHANGED <<shown, wide, outgrown>>
    BY <1>2 DEF TransitionEnd, TypeOK
  <2>2. /\ due' = <<>> => Head(due) = due[Len(due)]
        /\ due' # <<>> => due'[Len(due')] = due[Len(due)]
    BY <2>1, QueueEnds
  <2> QED BY <2>1, <2>2 DEF RestInv
<1>3. CASE Resize
  <2>1. CASE wide' /\ classShow
    BY <1>3, <2>1, RestClose DEF Resize
  <2>2. CASE ~(wide' /\ classShow)
    BY <1>3, <2>2 DEF Resize, RestInv
  <2> QED BY <2>1, <2>2
<1>4. CASE \E item \in Items : PressItem(item)
  <2>1. CASE wide
    BY <1>4, <2>1 DEF PressItem, drawerVars, RestInv
  <2>2. CASE ~wide
    BY <1>4, <2>2, RestClose DEF PressItem
  <2> QED BY <2>1, <2>2
<1>5. CASE UNCHANGED <<drawerVars, wide>>
  BY <1>5 DEF drawerVars, RestInv
<1>6. CASE Fresh /\ UNCHANGED wide
  BY <1>6 DEF Fresh, RestInv
<1> QED BY <1>1, <1>2, <1>3, <1>4, <1>5, <1>6, DrawerSteps

\* A drawer at rest is never left over a screen that outgrew it.
THEOREM DrawerIsNotLeftOpen == Spec => []DrawerLeavesWideScreen
<1>1. Init => RestInv
  BY DEF Init, RestInv
<1>2. RestInv => DrawerLeavesWideScreen
  BY DEF RestInv, DrawerLeavesWideScreen
<1> QED BY <1>1, <1>2, InitType, TypeStep, RestStep, PTL DEF Spec

LEMMA ToggleClose ==
  ASSUME TypeOK, RestInv, ToggleInv, CloseDrawer
  PROVE  ToggleInv'
<1>1. CASE shown
  <2> SUFFICES ASSUME ~reopened PROVE ToggleInv'
    BY <1>1 DEF CloseDrawer, ToggleInv
  <2>1. due = <<>> \/ due = <<"shown">>
    BY <1>1 DEF ToggleInv
  <2>2. expanded
    BY <1>1 DEF ToggleInv
  <2>3. due' = <<"hidden">> \/ due' = <<"shown", "hidden">>
    BY <1>1, <2>1 DEF CloseDrawer
  <2> QED BY <1>1, <2>2, <2>3 DEF CloseDrawer, ToggleInv
<1>2. CASE ~shown
  BY <1>2 DEF CloseDrawer, drawerVars, ToggleInv
<1> QED BY <1>1, <1>2 DEF TypeOK

LEMMA ToggleStep ==
  ASSUME TypeOK, RestInv, ToggleInv, [Next]_vars
  PROVE  ToggleInv'
<1>1. CASE PressToggle
  <2>1. CASE ~shown
    <3> SUFFICES ASSUME ~reopened' PROVE ToggleInv'
      BY DEF ToggleInv
    <3>1. ~reopened /\ "hidden" \notin {due[i] : i \in 1..Len(due)}
      BY <1>1, <2>1 DEF PressToggle, Opened
    <3>2. due = <<>>
      BY <2>1, <3>1 DEF ToggleInv
    <3>3. due' = <<"shown">>
      BY <1>1, <2>1, <3>2 DEF PressToggle, Opened
    <3>4. shown' /\ expanded'
      BY <1>1, <2>1 DEF PressToggle, Opened
    <3> QED BY <3>3, <3>4 DEF ToggleInv
  <2>2. CASE shown
    BY <1>1, <2>2, ToggleClose DEF PressToggle
  <2> QED BY <2>1, <2>2
<1>2. CASE TransitionEnd
  <2> SUFFICES ASSUME ~reopened PROVE ToggleInv'
    BY <1>2 DEF TransitionEnd, ToggleInv
  <2>1. CASE due = <<"shown">>
    <3>1. Head(due) = "shown" /\ Tail(due) = <<>>
      BY <2>1
    <3>2. shown /\ expanded
      BY <2>1 DEF ToggleInv
    <3>3. due' = <<>> /\ shown' = shown /\ (expanded' <=> expanded)
      BY <1>2, <3>1 DEF TransitionEnd
    <3>4. expanded' = shown'
      BY <3>2, <3>3, TypeStep DEF TypeOK
    <3> QED BY <3>3, <3>4 DEF ToggleInv
  <2>2. CASE due = <<"hidden">>
    <3>1. Head(due) = "hidden" /\ Tail(due) = <<>>
      BY <2>2
    <3>2. ~shown
      BY <2>2 DEF ToggleInv
    <3>3. due' = <<>> /\ shown' = shown /\ ~expanded'
      BY <1>2, <3>1 DEF TransitionEnd
    <3>4. expanded' = shown'
      BY <3>2, <3>3, TypeStep DEF TypeOK
    <3> QED BY <3>3, <3>4 DEF ToggleInv
  <2>3. CASE due = <<"shown", "hidden">>
    <3>1. Head(due) = "shown" /\ Tail(due) = <<"hidden">>
      BY <2>3
    <3> QED BY <1>2, <2>3, <3>1 DEF TransitionEnd, ToggleInv
  <2> QED BY <1>2, <2>1, <2>2, <2>3 DEF TransitionEnd, ToggleInv
<1>3. CASE Resize
  <2>1. CASE UNCHANGED <<shown, due, expanded, reopened>>
    BY <2>1 DEF ToggleInv
  <2>2. CASE CloseDrawer
    BY <2>2, ToggleClose
  <2> QED BY <1>3, <2>1, <2>2 DEF Resize
<1>4. CASE \E item \in Items : PressItem(item)
  <2>1. CASE UNCHANGED drawerVars
    BY <2>1 DEF drawerVars, ToggleInv
  <2> QED BY <1>4, <2>1, ToggleClose DEF PressItem
<1>5. CASE UNCHANGED <<drawerVars, wide>>
  BY <1>5 DEF drawerVars, ToggleInv
<1>6. CASE Fresh
  BY <1>6 DEF Fresh, ToggleInv
<1> QED BY <1>1, <1>2, <1>3, <1>4, <1>5, <1>6, DrawerSteps

\* The toggle of a drawer at rest says how it stands, unless it was opened again
\* while it was closing.
THEOREM ToggleTellsTheTruth == Spec => []ExpandedIsTrue
<1>1. Init => RestInv /\ ToggleInv
  BY DEF Init, RestInv, ToggleInv
<1>2. ToggleInv => ExpandedIsTrue
  BY DEF ToggleInv, ExpandedIsTrue
<1> QED BY <1>1, <1>2, InitType, TypeStep, RestStep, ToggleStep, PTL DEF Spec

-----------------------------------------------------------------------------
(***************************************************************************)
(* The queue                                                               *)
(***************************************************************************)

LEMMA CountStep ==
  ASSUME CountInv, [Next]_vars
  PROVE  CountInv'
<1>1. CASE \E row \in Rows : Tick(row)
  BY <1>1 DEF Tick, Reachable, Here, Sync, CountInv, SendsWhatItSays
<1>2. CASE Apply
  <2> DEFINE blind == page = "drawn"
  <2>1. sent' = [rows |-> ticked, said |-> count, blind |-> blind]
    BY <1>2 DEF Apply
  <2>2. sent'.rows = ticked /\ sent'.said = count /\ sent'.blind = blind
    <3> HIDE DEF blind
    <3> QED BY <2>1
  <2>3. ~blind => page = "ready" /\ ticked # {}
    BY <1>2 DEF Apply, Reachable, Here, MaySend
  <2>4. SendsWhatItSays'
    <3> HIDE DEF blind
    <3> QED BY <2>2, <2>3 DEF CountInv, SendsWhatItSays
  <2> QED BY <1>2, <2>4 DEF Apply, CountInv
<1>3. CASE Ready
  BY <1>3 DEF Ready, Sync, CountInv, SendsWhatItSays
<1>4. CASE Unload \/ Arrive
  <2>1. CASE page' = "kept" /\ page = "ready" /\ UNCHANGED <<ticked, count, sent>>
    BY <2>1 DEF CountInv, SendsWhatItSays
  <2>2. CASE Fresh /\ page' \in {"gone", "drawn"}
    BY <2>2 DEF Fresh, NothingSent, CountInv, SendsWhatItSays
  <2> QED BY <1>4, <2>1, <2>2 DEF Unload, Arrive
<1>5. CASE PageShow
  BY <1>5 DEF PageShow, bulkVars, CountInv, SendsWhatItSays
<1>6. CASE UNCHANGED <<page, bulkVars>>
  BY <1>6 DEF bulkVars, CountInv, SendsWhatItSays
<1> QED BY <1>1, <1>2, <1>3, <1>4, <1>5, <1>6
  DEF Next, HashChange, PressToggle, TransitionEnd, Resize, PressItem, Traverse, vars

\* What the button of the queue says is what it sends, and it never sends
\* nothing, once the script has run.
THEOREM ButtonSendsWhatItSays == Spec => []SendsWhatItSays
<1>1. Init => CountInv
  BY DEF Init, NothingSent, CountInv, SendsWhatItSays
<1>2. CountInv => SendsWhatItSays
  BY DEF CountInv
<1> QED BY <1>1, <1>2, CountStep, PTL DEF Spec
=============================================================================
