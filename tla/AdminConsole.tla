----------------------------- MODULE AdminConsole -----------------------------
(***************************************************************************)
(* The administrator's dashboard in a browser: the sidebar, whose items    *)
(* address the page and two of its sections, and which is a drawer on a    *)
(* narrow screen (navigation.js); the moderation queue, with boxes for one *)
(* decision on many listings (bulk-select.js).                             *)
(*                                                                         *)
(* Bootstrap's Offcanvas is modelled from how navigation.js uses it: what  *)
(* it leaves for the end of a transition it does later, in the order it    *)
(* was asked.                                                              *)
(***************************************************************************)
EXTENDS Naturals, Sequences, FiniteSets

CONSTANTS
  Rows,         \* listings in the queue
  MaxTransitions  \* bound: transitions of the drawer under way

ASSUME BoundsAssumption == IsFiniteSet(Rows) /\ MaxTransitions \in Nat \ {0}

VARIABLES
  page,       \* "drawn", "ready", or left: "kept" in the cache or "gone"
  hash,       \* location.hash
  unheard,    \* its hashchange event is still to come
  lit,        \* the items of this page that are active
  wide,       \* from xl the drawer is a sidebar
  shown,      \* Offcanvas: _isShown
  classShow,  \* the sidebar has the class "show"
  due,        \* Offcanvas: what the ends of its transitions will do
  expanded,   \* aria-expanded of the toggle
  reopened,   \* history: it was opened while it was closing
  outgrown,   \* history: the screen grew while it was opening
  ticked,     \* boxes of the queue
  count,      \* what the button says is selected
  sent        \* history: the selection sent last, and what the button said

drawerVars == <<shown, classShow, due, expanded, reopened, outgrown>>
navVars == <<hash, unheard, lit>>
bulkVars == <<ticked, count, sent>>
vars == <<page, navVars, wide, drawerVars, bulkVars>>

Items == {"dashboard", "verification", "moderation"}
Fragment(item) == IF item = "dashboard" THEN "" ELSE item
Hashes == {Fragment(item) : item \in Items} \cup {"elsewhere"}
NothingSent == [rows |-> {}, said |-> 0, blind |-> TRUE]

TypeOK ==
  /\ page \in {"drawn", "ready", "kept", "gone"}
  /\ unheard \in BOOLEAN /\ wide \in BOOLEAN /\ shown \in BOOLEAN
  /\ classShow \in BOOLEAN /\ expanded \in BOOLEAN
  /\ reopened \in BOOLEAN /\ outgrown \in BOOLEAN
  /\ hash \in Hashes /\ lit \subseteq Items
  /\ due \in Seq({"shown", "hidden"}) /\ Len(due) <= MaxTransitions
  /\ ticked \subseteq Rows /\ count \in 0..Cardinality(Rows)
  /\ sent \in [rows : SUBSET Rows, said : 0..Cardinality(Rows), blind : BOOLEAN]

Here == page \in {"drawn", "ready"}

-----------------------------------------------------------------------------
(* The item that is lit.                                                   *)

\* The item of the fragment, or else the one without a fragment.
Match(h) ==
  IF \E item \in Items : Fragment(item) = h
    THEN CHOOSE item \in Items : Fragment(item) = h ELSE "dashboard"

SyncActiveItem(h) == lit' = {Match(h)}

\* A slip to rule out: the event does nothing.
HashChangeOnce ==
  /\ Here /\ unheard
  /\ unheard' = FALSE
  /\ UNCHANGED <<page, hash, lit, wide, drawerVars, bulkVars>>

\* An event before the script has run has no listener.
HashChange ==
  /\ Here /\ unheard
  /\ unheard' = FALSE
  /\ IF page = "drawn" THEN lit' = lit ELSE SyncActiveItem(hash)
  /\ UNCHANGED <<page, hash, wide, drawerVars, bulkVars>>

-----------------------------------------------------------------------------
(* The drawer.                                                             *)

\* Offcanvas: both say nothing when there is nothing to do.
Opened ==
  /\ shown' = TRUE /\ due' = Append(due, "shown")
  /\ expanded' = TRUE
  /\ reopened' = (reopened \/ "hidden" \in {due[i] : i \in 1..Len(due)})
  /\ UNCHANGED <<classShow, outgrown>>

CloseDrawer ==
  IF shown THEN /\ shown' = FALSE /\ due' = Append(due, "hidden")
                /\ UNCHANGED <<classShow, expanded, reopened, outgrown>>
           ELSE UNCHANGED drawerVars

MayMove == page = "ready" /\ Len(due) < MaxTransitions

\* The button in the top bar, the cross, Escape or the backdrop.
PressToggle ==
  /\ MayMove /\ ~wide
  /\ IF shown THEN CloseDrawer ELSE Opened
  /\ UNCHANGED <<page, navVars, wide, bulkVars>>

\* A slip to rule out: nothing announces that the drawer is closed.
TransitionEndSilent ==
  /\ Here /\ due # <<>>
  /\ due' = Tail(due)
  /\ classShow' = (Head(due) = "shown")
  /\ UNCHANGED <<page, navVars, wide, shown, expanded, reopened, outgrown,
                 bulkVars>>

\* The end of a transition: "shown" sets the class, and "hidden" takes it off
\* and tells the script.
TransitionEnd ==
  /\ Here /\ due # <<>>
  /\ due' = Tail(due)
  /\ classShow' = (Head(due) = "shown")
  /\ expanded' = (expanded /\ Head(due) = "shown")
  /\ UNCHANGED <<page, navVars, wide, shown, reopened, outgrown,
                 bulkVars>>

\* A slip to rule out: the drawer stays when the screen outgrows it.
ResizeOnly ==
  /\ Here /\ Len(due) < MaxTransitions
  /\ wide' = ~wide
  /\ outgrown' = (outgrown \/ (wide' /\ shown /\ ~classShow))
  /\ UNCHANGED <<shown, classShow, due, expanded, reopened>>
  /\ UNCHANGED <<page, navVars, bulkVars>>

\* resize: the drawer is closed when the screen outgrows it, if its class says
\* that it is open.
Resize ==
  /\ Here /\ Len(due) < MaxTransitions
  /\ wide' = ~wide
  /\ IF wide' /\ classShow
       THEN CloseDrawer
       ELSE /\ outgrown' = (outgrown \/ (wide' /\ shown))
            /\ UNCHANGED <<shown, classShow, due, expanded, reopened>>
  /\ UNCHANGED <<page, navVars, bulkVars>>

\* An item of this page: a fragment moves the page, the page's own address asks
\* for it again, which is Unload.  In the drawer the click closes it, too.
PressItem(item) ==
  /\ MayMove /\ (wide \/ shown)
  /\ IF wide THEN UNCHANGED drawerVars ELSE CloseDrawer
  /\ IF item = "dashboard"
       THEN UNCHANGED <<hash, unheard>>
       ELSE hash' = Fragment(item) /\ unheard' = (unheard \/ hash' # hash)
  /\ UNCHANGED <<page, lit, wide, bulkVars>>

\* Back and forward within the page, and anchors that are no item.
Traverse(h) ==
  /\ Here /\ h # hash
  /\ hash' = h /\ unheard' = TRUE
  /\ UNCHANGED <<page, lit, wide, drawerVars, bulkVars>>

-----------------------------------------------------------------------------
(* The queue.                                                              *)

Sync(boxes) == count' = Cardinality(boxes)

Reachable == Here /\ ~(shown /\ ~wide)

Tick(row) ==
  /\ Reachable
  /\ ticked' = IF row \in ticked THEN ticked \ {row} ELSE ticked \cup {row}
  /\ IF page = "drawn" THEN count' = count ELSE Sync(ticked')
  /\ UNCHANGED <<page, navVars, wide, drawerVars, sent>>

\* An empty selection is stopped, once the script listens.  A second press is not.
MaySend == page = "drawn" \/ ticked # {}

Apply ==
  /\ Reachable /\ MaySend
  /\ sent' = [rows |-> ticked, said |-> count, blind |-> page = "drawn"]
  /\ UNCHANGED <<page, navVars, wide, drawerVars, ticked, count>>

-----------------------------------------------------------------------------
(* The page.                                                               *)

\* A slip to rule out: boxes restored by the browser are not counted.
ReadyUncounted ==
  /\ page = "drawn"
  /\ page' = "ready"
  /\ SyncActiveItem(hash)
  /\ UNCHANGED <<hash, unheard, wide, drawerVars, bulkVars>>

\* DOMContentLoaded: the scripts read the page as the browser restored it.
Ready ==
  /\ page = "drawn"
  /\ page' = "ready"
  /\ SyncActiveItem(hash)
  /\ Sync(ticked)
  /\ UNCHANGED <<hash, unheard, wide, drawerVars, ticked, sent>>

\* What a document starts from: the page's own item is lit, the count is zero.
Fresh ==
  /\ lit' = {"dashboard"} /\ count' = 0 /\ sent' = NothingSent
  /\ shown' = FALSE /\ classShow' = FALSE /\ due' = <<>> /\ expanded' = FALSE
  /\ reopened' = FALSE /\ outgrown' = FALSE

\* The next document replaces this one, wherever it was asked for.  One whose
\* scripts have run may be kept as it is; any other is dropped.
Unload ==
  /\ Here
  /\ unheard' = FALSE
  /\ \/ /\ page = "ready" /\ page' = "kept"
        /\ UNCHANGED <<lit, drawerVars, count, sent>>
     \/ page' = "gone" /\ Fresh
  /\ UNCHANGED <<hash, wide, ticked>>

\* A new document; of a reload the browser may restore the boxes.
Arrive ==
  /\ ~Here
  /\ page' = "drawn" /\ Fresh
  /\ ticked' \in {{}, ticked}
  /\ hash' \in {"", hash}
  /\ UNCHANGED <<unheard, wide>>

\* The page as it was left, which history-guard.js loads again.
PageShow ==
  /\ page = "kept"
  /\ page' = "ready"
  /\ SyncActiveItem(hash)
  /\ UNCHANGED <<hash, unheard, wide, drawerVars, bulkVars>>

Init ==
  /\ page = "drawn"
  /\ hash \in Hashes /\ unheard = FALSE /\ lit = {"dashboard"}
  /\ wide \in BOOLEAN
  /\ shown = FALSE /\ classShow = FALSE /\ due = <<>> /\ expanded = FALSE
  /\ reopened = FALSE /\ outgrown = FALSE
  /\ ticked = {} /\ count = 0 /\ sent = NothingSent

Next ==
  \/ HashChange \/ PressToggle \/ TransitionEnd \/ Resize
  \/ \E item \in Items : PressItem(item)
  \/ \E h \in Hashes : Traverse(h)
  \/ \E row \in Rows : Tick(row)
  \/ Apply \/ Ready \/ Unload \/ Arrive \/ PageShow

Spec == Init /\ [][Next]_vars

-----------------------------------------------------------------------------
(* Properties.                                                             *)

\* One item is lit, the one the address names: from the server's guess, through
\* fragments, history and a page restored from the cache.
LitIsTheAddress ==
  page = "ready" /\ ~unheard => lit = {Match(hash)}

\* A toggle whose drawer has come to rest says how it stands; but for one that
\* was opened again while it was closing, which the late "hidden" calls closed.
ExpandedIsTrue == due = <<>> /\ ~reopened => expanded = shown

\* A drawer at rest is not left over a wide screen, neither its backdrop nor its
\* class, however often it was pressed on the way; but for one that was still
\* opening when the screen grew.
DrawerLeavesWideScreen ==
  wide /\ due = <<>> /\ ~outgrown => ~shown /\ ~classShow

\* What the button says is what it sends, on a restored page too, and never
\* nothing.
SendsWhatItSays ==
  ~sent.blind => sent.rows # {} /\ sent.said = Cardinality(sent.rows)
=============================================================================
