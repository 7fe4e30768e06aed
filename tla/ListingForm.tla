----------------------------- MODULE ListingForm -----------------------------
(***************************************************************************)
(* The part of a provider's listing form that follows two answers, the     *)
(* level of study and the country.  Three scripts share it, each with its  *)
(* own listeners and none aware of the others: level-form.js hides, clears *)
(* and disables what the level does not use, scope-picker.js keeps the     *)
(* choices of other levels in an inert template, open-to.js folds away     *)
(* what the answers make irrelevant.  They run in the order app.js imports *)
(* them; one event runs every handler it reaches before the next one.      *)
(*                                                                         *)
(* A picker's group holds one box here.  What a handler does is an         *)
(* operator from one state of the form to the next, so that the handlers   *)
(* an event reaches compose.                                               *)
(***************************************************************************)
EXTENDS Naturals, FiniteSets

CONSTANTS
  Boxes,     \* the choices of the three pickers
  PickerOf,  \* [Boxes -> Pickers]
  LevelOf    \* [Boxes -> the level of the group that holds it]

Pickers == {"programmes", "fields", "institutions"}
Levels == {"", "FORM_1", "DIPLOMA", "UNDERGRADUATE"}
Countries == {"Zimbabwe", "abroad"}
ZimbabweOnly == {"FORM_1"}

\* The capabilities the page carries: the levels that use a section.
Uses(section) == CASE section = "card" -> Levels \ {"FORM_1"}
                   [] section = "olevel" -> {"", "UNDERGRADUATE"}

In(picker) == {b \in Boxes : PickerOf[b] = picker}

\* The controls of each section: a section within another is part of it.
Sections == Pickers \cup {"card", "olevel", "places", "specific", "abroad"}
Radios == {"open_to", "institutions_open_to"}
Others == {"suggestion", "suggestion_field", "host", "accepts_o_level"}
Singles == {"suggestion_field"}   \* selects that take one choice
Controls == Boxes \cup Radios \cup Others

ASSUME BoxesAssumption ==
  /\ PickerOf \in [Boxes -> Pickers]
  /\ LevelOf \in [Boxes -> {"DIPLOMA", "UNDERGRADUATE"}]
  /\ Boxes \cap (Radios \cup Others) = {}

Inside(section) ==
  CASE section = "card" -> Controls
    [] section = "olevel" -> {"accepts_o_level"}
    [] section = "programmes" -> In("programmes") \cup {"suggestion", "suggestion_field"}
    [] section = "fields" -> In("fields")
    [] section = "institutions" -> In("institutions")
    [] section = "places" -> In("institutions") \cup {"institutions_open_to"}
    [] section = "abroad" -> {"host"}
    [] section = "specific" -> {}

VARIABLES
  form,    \* what the page holds
  parked   \* history: the boxes put in the reserve disabled, until they are enabled

vars == <<form, parked>>

Forms == [
  level     : Levels,
  country   : Countries,
  openTo    : {"none", "all", "programmes", "fields", "chosen"},
  places    : {"none", "any", "chosen"},
  on        : SUBSET (Controls \ Radios),  \* ticked, or filled in
  live      : SUBSET Boxes,     \* in the list; the others are in the reserve
  disabled  : SUBSET Controls,
  marked    : SUBSET Controls,  \* data-level-disabled
  hidden    : SUBSET Sections,
  chips     : SUBSET Boxes,     \* what the pickers say is chosen
  searched  : SUBSET Pickers,   \* with two letters or more to look for
  saved     : BOOLEAN,          \* offers "both", as the listing was saved
  worded    : BOOLEAN,          \* has the box for universities in earlier wording
  folded    : SUBSET Others ]   \* history: what a list held when it was folded on
                                \* load, until it shows

TypeOK == form \in Forms /\ parked \subseteq Boxes

\* querySelectorAll does not look into a template.
Reached(f, section) == Inside(section) \ (Boxes \ f.live)

Ticked(f) == f.on \cap f.live

\* refreshChips of the pickers whose boxes announce a change.
RefreshChips(f, changed) ==
  LET those == UNION {In(PickerOf[b]) : b \in changed \cap Boxes}
  IN [f EXCEPT !.chips = (@ \ those) \cup (Ticked(f) \cap those)]

-----------------------------------------------------------------------------
(* open-to.js                                                              *)

\* A slip to rule out: the boxes do not announce that they were unticked.
ClearFoldSilently(f, section) ==
  [f EXCEPT !.on = @ \ (Reached(f, section) \ Singles),
            !.openTo = IF section = "specific" /\ @ = "programmes" THEN "none" ELSE @,
            !.places = IF section = "places" THEN "none" ELSE @]

\* A select is emptied only when it takes several choices.
ClearFold(f, section) ==
  LET off == f.on \cap (Reached(f, section) \ Singles) IN
  RefreshChips(
    [f EXCEPT !.on = @ \ off,
              !.openTo = IF section = "specific" /\ @ = "programmes" THEN "none" ELSE @,
              !.places = IF section = "places" THEN "none" ELSE @],
    off)

SetHidden(f, section, visible) ==
  [f EXCEPT !.hidden = IF visible THEN @ \ {section} ELSE @ \cup {section},
            !.folded = IF visible THEN @ \ Inside(section) ELSE @]

\* A slip to rule out: what is folded away keeps its answers.
ShowKeeping(f, section, visible) == SetHidden(f, section, visible)

Show(f, section, visible) ==
  SetHidden(IF ~visible /\ section \notin f.hidden THEN ClearFold(f, section) ELSE f,
            section, visible)

FollowAnswers(f) ==
  LET abroad == f.country # "Zimbabwe"
      home   == Show(Show(f, "specific", ~abroad), "places", ~abroad)
      note   == Show(home, "abroad", abroad)
      byName == Show(note, "programmes",
                     ~abroad /\ note.openTo \in {"programmes", "chosen"})
      byKind == Show(byName, "fields", note.openTo \in {"fields", "chosen"})
  IN Show(byKind, "institutions", byKind.places # "any")

\* Once, on load: the two lists are folded while nothing is answered, with what
\* is in them; one that holds an error stays in view.
FoldOnLoad(f, wrong) ==
  LET lists == IF wrong THEN {"fields"} ELSE {"programmes", "fields"}
  IN IF f.openTo = "none"
       THEN [f EXCEPT !.hidden = @ \cup lists,
                      !.folded = IF wrong THEN @ ELSE f.on \cap {"suggestion"}]
       ELSE f

-----------------------------------------------------------------------------
(* level-form.js                                                           *)

ClearSection(f, section) ==
  LET off == f.on \cap Reached(f, section) IN
  RefreshChips(
    [f EXCEPT !.on = @ \ off,
              !.openTo = IF section = "card" THEN "none" ELSE @,
              !.places = IF section = "card" THEN "none" ELSE @,
              !.searched = IF section = "card" THEN {} ELSE @],
    off)

\* A slip to rule out: a section that comes back is not switched on.
FollowLevelOneWay(f, section) ==
  LET reached == Reached(f, section)
      g == IF section \in f.hidden THEN f ELSE ClearSection(f, section)
  IN IF f.level \in Uses(section)
       THEN [f EXCEPT !.hidden = @ \ {section}]
       ELSE [g EXCEPT !.hidden = @ \cup {section},
                      !.disabled = @ \cup reached,
                      !.marked = @ \cup (reached \ g.disabled)]

FollowLevel(f, section) ==
  LET reached == Reached(f, section)
      back == reached \cap f.marked
      g == IF section \in f.hidden THEN f ELSE ClearSection(f, section)
  IN IF f.level \in Uses(section)
       THEN [f EXCEPT !.hidden = @ \ {section},
                      !.disabled = @ \ back, !.marked = @ \ back]
       ELSE [g EXCEPT !.hidden = @ \cup {section},
                      !.disabled = @ \cup reached,
                      !.marked = @ \cup (reached \ g.disabled)]

\* The country field is set, and says so: open-to.js listens to it.
FollowCountry(f) ==
  IF f.level \in ZimbabweOnly /\ f.country # "Zimbabwe"
    THEN FollowAnswers([f EXCEPT !.country = "Zimbabwe"]) ELSE f

ApplyLevel(f) == FollowLevel(FollowLevel(FollowCountry(f), "card"), "olevel")

-----------------------------------------------------------------------------
(* scope-picker.js                                                         *)

Wanted(f, b) ==
  IF f.level # "" THEN LevelOf[b] = f.level
                  ELSE PickerOf[b] \in f.searched \/ b \in f.on

\* A slip to rule out: what leaves the list stays ticked.
ApplyPickersKeeping(f, pickers) ==
  LET those == UNION {In(p) : p \in pickers}
  IN RefreshChips([f EXCEPT !.live = (@ \ those) \cup {b \in those : Wanted(f, b)}], those)

\* Groups move between the list and the reserve; what leaves is unticked.
ApplyPickers(f, pickers) ==
  LET those  == UNION {In(p) : p \in pickers}
      wanted == {b \in those : Wanted(f, b)}
      leaves == (f.live \cap those) \ wanted
  IN RefreshChips([f EXCEPT !.on = @ \ leaves, !.live = (@ \ those) \cup wanted], those)

\* History: what left the list disabled, until a script enables it.
Park(f, g) == parked' = (parked \cup (f.live \ g.live)) \cap g.disabled

-----------------------------------------------------------------------------
(* The page as the server renders it, and as the scripts leave it.         *)

\* A new listing, a stored one, or one that was sent and is drawn again with its
\* errors: wrong is an error in the list of programmes.  What was sent is what
\* these scripts leave; a programme suggested without its level or its field, or
\* under an answer that has no use for it, is such an error.
Drawn ==
  {s \in [level : Levels, country : Countries,
          openTo : {"none", "all", "programmes", "fields", "chosen"},
          places : {"none", "any", "chosen"}, on : SUBSET (Boxes \cup Others),
          wrong : BOOLEAN] :
     /\ s.level \in ZimbabweOnly =>
          s.country = "Zimbabwe" /\ s.on = {} /\ s.openTo = "none" /\ s.places = "none"
     /\ \A b \in s.on \cap Boxes : s.level # "" => LevelOf[b] = s.level
     /\ "accepts_o_level" \in s.on => s.level \in Uses("olevel")
     /\ s.on \cap In("programmes") # {} =>
          s.country = "Zimbabwe" /\ s.openTo \in {"programmes", "chosen"}
     /\ s.on \cap In("fields") # {} => s.openTo \in {"fields", "chosen"}
     /\ s.on \cap In("institutions") # {} => s.places = "chosen"
     /\ s.country = "abroad" => s.places = "none" /\ s.openTo # "programmes"
     /\ "host" \in s.on => s.country = "abroad"
     /\ s.wrong => "suggestion" \in s.on
     /\ "suggestion" \in s.on =>
          \/ s.wrong /\ s.openTo \in {"none", "all", "fields"}
          \/ /\ s.country = "Zimbabwe" /\ s.openTo \in {"none", "programmes", "chosen"}
             /\ ~s.wrong => s.level # "" /\ "suggestion_field" \in s.on}

Folded(s) ==
  (IF s.country = "abroad" THEN {"specific", "places"} ELSE {"abroad"})
  \cup (IF ~s.wrong /\ (s.country = "abroad" \/ s.openTo \in {"all", "fields"})
          THEN {"programmes"} ELSE {})
  \cup (IF s.openTo \in {"all", "programmes"} THEN {"fields"} ELSE {})
  \cup (IF s.places = "any" THEN {"institutions"} ELSE {})

Rendered(s) ==
  [level |-> s.level, country |-> s.country, openTo |-> s.openTo,
   places |-> s.places, on |-> s.on,
   live |-> {b \in Boxes : LevelOf[b] = s.level \/ b \in s.on},
   disabled |-> {}, marked |-> {}, hidden |-> Folded(s), chips |-> {},
   searched |-> {}, saved |-> s.openTo = "chosen", worded |-> "host" \in s.on,
   folded |-> {}]

Loaded(s) == FoldOnLoad(ApplyPickers(ApplyLevel(Rendered(s)), Pickers), s.wrong)

Init ==
  /\ form \in {Loaded(s) : s \in Drawn}
  /\ parked = {}

-----------------------------------------------------------------------------
(* What the provider does.                                                 *)

Seen(f, c) ==
  /\ c \in Boxes => c \in f.live
  /\ \A section \in Sections : c \in Inside(section) => section \notin f.hidden

Usable(c) == Seen(form, c) /\ c \notin form.disabled

ChooseLevel(level) ==
  LET changed == ApplyLevel([form EXCEPT !.level = level])
      picked  == ApplyPickers(changed, Pickers)
  IN /\ level # form.level
     /\ form' = picked
     /\ Park(changed, picked)

ChooseCountry(country) ==
  /\ country # form.country /\ form.level \notin ZimbabweOnly
  /\ form' = FollowAnswers([form EXCEPT !.country = country])
  /\ UNCHANGED parked

AnswerOpenTo(answer) ==
  /\ Usable("open_to") /\ answer # form.openTo
  /\ answer = "programmes" => "specific" \notin form.hidden
  /\ answer = "chosen" => form.saved
  /\ form' = FollowAnswers([form EXCEPT !.openTo = answer])
  /\ UNCHANGED parked

AnswerPlaces(answer) ==
  /\ Usable("institutions_open_to") /\ answer # form.places
  /\ form' = FollowAnswers([form EXCEPT !.places = answer])
  /\ UNCHANGED parked

\* A box, or the button of its chip.  Ticking an institution answers that
\* question too.
Toggle(b) ==
  /\ Usable(b)
  /\ form' = LET on == IF b \in form.on THEN form.on \ {b} ELSE form.on \cup {b}
                 f  == [form EXCEPT !.on = on]
             IN RefreshChips(
                  [f EXCEPT !.places =
                     IF b \in on \cap In("institutions") THEN "chosen" ELSE @], {b})
  /\ UNCHANGED parked

Fill(c) ==
  /\ c \in Others /\ Usable(c) /\ (c = "host" => form.worded)
  /\ form' = [form EXCEPT !.on = IF c \in @ THEN @ \ {c} ELSE @ \cup {c}]
  /\ UNCHANGED parked

Search(picker) ==
  /\ "card" \notin form.hidden /\ picker \notin form.hidden
  /\ picker = "institutions" => "places" \notin form.hidden
  /\ LET f == [form EXCEPT !.searched =
                 IF picker \in @ THEN @ \ {picker} ELSE @ \cup {picker}]
         g == ApplyPickers(f, {picker})
     IN form' = g /\ Park(f, g)

Next ==
  \/ \E level \in Levels : ChooseLevel(level)
  \/ \E country \in Countries : ChooseCountry(country)
  \/ \E answer \in {"all", "programmes", "fields", "chosen"} : AnswerOpenTo(answer)
  \/ \E answer \in {"any", "chosen"} : AnswerPlaces(answer)
  \/ \E b \in Boxes : Toggle(b)
  \/ \E c \in Controls : Fill(c)
  \/ \E picker \in Pickers : Search(picker)

Spec == Init /\ [][Next]_vars

-----------------------------------------------------------------------------
(* Properties.                                                             *)

\* A choice nobody can see is never sent: whatever is filled in, in the page and
\* enabled is in sections that are all shown, and so is an answer that is chosen.
\* Two controls are sent unseen: the field of a programme that is not listed, since
\* open-to.js does not empty a select of one choice, and the programme itself when
\* the page was drawn again with it and loading folded its list over it.
PostedIsSeen ==
  /\ \A c \in form.on :
       c \notin form.disabled => Seen(form, c) \/ c \in Singles \cup form.folded
  /\ form.openTo # "none" => Seen(form, "open_to")
  /\ form.openTo = "programmes" => "specific" \notin form.hidden
  /\ form.places # "none" => Seen(form, "institutions_open_to")

\* The choices of another level never ride along, not even from the reserve.
ChoicesFitTheLevel ==
  \A b \in form.on \cap Boxes :
    b \in form.live /\ (form.level # "" => LevelOf[b] = form.level)

\* What the pickers list as chosen is what is ticked, whichever script unticked it.
ChipsAreTheChoices == form.chips = Ticked(form)

\* A level for study in Zimbabwe has Zimbabwe for its country, and the sections
\* for study at home and abroad follow the country however it came to change.
CountryIsFollowed ==
  /\ form.level \in ZimbabweOnly => form.country = "Zimbabwe"
  /\ ("abroad" \in form.hidden) = (form.country = "Zimbabwe")
  /\ form.country # "Zimbabwe" => {"specific", "places"} \subseteq form.hidden

\* What the provider sees can be used, but for the boxes that were put in the
\* reserve while their card was switched off.
SeenIsUsable ==
  \A c \in Controls : Seen(form, c) => c \notin form.disabled \/ c \in parked
=============================================================================
