-------------------------- MODULE ListingForm_proofs --------------------------
(***************************************************************************)
(* Proofs about ListingForm, for any choices in the three pickers.  The    *)
(* handlers are operators from one form to the next: what each of them     *)
(* does to a form is a lemma, and an event is the handlers it reaches.     *)
(***************************************************************************)
EXTENDS ListingForm, TLAPS

-----------------------------------------------------------------------------
(***************************************************************************)
(* What holds of a form                                                    *)
(***************************************************************************)

\* What a section that is folded may still hold.
Left(f, section) == IF section = "programmes" THEN Singles \cup f.folded ELSE {}

\* Nothing else is filled in or answered in a section that is folded or switched
\* off, and what is ticked is in the list.
Tidy(f) ==
  /\ \A section \in f.hidden : Inside(section) \cap f.on \subseteq Left(f, section)
  /\ "card" \in f.hidden => f.openTo = "none" /\ f.places = "none"
  /\ "specific" \in f.hidden => f.openTo # "programmes"
  /\ "places" \in f.hidden => f.places = "none"
  /\ f.on \cap Boxes \subseteq f.live

Told(f) == f.chips = Ticked(f)

AtHome(f) ==
  /\ f.level \in ZimbabweOnly => f.country = "Zimbabwe"
  /\ ("abroad" \in f.hidden) = (f.country = "Zimbabwe")
  /\ f.country # "Zimbabwe" => {"specific", "places"} \subseteq f.hidden

\* A known level leaves only its own choices in the list.
OfTheLevel(f) == f.level # "" => \A b \in f.live : LevelOf[b] = f.level

\* What level-form.js disabled it has marked, and it is still in a section that
\* is switched off, or was put in the reserve since.
Marked(f, kept) ==
  /\ f.disabled \subseteq f.marked /\ kept \subseteq Boxes
  /\ \A c \in f.disabled :
       \/ c \in kept
       \/ /\ c \in Boxes => c \in f.live
          /\ \E section \in f.hidden \cap {"card", "olevel"} : c \in Inside(section)

IInv ==
  /\ form \in Forms /\ Tidy(form) /\ Told(form) /\ AtHome(form)
  /\ OfTheLevel(form) /\ Marked(form, parked)

\* What every handler of the level and the country keeps.
Follows(f, g) ==
  /\ g \in Forms
  /\ g.level = f.level /\ g.live = f.live
  /\ Tidy(f) => Tidy(g)
  /\ Told(f) => Told(g)

LEMMA FollowsOn ==
  ASSUME NEW f, NEW g, NEW h, Follows(f, g), Follows(g, h)
  PROVE  Follows(f, h)
BY DEF Follows

-----------------------------------------------------------------------------
(***************************************************************************)
(* Sections and pickers                                                    *)
(***************************************************************************)

LEMMA InsideSpec ==
  /\ Inside("card") = Controls /\ Inside("olevel") = {"accepts_o_level"}
  /\ Inside("programmes") = In("programmes") \cup {"suggestion", "suggestion_field"}
  /\ Inside("fields") = In("fields") /\ Inside("institutions") = In("institutions")
  /\ Inside("places") = In("institutions") \cup {"institutions_open_to"}
  /\ Inside("specific") = {} /\ Inside("abroad") = {"host"}
  /\ \A section \in Sections : Inside(section) \subseteq Controls
<1>1. /\ Inside("card") = Controls /\ Inside("olevel") = {"accepts_o_level"}
      /\ Inside("programmes") = In("programmes") \cup {"suggestion", "suggestion_field"}
      /\ Inside("fields") = In("fields") /\ Inside("institutions") = In("institutions")
      /\ Inside("places") = In("institutions") \cup {"institutions_open_to"}
      /\ Inside("specific") = {} /\ Inside("abroad") = {"host"}
  BY DEF Inside
<1>2. \A picker : In(picker) \subseteq Controls
  BY DEF In, Controls
<1>3. ASSUME NEW section \in Sections
      PROVE  Inside(section) \subseteq Controls
  <2>1. section \in {"programmes", "fields", "institutions", "card", "olevel",
                     "places", "specific", "abroad"}
    BY DEF Sections, Pickers
  <2> QED BY <1>1, <1>2, <2>1 DEF Controls, Radios, Others
<1> QED BY <1>1, <1>3

LEMMA RefreshSpec ==
  ASSUME NEW f \in Forms, NEW changed
  PROVE  LET those == UNION {In(PickerOf[b]) : b \in changed \cap Boxes}
             g == RefreshChips(f, changed)
         IN /\ g \in Forms
            /\ g = [f EXCEPT !.chips = (f.chips \ those) \cup (Ticked(f) \cap those)]
            /\ changed \cap Boxes \subseteq those
<1> DEFINE those == UNION {In(PickerOf[b]) : b \in changed \cap Boxes}
           chips == (f.chips \ those) \cup (Ticked(f) \cap those)
<1>1. those \subseteq Boxes
  BY DEF In
<1>2. chips \in SUBSET Boxes
  BY <1>1 DEF Forms
<1>3. changed \cap Boxes \subseteq those
  BY DEF In
<1>4. RefreshChips(f, changed) = [f EXCEPT !.chips = chips]
  BY DEF RefreshChips
<1> HIDE DEF chips
<1>5. [f EXCEPT !.chips = chips] \in Forms
  BY <1>2 DEF Forms
<1> QED BY <1>3, <1>4, <1>5 DEF chips

\* Chips follow what was unticked.
LEMMA UntickedIsTold ==
  ASSUME NEW f \in Forms, NEW g \in Forms, NEW off,
         g.on = f.on \ off, g.live = f.live, g.chips = f.chips
  PROVE  /\ RefreshChips(g, off) \in Forms
         /\ Told(f) => Told(RefreshChips(g, off))
         /\ \E chips \in SUBSET Boxes : RefreshChips(g, off) = [g EXCEPT !.chips = chips]
<1> DEFINE those == UNION {In(PickerOf[b]) : b \in off \cap Boxes}
           h == RefreshChips(g, off)
           chips == (g.chips \ those) \cup (Ticked(g) \cap those)
<1>1. /\ h \in Forms /\ h = [g EXCEPT !.chips = chips]
      /\ off \cap Boxes \subseteq those
  BY RefreshSpec
<1>2. chips \in SUBSET Boxes
  BY DEF Forms, In
<1> HIDE DEF h, those
<1>3. h.chips = chips /\ h.on = g.on /\ h.live = g.live
  <2> HIDE DEF chips
  <2> QED BY <1>1 DEF Forms
<1>4. f.live \subseteq Boxes
  BY DEF Forms
<1>5. Told(f) => Told(h)
  BY <1>1, <1>3, <1>4 DEF Told, Ticked
<1> QED BY <1>1, <1>2, <1>5 DEF h

-----------------------------------------------------------------------------
(***************************************************************************)
(* open-to.js                                                              *)
(***************************************************************************)

Folds == {"specific", "places", "abroad", "programmes", "fields", "institutions"}

LEMMA ClearFoldSpec ==
  ASSUME NEW f \in Forms, NEW section \in Folds
  PROVE  LET g == ClearFold(f, section)
         IN /\ g \in Forms /\ g.level = f.level /\ g.country = f.country
            /\ g.live = f.live /\ g.disabled = f.disabled /\ g.marked = f.marked
            /\ g.hidden = f.hidden /\ g.folded = f.folded
            /\ g.on = f.on \ (Reached(f, section) \ Singles)
            /\ g.openTo = IF section = "specific" /\ f.openTo = "programmes"
                            THEN "none" ELSE f.openTo
            /\ g.places = IF section = "places" THEN "none" ELSE f.places
            /\ Told(f) => Told(g)
<1> DEFINE off == f.on \cap (Reached(f, section) \ Singles)
           openTo == IF section = "specific" /\ f.openTo = "programmes"
                       THEN "none" ELSE f.openTo
           places == IF section = "places" THEN "none" ELSE f.places
           on == f.on \ off
           g == [f EXCEPT !.on = on, !.openTo = openTo, !.places = places]
           h == RefreshChips(g, off)
<1>1. on \subseteq Controls \ Radios /\ on = f.on \ (Reached(f, section) \ Singles)
  BY DEF Forms
<1>2. openTo \in {"none", "all", "programmes", "fields", "chosen"}
      /\ places \in {"none", "any", "chosen"}
  BY DEF Forms
<1>3. ClearFold(f, section) = h
  BY DEF ClearFold
<1>4. /\ g \in Forms /\ g.on = on /\ g.openTo = openTo /\ g.places = places
      /\ g.level = f.level /\ g.country = f.country /\ g.live = f.live
      /\ g.disabled = f.disabled /\ g.marked = f.marked /\ g.hidden = f.hidden
      /\ g.chips = f.chips /\ g.folded = f.folded
  <2> HIDE DEF on, openTo, places
  <2> QED BY <1>1, <1>2 DEF Forms
<1>5. g.on = f.on \ off
  BY <1>4
<1> HIDE DEF g, off
<1>6. \E chips \in SUBSET Boxes : h = [g EXCEPT !.chips = chips]
  BY <1>4, <1>5, UntickedIsTold
<1>9. h \in Forms /\ (Told(f) => Told(h))
  BY <1>4, <1>5, UntickedIsTold
<1>7. /\ h.on = g.on /\ h.openTo = g.openTo /\ h.places = g.places
      /\ h.level = g.level /\ h.country = g.country /\ h.live = g.live
      /\ h.disabled = g.disabled /\ h.marked = g.marked /\ h.hidden = g.hidden /\ h.folded = g.folded
  <2> HIDE DEF h
  <2> QED BY <1>4, <1>6 DEF Forms
<1>8. /\ h \in Forms /\ h.level = f.level /\ h.country = f.country
      /\ h.live = f.live /\ h.disabled = f.disabled /\ h.marked = f.marked
      /\ h.hidden = f.hidden /\ h.folded = f.folded /\ h.on = f.on \ (Reached(f, section) \ Singles)
      /\ h.openTo = openTo /\ h.places = places
      /\ Told(f) => Told(h)
  <2> HIDE DEF h, on, openTo, places
  <2> QED BY <1>1, <1>4, <1>7, <1>9
<1> HIDE DEF h
<1> QED BY <1>3, <1>8

\* No other fold holds what the list of programmes holds.
LEMMA ProgrammesApart ==
  ASSUME NEW section \in Folds, section # "programmes"
  PROVE  Inside("programmes") \cap Inside(section) = {}
<1>1. "programmes" # section /\ section \in {"specific", "places", "abroad", "fields", "institutions"}
  BY DEF Folds
<1>2. \A picker \in {"fields", "institutions"} :
        In("programmes") \cap In(picker) = {}
  BY DEF In
<1>3. In("programmes") \subseteq Boxes /\ In("fields") \subseteq Boxes
      /\ In("institutions") \subseteq Boxes
  BY DEF In
<1> QED BY <1>1, <1>2, <1>3, InsideSpec, BoxesAssumption DEF Radios, Others

LEMMA ShowSpec ==
  ASSUME NEW f \in Forms, NEW section \in Folds, NEW visible \in BOOLEAN
  PROVE  LET g == Show(f, section, visible)
         IN /\ Follows(f, g)
            /\ g.country = f.country /\ g.disabled = f.disabled /\ g.marked = f.marked
            /\ g.hidden = IF visible THEN f.hidden \ {section} ELSE f.hidden \cup {section}
<1> DEFINE c == IF ~visible /\ section \notin f.hidden THEN ClearFold(f, section) ELSE f
           hidden == IF visible THEN f.hidden \ {section} ELSE f.hidden \cup {section}
           folded == IF visible THEN f.folded \ Inside(section) ELSE f.folded
           g == Show(f, section, visible)
<1>1. /\ c \in Forms /\ c.level = f.level /\ c.country = f.country
      /\ c.live = f.live /\ c.disabled = f.disabled /\ c.marked = f.marked
      /\ c.hidden = f.hidden /\ c.folded = f.folded /\ c.on \subseteq f.on
      /\ c.openTo \in {f.openTo, "none"} /\ c.places \in {f.places, "none"}
      /\ Told(f) => Told(c)
  <2>1. CASE ~visible /\ section \notin f.hidden
    BY <2>1, ClearFoldSpec
  <2>2. CASE ~(~visible /\ section \notin f.hidden)
    BY <2>2
  <2> QED BY <2>1, <2>2
<1>2. section \in Sections
  BY DEF Folds, Sections, Pickers
<1>3. hidden \subseteq Sections /\ folded \subseteq Others
  BY <1>2 DEF Forms
<1>4. g = [c EXCEPT !.hidden = hidden, !.folded = folded]
  <2>1. g = SetHidden(c, section, visible)
    BY DEF Show
  <2> HIDE DEF c
  <2> QED BY <1>1, <2>1 DEF SetHidden
<1>5. /\ g \in Forms /\ g.hidden = hidden /\ g.folded = folded
      /\ g.level = c.level /\ g.country = c.country /\ g.live = c.live
      /\ g.disabled = c.disabled /\ g.marked = c.marked /\ g.on = c.on
      /\ g.openTo = c.openTo /\ g.places = c.places /\ g.chips = c.chips
  <2> HIDE DEF c, hidden, folded, g
  <2> QED BY <1>1, <1>3, <1>4 DEF Forms
<1>6. ASSUME Tidy(f), ~visible, section \notin f.hidden
      PROVE  Inside(section) \cap c.on \subseteq Left(f, section)
             /\ (section = "specific" => c.openTo # "programmes")
             /\ (section = "places" => c.places = "none")
  <2>1. /\ c.on = f.on \ (Reached(f, section) \ Singles)
        /\ c.openTo = IF section = "specific" /\ f.openTo = "programmes"
                        THEN "none" ELSE f.openTo
        /\ c.places = IF section = "places" THEN "none" ELSE f.places
    BY <1>6, ClearFoldSpec
  <2> HIDE DEF c
  <2>2. \A d \in Inside(section) \cap c.on : d \in Singles
    <3>1. \A d \in f.on : d \in Boxes => d \in f.live
      BY <1>6 DEF Tidy
    <3> QED BY <2>1, <3>1 DEF Reached
  <2>3. Inside(section) \cap c.on \subseteq Left(f, section)
    <3>1. CASE section = "programmes"
      BY <2>2, <3>1 DEF Left
    <3>2. CASE section # "programmes"
      <4>1. Inside(section) \cap Singles = {}
        BY <3>2, ProgrammesApart, InsideSpec DEF Singles
      <4> QED BY <2>2, <4>1
    <3> QED BY <3>1, <3>2
  <2> QED BY <1>6, <2>1, <2>3 DEF Tidy
<1>7. Tidy(f) => Tidy(g)
  <2> HIDE DEF c, g
  <2>1. ASSUME Tidy(f)
        PROVE  Tidy(g)
    <3>1. \A other \in f.hidden \cap g.hidden : Inside(other) \cap g.on \subseteq Left(g, other)
      <4>1. \A other \in f.hidden : Inside(other) \cap g.on \subseteq Left(f, other)
        BY <1>1, <1>5, <2>1 DEF Tidy
      <4>2. CASE ~visible
        <5>1. \A other : Left(g, other) = Left(f, other)
          BY <1>5, <4>2 DEF Left
        <5> QED BY <4>1, <5>1
      <4>3. CASE visible /\ section = "programmes"
        BY <1>5, <4>1, <4>3 DEF Left
      <4>4. CASE visible /\ section # "programmes"
        <5>1. Inside("programmes") \cap Inside(section) = {}
          BY <4>4, ProgrammesApart
        <5>2. g.folded = f.folded \ Inside(section)
          BY <1>5, <4>4
        <5> QED BY <4>1, <5>1, <5>2 DEF Left
      <4> QED BY <4>2, <4>3, <4>4
    <3>2. /\ "card" \in f.hidden => g.openTo = "none" /\ g.places = "none"
          /\ "specific" \in f.hidden => g.openTo # "programmes"
          /\ "places" \in f.hidden => g.places = "none"
          /\ g.on \cap Boxes \subseteq g.live
      BY <1>1, <1>5, <2>1 DEF Tidy
    <3>3. section # "card"
      BY DEF Folds
    <3>4. CASE visible \/ section \in f.hidden
      <4>1. g.hidden \subseteq f.hidden
        BY <1>5, <3>4
      <4> QED BY <3>1, <3>2, <4>1 DEF Tidy
    <3>5. CASE ~visible /\ section \notin f.hidden
      <4>1. g.hidden = f.hidden \cup {section}
        BY <1>5, <3>5
      <4>2. \A other : Left(g, other) = Left(f, other)
        BY <1>5, <3>5 DEF Left
      <4> QED BY <1>5, <1>6, <2>1, <3>1, <3>2, <3>3, <3>5, <4>1, <4>2 DEF Tidy
    <3> QED BY <3>4, <3>5
  <2> QED BY <2>1
<1>8. Told(f) => Told(g)
  <2> HIDE DEF c, g
  <2> QED BY <1>1, <1>5 DEF Told, Ticked
<1> QED BY <1>1, <1>5, <1>7, <1>8 DEF Follows

\* The sections of study at home and abroad come to follow the country.
LEMMA FollowAnswersSpec ==
  ASSUME NEW f \in Forms
  PROVE  LET g == FollowAnswers(f)
         IN /\ Follows(f, g)
            /\ g.country = f.country /\ g.disabled = f.disabled /\ g.marked = f.marked
            /\ ("abroad" \in g.hidden) = (f.country = "Zimbabwe")
            /\ f.country # "Zimbabwe" =>
                 {"specific", "places", "programmes"} \subseteq g.hidden
            /\ \A section \in {"card", "olevel"} :
                 (section \in g.hidden) = (section \in f.hidden)
<1> DEFINE abroad == f.country # "Zimbabwe"
           first  == Show(f, "specific", ~abroad)
           home   == Show(first, "places", ~abroad)
           note   == Show(home, "abroad", abroad)
           named  == ~abroad /\ note.openTo \in {"programmes", "chosen"}
           byName == Show(note, "programmes", named)
           kinds  == note.openTo \in {"fields", "chosen"}
           byKind == Show(byName, "fields", kinds)
           listed == byKind.places # "any"
           g      == Show(byKind, "institutions", listed)
<1>1. FollowAnswers(f) = g
  BY DEF FollowAnswers
<1>2. /\ abroad \in BOOLEAN /\ (~abroad) \in BOOLEAN
      /\ named \in BOOLEAN /\ kinds \in BOOLEAN /\ listed \in BOOLEAN
  OBVIOUS
<1>3. {"specific", "places", "abroad", "programmes", "fields", "institutions"} = Folds
  BY DEF Folds
<1>4. /\ Follows(f, first)
      /\ first.country = f.country /\ first.disabled = f.disabled /\ first.marked = f.marked
      /\ first.hidden = IF ~abroad THEN f.hidden \ {"specific"} ELSE f.hidden \cup {"specific"}
  BY <1>2, <1>3, ShowSpec
<1> HIDE DEF first
<1>5. /\ Follows(first, home)
      /\ home.country = f.country /\ home.disabled = f.disabled /\ home.marked = f.marked
      /\ home.hidden = IF ~abroad THEN first.hidden \ {"places"}
                                  ELSE first.hidden \cup {"places"}
  <2>1. first \in Forms
    BY <1>4 DEF Follows
  <2> QED BY <1>2, <1>3, <1>4, <2>1, ShowSpec
<1> HIDE DEF home
<1>6. /\ Follows(home, note)
      /\ note.country = f.country /\ note.disabled = f.disabled /\ note.marked = f.marked
      /\ note.hidden = IF abroad THEN home.hidden \ {"abroad"} ELSE home.hidden \cup {"abroad"}
  <2>1. home \in Forms
    BY <1>5 DEF Follows
  <2> QED BY <1>2, <1>3, <1>5, <2>1, ShowSpec
<1> HIDE DEF note
<1>7. /\ Follows(note, byName)
      /\ byName.country = f.country /\ byName.disabled = f.disabled
      /\ byName.marked = f.marked
      /\ byName.hidden = IF named THEN note.hidden \ {"programmes"}
                                  ELSE note.hidden \cup {"programmes"}
  <2>1. note \in Forms
    BY <1>6 DEF Follows
  <2> QED BY <1>2, <1>3, <1>6, <2>1, ShowSpec
<1> HIDE DEF byName
<1>8. /\ Follows(byName, byKind)
      /\ byKind.country = f.country /\ byKind.disabled = f.disabled
      /\ byKind.marked = f.marked
      /\ byKind.hidden = IF kinds THEN byName.hidden \ {"fields"}
                                  ELSE byName.hidden \cup {"fields"}
  <2>1. byName \in Forms
    BY <1>7 DEF Follows
  <2>2. CASE kinds
    <3>1. byKind = Show(byName, "fields", TRUE)
      BY <2>2
    <3> HIDE DEF byKind, kinds
    <3> QED BY <1>3, <1>7, <2>1, <2>2, <3>1, ShowSpec
  <2>3. CASE ~kinds
    <3>1. byKind = Show(byName, "fields", FALSE)
      <4>1. kinds = FALSE
        BY <2>3
      <4>2. byKind = Show(byName, "fields", kinds)
        OBVIOUS
      <4> HIDE DEF byKind, kinds
      <4> QED BY <4>1, <4>2
    <3> HIDE DEF byKind, kinds
    <3> QED BY <1>3, <1>7, <2>1, <2>3, <3>1, ShowSpec
  <2> QED BY <2>2, <2>3
<1> HIDE DEF byKind
<1>9. /\ Follows(byKind, g)
      /\ g.country = f.country /\ g.disabled = f.disabled /\ g.marked = f.marked
      /\ g.hidden = IF listed THEN byKind.hidden \ {"institutions"}
                              ELSE byKind.hidden \cup {"institutions"}
  <2>1. byKind \in Forms
    BY <1>8 DEF Follows
  <2> QED BY <1>2, <1>3, <1>8, <2>1, ShowSpec
<1> HIDE DEF g
<1>10. Follows(f, g)
  BY <1>4, <1>5, <1>6, <1>7, <1>8, <1>9, FollowsOn
<1>11. abroad => ~named
  OBVIOUS
<1>12. ("abroad" \in g.hidden) = ~abroad
  BY <1>6, <1>7, <1>8, <1>9
<1>13. abroad => {"specific", "places", "programmes"} \subseteq g.hidden
  BY <1>4, <1>5, <1>6, <1>7, <1>8, <1>9, <1>11
<1>14. \A section \in {"card", "olevel"} : (section \in g.hidden) = (section \in f.hidden)
  BY <1>4, <1>5, <1>6, <1>7, <1>8, <1>9
<1> QED BY <1>1, <1>9, <1>10, <1>12, <1>13, <1>14

-----------------------------------------------------------------------------
(***************************************************************************)
(* level-form.js                                                           *)
(***************************************************************************)

\* Of a form whose question about programmes and fields is not answered.
Unasked(f) ==
  f.openTo = "none" =>
    f.on \cap (In("programmes") \cup In("fields")) = {}

LEMMA ClearSectionSpec ==
  ASSUME NEW f \in Forms, NEW section \in {"card", "olevel"}
  PROVE  LET g == ClearSection(f, section)
         IN /\ g \in Forms /\ g.level = f.level /\ g.country = f.country
            /\ g.live = f.live /\ g.disabled = f.disabled /\ g.marked = f.marked
            /\ g.hidden = f.hidden /\ g.folded = f.folded
            /\ g.on = f.on \ Reached(f, section)
            /\ g.openTo = IF section = "card" THEN "none" ELSE f.openTo
            /\ g.places = IF section = "card" THEN "none" ELSE f.places
            /\ Told(f) => Told(g)
<1> DEFINE off == f.on \cap Reached(f, section)
           on == f.on \ off
           openTo == IF section = "card" THEN "none" ELSE f.openTo
           places == IF section = "card" THEN "none" ELSE f.places
           searched == IF section = "card" THEN {} ELSE f.searched
           g == [f EXCEPT !.on = on, !.openTo = openTo, !.places = places,
                          !.searched = searched]
           h == RefreshChips(g, off)
<1>1. on \subseteq Controls \ Radios /\ on = f.on \ Reached(f, section)
  BY DEF Forms
<1>2. openTo \in {"none", "all", "programmes", "fields", "chosen"}
      /\ places \in {"none", "any", "chosen"} /\ searched \subseteq Pickers
  BY DEF Forms
<1>3. ClearSection(f, section) = h
  BY DEF ClearSection
<1>4. /\ g \in Forms /\ g.on = on /\ g.openTo = openTo /\ g.places = places
      /\ g.level = f.level /\ g.country = f.country /\ g.live = f.live
      /\ g.disabled = f.disabled /\ g.marked = f.marked /\ g.hidden = f.hidden
      /\ g.chips = f.chips /\ g.folded = f.folded
  <2> HIDE DEF on, openTo, places, searched
  <2> QED BY <1>1, <1>2 DEF Forms
<1>5. g.on = f.on \ off
  BY <1>4
<1> HIDE DEF g, off
<1>6. \E chips \in SUBSET Boxes : h = [g EXCEPT !.chips = chips]
  BY <1>4, <1>5, UntickedIsTold
<1>7. h \in Forms /\ (Told(f) => Told(h))
  BY <1>4, <1>5, UntickedIsTold
<1>8. /\ h.on = g.on /\ h.openTo = g.openTo /\ h.places = g.places
      /\ h.level = g.level /\ h.country = g.country /\ h.live = g.live
      /\ h.disabled = g.disabled /\ h.marked = g.marked /\ h.hidden = g.hidden /\ h.folded = g.folded
  <2> HIDE DEF h
  <2> QED BY <1>4, <1>6 DEF Forms
<1>9. /\ h \in Forms /\ h.level = f.level /\ h.country = f.country
      /\ h.live = f.live /\ h.disabled = f.disabled /\ h.marked = f.marked
      /\ h.hidden = f.hidden /\ h.folded = f.folded /\ h.on = f.on \ Reached(f, section)
      /\ h.openTo = openTo /\ h.places = places
      /\ Told(f) => Told(h)
  <2> HIDE DEF h, on, openTo, places
  <2> QED BY <1>1, <1>4, <1>7, <1>8
<1> HIDE DEF h
<1> QED BY <1>3, <1>9

\* A section that comes back is switched on, and one that goes is emptied and
\* switched off.
LEMMA FollowLevelSpec ==
  ASSUME NEW f \in Forms, NEW section \in {"card", "olevel"}
  PROVE  LET g == FollowLevel(f, section)
         IN /\ Follows(f, g) /\ g.country = f.country
            /\ g.hidden = IF f.level \in Uses(section) THEN f.hidden \ {section}
                                                       ELSE f.hidden \cup {section}
            /\ \A kept : Marked(f, kept) => Marked(g, kept)
            /\ Tidy(f) /\ Unasked(f) => Unasked(g)
            /\ f.level \in Uses(section) => g.disabled \subseteq f.disabled
<1> DEFINE reached == Reached(f, section)
           back == reached \cap f.marked
           g == FollowLevel(f, section)
<1>1. section \in Sections /\ Inside(section) \subseteq Controls
  BY InsideSpec DEF Sections
<1>2. reached \subseteq Controls
      /\ \A c : c \in reached <=> c \in Inside(section) /\ (c \in Boxes => c \in f.live)
  BY <1>1 DEF Reached
<1>3. CASE f.level \in Uses(section)
  <2> DEFINE hidden == f.hidden \ {section}
             disabled == f.disabled \ back
             marked == f.marked \ back
  <2>1. g = [f EXCEPT !.hidden = hidden, !.disabled = disabled, !.marked = marked]
    BY <1>3 DEF FollowLevel
  <2>2. hidden \subseteq Sections /\ disabled \subseteq Controls /\ marked \subseteq Controls
    BY DEF Forms
  <2>3. /\ g \in Forms /\ g.hidden = hidden /\ g.disabled = disabled /\ g.marked = marked
        /\ g.level = f.level /\ g.country = f.country /\ g.live = f.live /\ g.on = f.on
        /\ g.openTo = f.openTo /\ g.places = f.places /\ g.chips = f.chips
        /\ g.folded = f.folded
    <3> HIDE DEF g, hidden, disabled, marked
    <3> QED BY <2>1, <2>2 DEF Forms
  <2> HIDE DEF g, reached
  <2>4. Tidy(f) => Tidy(g)
    BY <2>3 DEF Tidy, Left
  <2>5. Told(f) => Told(g)
    BY <2>3 DEF Told, Ticked
  <2>6. ASSUME NEW kept, Marked(f, kept)
        PROVE  Marked(g, kept)
    <3>1. ASSUME NEW c \in g.disabled, c \notin kept
          PROVE  /\ c \in Boxes => c \in g.live
                 /\ \E other \in g.hidden \cap {"card", "olevel"} : c \in Inside(other)
      <4>1. c \in f.disabled /\ c \in f.marked /\ c \notin reached
        BY <2>3, <2>6, <3>1 DEF Marked
      <4>2. PICK other \in f.hidden \cap {"card", "olevel"} :
              c \in Inside(other) /\ (c \in Boxes => c \in f.live)
        BY <2>6, <3>1, <4>1 DEF Marked
      <4>3. other # section
        BY <1>2, <4>1, <4>2
      <4> QED BY <2>3, <4>2, <4>3
    <3>2. g.disabled \subseteq g.marked /\ kept \subseteq Boxes
      BY <2>3, <2>6 DEF Marked
    <3> QED BY <3>1, <3>2 DEF Marked
  <2>7. Unasked(f) => Unasked(g)
    BY <2>3 DEF Unasked
  <2>8. Follows(f, g)
    BY <2>3, <2>4, <2>5 DEF Follows
  <2>9. g.country = f.country /\ g.hidden = hidden /\ g.disabled \subseteq f.disabled
    BY <2>3
  <2> QED BY <1>3, <2>6, <2>7, <2>8, <2>9 DEF g
<1>4. CASE f.level \notin Uses(section)
  <2> DEFINE c == IF section \in f.hidden THEN f ELSE ClearSection(f, section)
             hidden == f.hidden \cup {section}
             disabled == f.disabled \cup reached
             marked == f.marked \cup (reached \ f.disabled)
  <2>1. /\ c \in Forms /\ c.level = f.level /\ c.country = f.country
        /\ c.live = f.live /\ c.disabled = f.disabled /\ c.marked = f.marked
        /\ c.hidden = f.hidden /\ c.folded = f.folded /\ c.on \subseteq f.on
        /\ c.openTo \in {f.openTo, "none"} /\ c.places \in {f.places, "none"}
        /\ section = "olevel" => c.openTo = f.openTo
        /\ Told(f) => Told(c)
    <3>1. CASE section \in f.hidden
      BY <3>1
    <3>2. CASE section \notin f.hidden
      BY <3>2, ClearSectionSpec
    <3> QED BY <3>1, <3>2
  <2>2. g = [c EXCEPT !.hidden = hidden, !.disabled = disabled, !.marked = marked]
    <3>1. g = [c EXCEPT !.hidden = c.hidden \cup {section}, !.disabled = c.disabled \cup reached,
                        !.marked = c.marked \cup (reached \ c.disabled)]
      BY <1>4 DEF FollowLevel
    <3> HIDE DEF c, g, reached
    <3> QED BY <2>1, <3>1
  <2>3. hidden \subseteq Sections /\ disabled \subseteq Controls /\ marked \subseteq Controls
    BY <1>1, <1>2 DEF Forms
  <2>4. /\ g \in Forms /\ g.hidden = hidden /\ g.disabled = disabled /\ g.marked = marked
        /\ g.level = c.level /\ g.country = c.country /\ g.live = c.live /\ g.on = c.on
        /\ g.openTo = c.openTo /\ g.places = c.places /\ g.chips = c.chips
        /\ g.folded = f.folded
    <3> HIDE DEF c, g, hidden, disabled, marked
    <3> QED BY <2>1, <2>2, <2>3 DEF Forms
  <2>5. ASSUME Tidy(f), section \notin f.hidden
        PROVE  Inside(section) \cap c.on = {}
               /\ (section = "card" => c.openTo = "none" /\ c.places = "none")
    <3>1. /\ c.on = f.on \ Reached(f, section)
          /\ c.openTo = IF section = "card" THEN "none" ELSE f.openTo
          /\ c.places = IF section = "card" THEN "none" ELSE f.places
      BY <2>5, ClearSectionSpec
    <3> HIDE DEF c
    <3> QED BY <2>5, <3>1 DEF Tidy, Reached
  <2>6. Tidy(f) => Inside(section) \cap c.on = {}
                   /\ (section = "card" => c.openTo = "none" /\ c.places = "none")
    BY <2>5 DEF Tidy, Left
  <2> HIDE DEF c, g, reached
  <2>7. ASSUME Tidy(f)
        PROVE  Tidy(g)
    <3>1. \A other \in f.hidden : Inside(other) \cap g.on \subseteq Left(g, other)
      BY <2>1, <2>4, <2>7 DEF Tidy, Left
    <3>2. /\ "card" \in f.hidden => g.openTo = "none" /\ g.places = "none"
          /\ "specific" \in f.hidden => g.openTo # "programmes"
          /\ "places" \in f.hidden => g.places = "none"
          /\ g.on \cap Boxes \subseteq g.live
      BY <2>1, <2>4, <2>7 DEF Tidy
    <3> QED BY <2>4, <2>6, <2>7, <3>1, <3>2 DEF Tidy
  <2>8. Told(f) => Told(g)
    BY <2>1, <2>4 DEF Told, Ticked
  <2>9. ASSUME NEW kept, Marked(f, kept)
        PROVE  Marked(g, kept)
    <3>1. ASSUME NEW d \in g.disabled, d \notin kept
          PROVE  /\ d \in Boxes => d \in g.live
                 /\ \E other \in g.hidden \cap {"card", "olevel"} : d \in Inside(other)
      <4>1. CASE d \in reached
        BY <1>2, <2>1, <2>4, <4>1
      <4>2. CASE d \in f.disabled
        BY <2>1, <2>4, <2>9, <3>1, <4>2 DEF Marked
      <4> QED BY <2>4, <4>1, <4>2
    <3>2. g.disabled \subseteq g.marked /\ kept \subseteq Boxes
      BY <2>4, <2>9 DEF Marked
    <3> QED BY <3>1, <3>2 DEF Marked
  <2>10. ASSUME Tidy(f), Unasked(f)
         PROVE  Unasked(g)
    <3>1. CASE section = "card"
      <4>1. c.on \cap Controls = {}
        BY <2>6, <2>10, <3>1, InsideSpec
      <4> QED BY <2>1, <2>4, <4>1 DEF Unasked, Forms
    <3>2. CASE section = "olevel"
      BY <2>1, <2>4, <2>10, <3>2 DEF Unasked
    <3> QED BY <3>1, <3>2
  <2>11. Follows(f, g)
    BY <2>1, <2>4, <2>7, <2>8 DEF Follows
  <2>12. g.country = f.country /\ g.hidden = hidden
    BY <2>1, <2>4
  <2> QED BY <1>4, <2>9, <2>10, <2>11, <2>12 DEF g
<1> QED BY <1>3, <1>4

\* A level for study in Zimbabwe sets the country, and all that follows it.
LEMMA FollowCountrySpec ==
  ASSUME NEW f \in Forms
  PROVE  LET g == FollowCountry(f)
         IN /\ Follows(f, g) /\ g.disabled = f.disabled /\ g.marked = f.marked
            /\ \A section \in {"card", "olevel"} :
                 (section \in g.hidden) = (section \in f.hidden)
            /\ AtHome([f EXCEPT !.level = ""]) => AtHome(g)
<1> DEFINE g == FollowCountry(f)
<1>1. CASE f.level \in ZimbabweOnly /\ f.country # "Zimbabwe"
  <2> DEFINE h == [f EXCEPT !.country = "Zimbabwe"]
  <2>1. g = FollowAnswers(h)
    BY <1>1 DEF FollowCountry
  <2>2. /\ h \in Forms /\ h.country = "Zimbabwe" /\ h.level = f.level /\ h.live = f.live
        /\ h.on = f.on /\ h.hidden = f.hidden /\ h.disabled = f.disabled
        /\ h.marked = f.marked /\ h.openTo = f.openTo /\ h.places = f.places
        /\ h.chips = f.chips /\ h.folded = f.folded
    BY DEF Forms, Countries
  <2> HIDE DEF h, g
  <2>3. Follows(f, h)
    BY <2>2 DEF Follows, Tidy, Left, Told, Ticked
  <2>4. /\ Follows(h, g) /\ g.country = h.country
        /\ g.disabled = h.disabled /\ g.marked = h.marked
        /\ ("abroad" \in g.hidden) = (h.country = "Zimbabwe")
        /\ \A section \in {"card", "olevel"} :
             (section \in g.hidden) = (section \in h.hidden)
    BY <2>1, <2>2, FollowAnswersSpec
  <2>5. AtHome(g)
    BY <2>2, <2>4 DEF AtHome
  <2>6. Follows(f, g)
    BY <2>3, <2>4, FollowsOn
  <2> QED BY <2>2, <2>4, <2>5, <2>6 DEF g
<1>2. CASE ~(f.level \in ZimbabweOnly /\ f.country # "Zimbabwe")
  <2>1. g = f
    BY <1>2 DEF FollowCountry
  <2>2. [f EXCEPT !.level = ""].hidden = f.hidden
        /\ [f EXCEPT !.level = ""].country = f.country
    BY DEF Forms
  <2>3. AtHome([f EXCEPT !.level = ""]) => AtHome(f)
    BY <1>2, <2>2 DEF AtHome
  <2> QED BY <2>1, <2>3 DEF Follows
<1> QED BY <1>1, <1>2

LEMMA ApplyLevelSpec ==
  ASSUME NEW f \in Forms
  PROVE  LET g == ApplyLevel(f)
         IN /\ Follows(f, g)
            /\ AtHome([f EXCEPT !.level = ""]) => AtHome(g)
            /\ \A kept : Marked(f, kept) => Marked(g, kept)
            /\ FollowCountry(f) = f /\ Tidy(f) /\ Unasked(f) => Unasked(g)
            /\ f.level = "" => g.disabled \subseteq f.disabled
<1> DEFINE here == FollowCountry(f)
           card == FollowLevel(here, "card")
           g == FollowLevel(card, "olevel")
<1>1. ApplyLevel(f) = g
  BY DEF ApplyLevel
<1>2. /\ Follows(f, here) /\ here.disabled = f.disabled /\ here.marked = f.marked
      /\ \A section \in {"card", "olevel"} :
           (section \in here.hidden) = (section \in f.hidden)
      /\ AtHome([f EXCEPT !.level = ""]) => AtHome(here)
  BY FollowCountrySpec
<1> HIDE DEF here
<1>3. /\ Follows(here, card) /\ card.country = here.country
      /\ card.hidden = IF here.level \in Uses("card") THEN here.hidden \ {"card"}
                                                     ELSE here.hidden \cup {"card"}
      /\ \A kept : Marked(here, kept) => Marked(card, kept)
      /\ Tidy(here) /\ Unasked(here) => Unasked(card)
      /\ here.level \in Uses("card") => card.disabled \subseteq here.disabled
  <2>1. here \in Forms
    BY <1>2 DEF Follows
  <2> QED BY <2>1, FollowLevelSpec
<1> HIDE DEF card
<1>4. /\ Follows(card, g) /\ g.country = card.country
      /\ g.hidden = IF card.level \in Uses("olevel") THEN card.hidden \ {"olevel"}
                                                     ELSE card.hidden \cup {"olevel"}
      /\ \A kept : Marked(card, kept) => Marked(g, kept)
      /\ Tidy(card) /\ Unasked(card) => Unasked(g)
      /\ card.level \in Uses("olevel") => g.disabled \subseteq card.disabled
  <2>1. card \in Forms
    BY <1>3 DEF Follows
  <2> QED BY <2>1, FollowLevelSpec
<1> HIDE DEF g
<1>5. Follows(f, g)
  BY <1>2, <1>3, <1>4, FollowsOn
<1>6. AtHome(here) => AtHome(g)
  <2>1. AtHome(here) => AtHome(card)
    BY <1>3 DEF AtHome, Follows
  <2>2. AtHome(card) => AtHome(g)
    BY <1>4 DEF AtHome, Follows
  <2> QED BY <2>1, <2>2
<1>7. ASSUME NEW kept, Marked(f, kept)
      PROVE  Marked(g, kept)
  <2>1. here.live = f.live
    BY <1>2 DEF Follows
  <2>2. Marked(here, kept)
    BY <1>2, <1>7, <2>1 DEF Marked
  <2> QED BY <1>3, <1>4, <2>2
<1>8. here = f /\ Tidy(f) /\ Unasked(f) => Unasked(g)
  BY <1>3, <1>4 DEF Follows
<1>9. f.level = "" => g.disabled \subseteq f.disabled
  <2>1. "" \in Uses("card") /\ "" \in Uses("olevel")
    BY DEF Uses, Levels
  <2> QED BY <1>2, <1>3, <1>4, <2>1 DEF Follows
<1> QED BY <1>1, <1>2, <1>5, <1>6, <1>7, <1>8, <1>9 DEF here

-----------------------------------------------------------------------------
(***************************************************************************)
(* scope-picker.js                                                         *)
(***************************************************************************)

\* Groups that leave take their ticks with them, and what is listed as chosen
\* follows.
LEMMA ApplyPickersSpec ==
  ASSUME NEW f \in Forms, NEW pickers \in SUBSET Pickers, Tidy(f),
         pickers = Pickers \/ (Told(f) /\ OfTheLevel(f))
  PROVE  LET g == ApplyPickers(f, pickers)
         IN /\ g \in Forms /\ g.level = f.level /\ g.country = f.country
            /\ g.openTo = f.openTo /\ g.hidden = f.hidden /\ g.disabled = f.disabled
            /\ g.on \subseteq f.on
            /\ Tidy(g) /\ Told(g) /\ OfTheLevel(g)
            /\ \A b \in f.live : Wanted(f, b) => b \in g.live
            /\ \A kept : Marked(f, kept) =>
                 Marked(g, (kept \cup (f.live \ g.live)) \cap g.disabled)
<1> DEFINE those == UNION {In(p) : p \in pickers}
           wanted == {b \in those : Wanted(f, b)}
           leaves == (f.live \cap those) \ wanted
           on == f.on \ leaves
           live == (f.live \ those) \cup wanted
           h == [f EXCEPT !.on = on, !.live = live]
           g == RefreshChips(h, those)
           told == UNION {In(PickerOf[b]) : b \in those \cap Boxes}
           chips == (h.chips \ told) \cup (Ticked(h) \cap told)
<1>1. those \subseteq Boxes /\ (pickers = Pickers => those = Boxes)
  BY BoxesAssumption DEF In
<1>2. on \subseteq Controls \ Radios /\ live \subseteq Boxes
  BY <1>1 DEF Forms
<1>3. ApplyPickers(f, pickers) = g
  BY DEF ApplyPickers
<1>4. \A b \in wanted : f.level # "" => LevelOf[b] = f.level
  BY DEF Wanted
<1>5. \A b \in those : Wanted(f, b) => b \in wanted
  OBVIOUS
<1>6. \A b : b \in on <=> b \in f.on /\ b \notin leaves
  OBVIOUS
<1>7. \A b : b \in live <=> (b \in f.live /\ b \notin those) \/ b \in wanted
  OBVIOUS
<1>8. wanted \subseteq those /\ leaves \subseteq those
      /\ \A b \in f.live \cap those : b \in leaves \/ b \in wanted
  OBVIOUS
<1> HIDE DEF those, wanted, leaves, on, live
<1>9. /\ h \in Forms /\ h.on = on /\ h.live = live
      /\ h.level = f.level /\ h.country = f.country /\ h.openTo = f.openTo
      /\ h.places = f.places /\ h.hidden = f.hidden /\ h.disabled = f.disabled
      /\ h.marked = f.marked /\ h.chips = f.chips /\ h.folded = f.folded
  BY <1>2 DEF Forms
<1> HIDE DEF h
<1>10. /\ g \in Forms /\ g = [h EXCEPT !.chips = chips] /\ those \cap Boxes \subseteq told
  BY <1>9, RefreshSpec
<1> HIDE DEF told
<1>11. /\ g.on = on /\ g.live = live /\ g.chips = chips
       /\ g.level = f.level /\ g.country = f.country /\ g.openTo = f.openTo
       /\ g.places = f.places /\ g.hidden = f.hidden /\ g.disabled = f.disabled
       /\ g.marked = f.marked /\ g.folded = f.folded
  <2> HIDE DEF chips, g
  <2> QED BY <1>9, <1>10 DEF Forms
<1> HIDE DEF g
<1>12. g.on \subseteq f.on
  BY <1>6, <1>11
<1>13. Tidy(g)
  <2>1. g.on \cap Boxes \subseteq g.live
    <3>1. ASSUME NEW b \in Boxes, b \in g.on
          PROVE  b \in g.live
      <4>1. b \in f.on /\ b \notin leaves /\ b \in f.live
        BY <1>6, <1>11, <3>1 DEF Tidy
      <4> QED BY <1>7, <1>8, <1>11, <4>1
    <3> QED BY <3>1
  <2> QED BY <1>11, <1>12, <2>1 DEF Tidy, Left
<1>14. Told(g)
  <2>1. \A b : b \in g.chips <=>
               (b \in f.chips /\ b \notin told) \/ (b \in on /\ b \in live /\ b \in told)
    BY <1>9, <1>11 DEF Ticked
  <2>2. CASE pickers = Pickers
    <3>1. f.chips \subseteq told /\ live \subseteq told
      BY <1>1, <1>2, <1>10, <2>2 DEF Forms
    <3> QED BY <1>11, <2>1, <3>1 DEF Told, Ticked
  <2>3. CASE Told(f)
    <3>1. \A b : b \notin told => b \notin those
      BY <1>1, <1>10
    <3>2. \A b : b \notin told => (b \in f.chips <=> b \in on /\ b \in live)
      BY <1>6, <1>7, <1>8, <2>3, <3>1 DEF Told, Ticked
    <3> QED BY <1>11, <2>1, <3>2 DEF Told, Ticked
  <2> QED BY <2>2, <2>3
<1>15. OfTheLevel(g)
  <2>1. CASE pickers = Pickers
    <3>1. live \subseteq wanted
      BY <1>1, <1>7, <2>1 DEF Forms
    <3> QED BY <1>4, <1>11, <3>1 DEF OfTheLevel
  <2>2. CASE OfTheLevel(f)
    BY <1>4, <1>7, <1>11, <2>2 DEF OfTheLevel
  <2> QED BY <2>1, <2>2
<1>16. \A b \in f.live : Wanted(f, b) => b \in g.live
  BY <1>5, <1>7, <1>11
<1>17. ASSUME NEW kept, Marked(f, kept)
       PROVE  Marked(g, (kept \cup (f.live \ g.live)) \cap g.disabled)
  <2> DEFINE after == (kept \cup (f.live \ g.live)) \cap g.disabled
  <2>1. after \subseteq Boxes
    BY <1>17 DEF Marked, Forms
  <2>2. ASSUME NEW c \in g.disabled, c \notin after
        PROVE  /\ c \in Boxes => c \in g.live
               /\ \E section \in g.hidden \cap {"card", "olevel"} : c \in Inside(section)
    BY <1>11, <1>17, <2>2 DEF Marked
  <2>3. g.disabled \subseteq g.marked
    BY <1>11, <1>17 DEF Marked
  <2> HIDE DEF after
  <2>4. Marked(g, after)
    BY <2>1, <2>2, <2>3 DEF Marked
  <2> QED BY <2>4 DEF after
<1> QED BY <1>3, <1>10, <1>11, <1>12, <1>13, <1>14, <1>15, <1>16, <1>17

-----------------------------------------------------------------------------
(***************************************************************************)
(* The page as it is rendered                                              *)
(***************************************************************************)

LEMMA RenderedSpec ==
  ASSUME NEW s \in Drawn
  PROVE  LET f == Rendered(s)
         IN /\ f \in Forms /\ Tidy(f) /\ AtHome(f) /\ Unasked(f) /\ Marked(f, {})
            /\ FollowCountry(f) = f /\ f.disabled = {}
            /\ f.level # "" => \A b \in f.live : LevelOf[b] = f.level
<1> DEFINE f == Rendered(s)
           chosen == s.openTo = "chosen"
           worded == "host" \in s.on
           live == {b \in Boxes : LevelOf[b] = s.level \/ b \in s.on}
           hidden == Folded(s)
<1>1. /\ s.level \in Levels /\ s.country \in Countries
      /\ s.openTo \in {"none", "all", "programmes", "fields", "chosen"}
      /\ s.places \in {"none", "any", "chosen"} /\ s.on \subseteq Boxes \cup Others
      /\ s.wrong \in BOOLEAN
  BY DEF Drawn
<1>2. /\ s.level \in ZimbabweOnly =>
           s.country = "Zimbabwe" /\ s.on = {} /\ s.openTo = "none" /\ s.places = "none"
      /\ \A b \in s.on \cap Boxes : s.level # "" => LevelOf[b] = s.level
      /\ s.on \cap In("programmes") # {} =>
           s.country = "Zimbabwe" /\ s.openTo \in {"programmes", "chosen"}
      /\ s.on \cap In("fields") # {} => s.openTo \in {"fields", "chosen"}
      /\ s.on \cap In("institutions") # {} => s.places = "chosen"
      /\ s.country = "abroad" => s.places = "none" /\ s.openTo # "programmes"
      /\ "host" \in s.on => s.country = "abroad"
      /\ "suggestion" \in s.on =>
           s.wrong \/ (s.country = "Zimbabwe" /\ s.openTo \in {"none", "programmes", "chosen"})
  BY DEF Drawn
<1>3. f = [level |-> s.level, country |-> s.country, openTo |-> s.openTo,
           places |-> s.places, on |-> s.on, live |-> live, disabled |-> {},
           marked |-> {}, hidden |-> hidden, chips |-> {}, searched |-> {},
           saved |-> chosen, worded |-> worded, folded |-> {}]
  BY DEF Rendered
<1>4. live \subseteq Boxes /\ s.on \cap Boxes \subseteq live
      /\ (s.level # "" => \A b \in live : LevelOf[b] = s.level)
  BY <1>1, <1>2, BoxesAssumption
<1>6. hidden \subseteq {"specific", "places", "programmes", "abroad", "fields", "institutions"}
  BY DEF Folded
<1>7. hidden \subseteq Sections /\ "card" \notin hidden
  BY <1>6 DEF Sections, Pickers
<1>8. /\ "abroad" \in hidden <=> s.country # "abroad"
      /\ "specific" \in hidden <=> s.country = "abroad"
      /\ "places" \in hidden <=> s.country = "abroad"
      /\ "programmes" \in hidden <=>
           ~s.wrong /\ (s.country = "abroad" \/ s.openTo \in {"all", "fields"})
      /\ "fields" \in hidden <=> s.openTo \in {"all", "programmes"}
      /\ "institutions" \in hidden <=> s.places = "any"
  BY DEF Folded
<1>9. chosen \in BOOLEAN /\ worded \in BOOLEAN
  OBVIOUS
<1> HIDE DEF chosen, worded, live, hidden, f
<1>10. s.on \subseteq Controls \ Radios
  BY <1>1, BoxesAssumption DEF Controls, Others, Radios
<1>11. f \in Forms
  BY <1>1, <1>3, <1>4, <1>7, <1>9, <1>10 DEF Forms
<1>12. /\ f.level = s.level /\ f.country = s.country /\ f.openTo = s.openTo
       /\ f.places = s.places /\ f.on = s.on /\ f.live = live /\ f.disabled = {}
       /\ f.hidden = hidden /\ f.folded = {}
  BY <1>3
<1>13. \A section \in hidden : Inside(section) \cap s.on \subseteq Left(f, section)
  <2>1. "programmes" \in hidden => Inside("programmes") \cap s.on \subseteq Singles
    <3>1. "programmes" \in hidden => In("programmes") \cap s.on = {} /\ "suggestion" \notin s.on
      BY <1>2, <1>8
    <3> QED BY <3>1, InsideSpec DEF Singles
  <2>2. "fields" \in hidden => In("fields") \cap s.on = {}
    BY <1>2, <1>8
  <2>3. ("institutions" \in hidden \/ "places" \in hidden) => In("institutions") \cap s.on = {}
    BY <1>2, <1>8
  <2>4. "abroad" \in hidden => "host" \notin s.on
    BY <1>2, <1>8
  <2>5. "institutions_open_to" \notin s.on
    BY <1>10 DEF Radios
  <2>6. "programmes" \in hidden =>
          Inside("programmes") \cap s.on \subseteq Left(f, "programmes")
    BY <2>1 DEF Left
  <2>7. \A section \in hidden \ {"programmes"} : Inside(section) \cap s.on = {}
    <3>1. ASSUME NEW section \in hidden, section # "programmes"
          PROVE  Inside(section) \cap s.on = {}
      <4>1. section \in {"specific", "places", "abroad", "fields", "institutions"}
        BY <1>6, <3>1
      <4>2. CASE section = "specific"
        BY <4>2, InsideSpec
      <4>3. CASE section = "places"
        BY <2>3, <2>5, <4>3, InsideSpec
      <4>4. CASE section = "abroad"
        BY <2>4, <4>4, InsideSpec
      <4>5. CASE section = "fields"
        BY <2>2, <4>5, InsideSpec
      <4>6. CASE section = "institutions"
        BY <2>3, <4>6, InsideSpec
      <4> QED BY <4>1, <4>2, <4>3, <4>4, <4>5, <4>6
    <3> QED BY <3>1
  <2> QED BY <2>6, <2>7
<1>14. Tidy(f)
  BY <1>2, <1>4, <1>7, <1>8, <1>12, <1>13 DEF Tidy
<1>15. AtHome(f)
  <2>1. s.country = "Zimbabwe" <=> s.country # "abroad"
    BY <1>1 DEF Countries
  <2>2. f.level \in ZimbabweOnly => f.country = "Zimbabwe"
    BY <1>2, <1>12
  <2>3. ("abroad" \in f.hidden) = (f.country = "Zimbabwe")
    BY <1>8, <1>12, <2>1
  <2>4. f.country # "Zimbabwe" => {"specific", "places"} \subseteq f.hidden
    BY <1>8, <1>12, <2>1
  <2> QED BY <2>2, <2>3, <2>4 DEF AtHome
<1>16. Unasked(f)
  BY <1>2, <1>12 DEF Unasked
<1>17. Marked(f, {})
  BY <1>12 DEF Marked
<1>18. FollowCountry(f) = f
  <2>1. ~(f.level \in ZimbabweOnly /\ f.country # "Zimbabwe")
    BY <1>2, <1>12
  <2> QED BY <2>1 DEF FollowCountry
<1>19. f.level # "" => \A b \in f.live : LevelOf[b] = f.level
  BY <1>4, <1>12
<1> QED BY <1>11, <1>12, <1>14, <1>15, <1>16, <1>17, <1>18, <1>19 DEF f

LEMMA FoldOnLoadSpec ==
  ASSUME NEW f \in Forms, NEW wrong \in BOOLEAN, Tidy(f), Told(f), AtHome(f),
         OfTheLevel(f), Marked(f, {}), Unasked(f)
  PROVE  LET g == FoldOnLoad(f, wrong)
         IN g \in Forms /\ Tidy(g) /\ Told(g) /\ AtHome(g) /\ OfTheLevel(g) /\ Marked(g, {})
<1>1. CASE f.openTo # "none"
  <2>1. FoldOnLoad(f, wrong) = f
    BY <1>1 DEF FoldOnLoad
  <2> QED BY <2>1
<1>2. CASE f.openTo = "none"
  <2> DEFINE lists == IF wrong THEN {"fields"} ELSE {"programmes", "fields"}
             hidden == f.hidden \cup lists
             folded == IF wrong THEN f.folded ELSE f.on \cap {"suggestion"}
             g == [f EXCEPT !.hidden = hidden, !.folded = folded]
  <2>1. FoldOnLoad(f, wrong) = g
    BY <1>2 DEF FoldOnLoad
  <2>2. hidden \subseteq Sections /\ folded \subseteq Others
    BY DEF Forms, Sections, Pickers, Others
  <2>3. /\ g \in Forms /\ g.hidden = hidden /\ g.folded = folded
        /\ g.level = f.level /\ g.country = f.country /\ g.openTo = f.openTo
        /\ g.places = f.places /\ g.on = f.on /\ g.live = f.live
        /\ g.disabled = f.disabled /\ g.marked = f.marked /\ g.chips = f.chips
    <3> HIDE DEF hidden, folded
    <3> QED BY <2>2 DEF Forms
  <2> HIDE DEF g
  <2>4. In("programmes") \cap f.on = {} /\ In("fields") \cap f.on = {}
    BY <1>2 DEF Unasked
  <2>5. Tidy(g)
    <3>1. Inside("fields") \cap g.on = {}
      BY <2>3, <2>4, InsideSpec
    <3>2. CASE wrong
      <4>1. \A section : Left(g, section) = Left(f, section)
        BY <2>3, <3>2 DEF Left
      <4>2. g.hidden = f.hidden \cup {"fields"}
        BY <2>3, <3>2
      <4> QED BY <2>3, <3>1, <4>1, <4>2 DEF Tidy
    <3>3. CASE ~wrong
      <4>1. Inside("programmes") \cap g.on \subseteq Left(g, "programmes")
        BY <2>3, <2>4, <3>3, InsideSpec DEF Left, Singles
      <4>2. g.hidden = f.hidden \cup {"programmes", "fields"}
        BY <2>3, <3>3
      <4>3. \A section \in f.hidden \ {"programmes"} :
              Inside(section) \cap g.on \subseteq Left(g, section)
        BY <2>3 DEF Tidy, Left
      <4>4. \A section \in g.hidden : Inside(section) \cap g.on \subseteq Left(g, section)
        BY <3>1, <4>1, <4>2, <4>3
      <4> QED BY <2>3, <4>2, <4>4 DEF Tidy
    <3> QED BY <3>2, <3>3
  <2>6. Told(g)
    BY <2>3 DEF Told, Ticked
  <2>7. AtHome(g)
    BY <2>3 DEF AtHome
  <2>8. OfTheLevel(g)
    BY <2>3 DEF OfTheLevel
  <2>9. Marked(g, {})
    BY <2>3 DEF Marked
  <2> QED BY <2>1, <2>3, <2>5, <2>6, <2>7, <2>8, <2>9
<1> QED BY <1>1, <1>2

LEMMA InitInv ==
  ASSUME Init
  PROVE  IInv
<1>1. PICK s \in Drawn :
        form = FoldOnLoad(ApplyPickers(ApplyLevel(Rendered(s)), Pickers), s.wrong)
  BY DEF Init, Loaded
<1>0. s.wrong \in BOOLEAN
  BY DEF Drawn
<1> DEFINE f == Rendered(s)
           a == ApplyLevel(f)
           p == ApplyPickers(a, Pickers)
<1>2. /\ f \in Forms /\ Tidy(f) /\ AtHome(f) /\ Unasked(f) /\ Marked(f, {})
      /\ FollowCountry(f) = f /\ f.disabled = {}
      /\ (f.level # "" => \A b \in f.live : LevelOf[b] = f.level)
  BY RenderedSpec
<1>3. form = FoldOnLoad(p, s.wrong)
  BY <1>1
<1> HIDE DEF f
<1>4. /\ Follows(f, a) /\ (AtHome([f EXCEPT !.level = ""]) => AtHome(a))
      /\ (\A kept : Marked(f, kept) => Marked(a, kept))
      /\ (FollowCountry(f) = f /\ Tidy(f) /\ Unasked(f) => Unasked(a))
      /\ (f.level = "" => a.disabled \subseteq f.disabled)
  BY <1>2, ApplyLevelSpec
<1> HIDE DEF a
<1>5. AtHome([f EXCEPT !.level = ""])
  <2>1. [f EXCEPT !.level = ""].hidden = f.hidden
        /\ [f EXCEPT !.level = ""].country = f.country
        /\ [f EXCEPT !.level = ""].level = ""
    BY <1>2 DEF Forms
  <2>2. "" \notin ZimbabweOnly
    BY DEF ZimbabweOnly
  <2> QED BY <1>2, <2>1, <2>2 DEF AtHome
<1>6. a \in Forms /\ Tidy(a) /\ AtHome(a) /\ Unasked(a) /\ Marked(a, {})
      /\ a.level = f.level /\ a.live = f.live
  BY <1>2, <1>4, <1>5 DEF Follows
<1>7. /\ p \in Forms /\ p.level = a.level /\ p.country = a.country
      /\ p.openTo = a.openTo /\ p.hidden = a.hidden /\ p.on \subseteq a.on
      /\ p.disabled = a.disabled
      /\ Tidy(p) /\ Told(p) /\ OfTheLevel(p)
      /\ (\A b \in a.live : Wanted(a, b) => b \in p.live)
      /\ Marked(p, ({} \cup (a.live \ p.live)) \cap p.disabled)
  <2>1. Pickers \in SUBSET Pickers
    OBVIOUS
  <2>0. Pickers = Pickers \/ (Told(a) /\ OfTheLevel(a))
    OBVIOUS
  <2>2. /\ p \in Forms /\ p.level = a.level /\ p.country = a.country
        /\ p.openTo = a.openTo /\ p.hidden = a.hidden /\ p.on \subseteq a.on
        /\ p.disabled = a.disabled
        /\ Tidy(p) /\ Told(p) /\ OfTheLevel(p)
        /\ \A b \in a.live : Wanted(a, b) => b \in p.live
    BY <1>6, <2>0, <2>1, ApplyPickersSpec
  <2>3. \A kept : Marked(a, kept) =>
                 Marked(p, (kept \cup (a.live \ p.live)) \cap p.disabled)
    BY <1>6, <2>0, <2>1, ApplyPickersSpec
  <2> HIDE DEF p
  <2> QED BY <1>6, <2>2, <2>3
<1> HIDE DEF p
<1>8. f.level # "" => \A b \in a.live : Wanted(a, b)
  BY <1>2, <1>6 DEF Wanted
<1>9. Marked(p, {})
  <2>1. ({} \cup (a.live \ p.live)) \cap p.disabled = {}
    <3>1. CASE f.level # ""
      BY <1>7, <1>8, <3>1
    <3>2. CASE f.level = ""
      BY <1>2, <1>4, <1>7, <3>2
    <3> QED BY <3>1, <3>2
  <2> QED BY <1>7, <2>1
<1>10. AtHome(p)
  BY <1>6, <1>7 DEF AtHome
<1>11. Unasked(p)
  BY <1>6, <1>7 DEF Unasked
<1>12. parked = {}
  BY DEF Init
<1>13. /\ form \in Forms /\ Tidy(form) /\ Told(form) /\ AtHome(form)
       /\ OfTheLevel(form) /\ Marked(form, {})
  BY <1>0, <1>3, <1>7, <1>9, <1>10, <1>11, FoldOnLoadSpec
<1> QED BY <1>12, <1>13 DEF IInv

-----------------------------------------------------------------------------
(***************************************************************************)
(* The steps                                                               *)
(***************************************************************************)

\* The invariant of the form that a step leaves.
LEMMA Becomes ==
  ASSUME NEW g, NEW kept, form' = g, parked' = kept,
         g \in Forms, Tidy(g), Told(g), AtHome(g), OfTheLevel(g), Marked(g, kept)
  PROVE  IInv'
<1>1. Tidy(form)'
  BY DEF Tidy, Left
<1>2. Told(form)'
  BY DEF Told, Ticked
<1>3. AtHome(form)'
  BY DEF AtHome
<1>4. OfTheLevel(form)'
  BY DEF OfTheLevel
<1>5. Marked(form, parked)'
  BY DEF Marked
<1> QED BY <1>1, <1>2, <1>3, <1>4, <1>5 DEF IInv

\* An answer that is followed by open-to.js alone.
LEMMA AnswerFollowed ==
  ASSUME IInv, NEW f \in Forms,
         f.live = form.live, f.level = form.level, f.disabled = form.disabled,
         f.marked = form.marked, f.hidden = form.hidden,
         f.level \in ZimbabweOnly => f.country = "Zimbabwe",
         Tidy(f), Told(f), form' = FollowAnswers(f), UNCHANGED parked
  PROVE  IInv'
<1> DEFINE g == FollowAnswers(f)
<1>1. /\ Follows(f, g)
      /\ g.country = f.country /\ g.disabled = f.disabled /\ g.marked = f.marked
      /\ ("abroad" \in g.hidden) = (f.country = "Zimbabwe")
      /\ f.country # "Zimbabwe" => {"specific", "places", "programmes"} \subseteq g.hidden
      /\ \A section \in {"card", "olevel"} :
           (section \in g.hidden) = (section \in f.hidden)
  BY FollowAnswersSpec
<1>2. form' = g
  OBVIOUS
<1> HIDE DEF g
<1>3. g \in Forms /\ Tidy(g) /\ Told(g) /\ g.level = form.level /\ g.live = form.live
  BY <1>1 DEF Follows
<1>4. AtHome(g)
  BY <1>1, <1>3 DEF AtHome
<1>5. OfTheLevel(g)
  BY <1>3 DEF IInv, OfTheLevel
<1>6. Marked(g, parked)
  BY <1>1, <1>3 DEF IInv, Marked
<1> QED BY <1>2, <1>3, <1>4, <1>5, <1>6, Becomes

LEMMA ChooseLevelStep ==
  ASSUME IInv, NEW level \in Levels, ChooseLevel(level)
  PROVE  IInv'
<1> DEFINE f == [form EXCEPT !.level = level]
           a == ApplyLevel(f)
           p == ApplyPickers(a, Pickers)
           kept == (parked \cup (a.live \ p.live)) \cap p.disabled
<1>1. form' = p /\ parked' = kept
  BY DEF ChooseLevel, Park
<1>2. /\ f \in Forms /\ f.level = level /\ f.country = form.country
      /\ f.openTo = form.openTo /\ f.places = form.places /\ f.on = form.on
      /\ f.live = form.live /\ f.disabled = form.disabled /\ f.marked = form.marked
      /\ f.hidden = form.hidden /\ f.chips = form.chips /\ f.folded = form.folded
  BY DEF IInv, Forms
<1> HIDE DEF f
<1>3. Tidy(f) /\ Told(f) /\ Marked(f, parked)
  BY <1>2 DEF IInv, Tidy, Left, Told, Ticked, Marked
<1>4. AtHome([f EXCEPT !.level = ""])
  <2>1. [f EXCEPT !.level = ""].hidden = f.hidden
        /\ [f EXCEPT !.level = ""].country = f.country
        /\ [f EXCEPT !.level = ""].level = ""
    BY <1>2 DEF Forms
  <2>2. "" \notin ZimbabweOnly
    BY DEF ZimbabweOnly
  <2> QED BY <1>2, <2>1, <2>2 DEF IInv, AtHome
<1>5. /\ Follows(f, a) /\ (AtHome([f EXCEPT !.level = ""]) => AtHome(a))
      /\ (\A k : Marked(f, k) => Marked(a, k))
  BY <1>2, ApplyLevelSpec
<1> HIDE DEF a
<1>6. a \in Forms /\ Tidy(a) /\ AtHome(a) /\ Marked(a, parked)
  BY <1>3, <1>4, <1>5 DEF Follows
<1>7. /\ p \in Forms /\ p.level = a.level /\ p.country = a.country /\ p.hidden = a.hidden
      /\ Tidy(p) /\ Told(p) /\ OfTheLevel(p)
  <2>1. Pickers \in SUBSET Pickers /\ (Pickers = Pickers \/ (Told(a) /\ OfTheLevel(a)))
    OBVIOUS
  <2> QED BY <1>6, <2>1, ApplyPickersSpec
<1>8. Marked(p, kept)
  <2>1. Pickers \in SUBSET Pickers /\ (Pickers = Pickers \/ (Told(a) /\ OfTheLevel(a)))
    OBVIOUS
  <2>2. \A k : Marked(a, k) => Marked(p, (k \cup (a.live \ p.live)) \cap p.disabled)
    BY <1>6, <2>1, ApplyPickersSpec
  <2> HIDE DEF p
  <2> QED BY <1>6, <2>2
<1> HIDE DEF p, kept
<1>9. AtHome(p)
  BY <1>6, <1>7 DEF AtHome
<1> QED BY <1>1, <1>7, <1>8, <1>9, Becomes

LEMMA SearchStep ==
  ASSUME IInv, NEW picker \in Pickers, Search(picker)
  PROVE  IInv'
<1> DEFINE searched == IF picker \in form.searched THEN form.searched \ {picker}
                                                   ELSE form.searched \cup {picker}
           f == [form EXCEPT !.searched = searched]
           p == ApplyPickers(f, {picker})
           kept == (parked \cup (f.live \ p.live)) \cap p.disabled
<1>1. form' = p /\ parked' = kept
  BY DEF Search, Park
<1>2. searched \subseteq Pickers
  BY DEF IInv, Forms
<1> HIDE DEF searched
<1>3. /\ f \in Forms /\ f.level = form.level /\ f.country = form.country
      /\ f.openTo = form.openTo /\ f.places = form.places /\ f.on = form.on
      /\ f.live = form.live /\ f.disabled = form.disabled /\ f.marked = form.marked
      /\ f.hidden = form.hidden /\ f.chips = form.chips /\ f.folded = form.folded
  BY <1>2 DEF IInv, Forms
<1> HIDE DEF f
<1>4. Tidy(f) /\ Told(f) /\ OfTheLevel(f) /\ Marked(f, parked)
  BY <1>3 DEF IInv, Tidy, Left, Told, Ticked, OfTheLevel, Marked
<1>5. {picker} \in SUBSET Pickers /\ ({picker} = Pickers \/ (Told(f) /\ OfTheLevel(f)))
  BY <1>4
<1>6. /\ p \in Forms /\ p.level = f.level /\ p.country = f.country /\ p.hidden = f.hidden
      /\ Tidy(p) /\ Told(p) /\ OfTheLevel(p)
  BY <1>3, <1>4, <1>5, ApplyPickersSpec
<1>7. \A k : Marked(f, k) => Marked(p, (k \cup (f.live \ p.live)) \cap p.disabled)
  BY <1>3, <1>4, <1>5, ApplyPickersSpec
<1> HIDE DEF p
<1>8. Marked(p, kept)
  BY <1>4, <1>7
<1>9. AtHome(p)
  BY <1>3, <1>6 DEF IInv, AtHome
<1> HIDE DEF kept
<1> QED BY <1>1, <1>6, <1>8, <1>9, Becomes

LEMMA ChooseCountryStep ==
  ASSUME IInv, NEW country \in Countries, ChooseCountry(country)
  PROVE  IInv'
<1> DEFINE f == [form EXCEPT !.country = country]
<1>1. form' = FollowAnswers(f) /\ UNCHANGED parked /\ form.level \notin ZimbabweOnly
  BY DEF ChooseCountry
<1>2. /\ f \in Forms /\ f.level = form.level
      /\ f.openTo = form.openTo /\ f.places = form.places /\ f.on = form.on
      /\ f.live = form.live /\ f.disabled = form.disabled /\ f.marked = form.marked
      /\ f.hidden = form.hidden /\ f.chips = form.chips /\ f.folded = form.folded
  BY DEF IInv, Forms
<1> HIDE DEF f
<1>3. Tidy(f) /\ Told(f)
  BY <1>2 DEF IInv, Tidy, Left, Told, Ticked
<1> QED BY <1>1, <1>2, <1>3, AnswerFollowed

\* What can be used is in the list and in sections that are all shown.
LEMMA UsableSpec ==
  ASSUME NEW c, Usable(c)
  PROVE  /\ c \in Boxes => c \in form.live
         /\ \A section \in Sections : c \in Inside(section) => section \notin form.hidden
BY DEF Usable, Seen

LEMMA AnswerOpenToStep ==
  ASSUME IInv, NEW answer \in {"all", "programmes", "fields", "chosen"},
         AnswerOpenTo(answer)
  PROVE  IInv'
<1> DEFINE f == [form EXCEPT !.openTo = answer]
<1>1. /\ form' = FollowAnswers(f) /\ UNCHANGED parked
      /\ Usable("open_to") /\ (answer = "programmes" => "specific" \notin form.hidden)
  BY DEF AnswerOpenTo
<1>2. /\ f \in Forms /\ f.level = form.level /\ f.country = form.country
      /\ f.openTo = answer /\ f.places = form.places /\ f.on = form.on
      /\ f.live = form.live /\ f.disabled = form.disabled /\ f.marked = form.marked
      /\ f.hidden = form.hidden /\ f.chips = form.chips /\ f.folded = form.folded
  BY DEF IInv, Forms
<1> HIDE DEF f
<1>3. "card" \notin form.hidden
  <2>1. "card" \in Sections /\ "open_to" \in Inside("card")
    BY InsideSpec DEF Sections, Controls, Radios
  <2> QED BY <1>1, <2>1, UsableSpec
<1>4. Tidy(f) /\ Told(f)
  BY <1>1, <1>2, <1>3 DEF IInv, Tidy, Left, Told, Ticked
<1>5. f.level \in ZimbabweOnly => f.country = "Zimbabwe"
  BY <1>2 DEF IInv, AtHome
<1> QED BY <1>1, <1>2, <1>4, <1>5, AnswerFollowed

LEMMA AnswerPlacesStep ==
  ASSUME IInv, NEW answer \in {"any", "chosen"}, AnswerPlaces(answer)
  PROVE  IInv'
<1> DEFINE f == [form EXCEPT !.places = answer]
<1>1. form' = FollowAnswers(f) /\ UNCHANGED parked /\ Usable("institutions_open_to")
  BY DEF AnswerPlaces
<1>2. /\ f \in Forms /\ f.level = form.level /\ f.country = form.country
      /\ f.openTo = form.openTo /\ f.places = answer /\ f.on = form.on
      /\ f.live = form.live /\ f.disabled = form.disabled /\ f.marked = form.marked
      /\ f.hidden = form.hidden /\ f.chips = form.chips /\ f.folded = form.folded
  BY DEF IInv, Forms
<1> HIDE DEF f
<1>3. "card" \notin form.hidden /\ "places" \notin form.hidden
  <2>1. /\ "card" \in Sections /\ "institutions_open_to" \in Inside("card")
        /\ "places" \in Sections /\ "institutions_open_to" \in Inside("places")
    BY InsideSpec DEF Sections, Controls, Radios
  <2> QED BY <1>1, <2>1, UsableSpec
<1>4. Tidy(f) /\ Told(f)
  BY <1>1, <1>2, <1>3 DEF IInv, Tidy, Left, Told, Ticked
<1>5. f.level \in ZimbabweOnly => f.country = "Zimbabwe"
  BY <1>2 DEF IInv, AtHome
<1> QED BY <1>1, <1>2, <1>4, <1>5, AnswerFollowed

LEMMA ToggleStep ==
  ASSUME IInv, NEW b \in Boxes, Toggle(b)
  PROVE  IInv'
<1> DEFINE on == IF b \in form.on THEN form.on \ {b} ELSE form.on \cup {b}
           places == IF b \in on \cap In("institutions") THEN "chosen" ELSE form.places
           h == [form EXCEPT !.on = on, !.places = places]
           told == UNION {In(PickerOf[c]) : c \in {b} \cap Boxes}
           chips == (h.chips \ told) \cup (Ticked(h) \cap told)
           g == RefreshChips(h, {b})
<1>1. form' = g /\ UNCHANGED parked /\ Usable(b)
  <2>1. form' = RefreshChips([[form EXCEPT !.on = on] EXCEPT !.places =
                     IF b \in on \cap In("institutions") THEN "chosen"
                     ELSE [form EXCEPT !.on = on].places], {b})
    BY DEF Toggle
  <2>2. [[form EXCEPT !.on = on] EXCEPT !.places =
           IF b \in on \cap In("institutions") THEN "chosen"
           ELSE [form EXCEPT !.on = on].places] = h
    <3> HIDE DEF on
    <3> QED BY DEF IInv, Forms
  <2> HIDE DEF g, h
  <2>3. form' = RefreshChips(h, {b})
    BY <2>1, <2>2
  <2> QED BY <2>3 DEF Toggle, g
<1>2. on \subseteq Controls \ Radios /\ places \in {"none", "any", "chosen"}
  BY BoxesAssumption DEF IInv, Forms, Controls
<1>3. \A c : c # b => (c \in on <=> c \in form.on)
  OBVIOUS
<1>4. places = form.places \/ b \in In("institutions")
  OBVIOUS
<1> HIDE DEF on, places
<1>5. /\ h \in Forms /\ h.on = on /\ h.places = places /\ h.level = form.level
      /\ h.country = form.country /\ h.openTo = form.openTo /\ h.live = form.live
      /\ h.disabled = form.disabled /\ h.marked = form.marked
      /\ h.hidden = form.hidden /\ h.chips = form.chips /\ h.folded = form.folded
  BY <1>2 DEF IInv, Forms
<1> HIDE DEF h
<1>6. g \in Forms /\ g = [h EXCEPT !.chips = chips] /\ {b} \cap Boxes \subseteq told
  BY <1>5, RefreshSpec
<1> HIDE DEF told, g
<1>7. /\ g.on = on /\ g.places = places /\ g.level = form.level
      /\ g.country = form.country /\ g.openTo = form.openTo /\ g.live = form.live
      /\ g.disabled = form.disabled /\ g.marked = form.marked
      /\ g.hidden = form.hidden /\ g.chips = chips /\ g.folded = form.folded
  <2> HIDE DEF chips
  <2> QED BY <1>5, <1>6 DEF Forms
<1>8. /\ b \in form.live
      /\ \A section \in Sections : b \in Inside(section) => section \notin form.hidden
  BY <1>1, UsableSpec
<1>9. Tidy(g)
  <2>1. form.hidden \subseteq Sections
    BY DEF IInv, Forms
  <2>2. \A section \in form.hidden : Inside(section) \cap on \subseteq Left(form, section)
    BY <1>3, <1>8, <2>1 DEF IInv, Tidy
  <2>3. b \in In("institutions") => "card" \notin form.hidden /\ "places" \notin form.hidden
    <3>1. "card" \in Sections /\ "places" \in Sections /\ b \in Inside("card")
          /\ (b \in In("institutions") => b \in Inside("places"))
      BY InsideSpec DEF Sections, Controls
    <3> QED BY <1>8, <3>1
  <2> QED BY <1>3, <1>4, <1>7, <1>8, <2>2, <2>3 DEF IInv, Tidy, Left
<1>10. Told(g)
  <2>1. \A c : c \in g.chips <=>
          (c \in form.chips /\ c \notin told) \/ (c \in on /\ c \in form.live /\ c \in told)
    BY <1>5, <1>7 DEF Ticked
  <2>2. \A c : c \notin told => (c \in on <=> c \in form.on)
    BY <1>3, <1>6
  <2> QED BY <1>7, <2>1, <2>2 DEF IInv, Told, Ticked
<1>11. AtHome(g) /\ OfTheLevel(g) /\ Marked(g, parked)
  BY <1>7 DEF IInv, AtHome, OfTheLevel, Marked
<1> QED BY <1>1, <1>6, <1>9, <1>10, <1>11, Becomes

LEMMA FillStep ==
  ASSUME IInv, NEW c \in Controls, Fill(c)
  PROVE  IInv'
<1> DEFINE on == IF c \in form.on THEN form.on \ {c} ELSE form.on \cup {c}
           g == [form EXCEPT !.on = on]
<1>1. form' = g /\ UNCHANGED parked /\ Usable(c) /\ c \in Others
  BY DEF Fill
<1>2. on \subseteq Controls \ Radios /\ \A d : d # c => (d \in on <=> d \in form.on)
  BY <1>1 DEF IInv, Forms, Controls, Others, Radios
<1> HIDE DEF on
<1>3. /\ g \in Forms /\ g.on = on /\ g.places = form.places /\ g.level = form.level
      /\ g.country = form.country /\ g.openTo = form.openTo /\ g.live = form.live
      /\ g.disabled = form.disabled /\ g.marked = form.marked
      /\ g.hidden = form.hidden /\ g.chips = form.chips /\ g.folded = form.folded
  BY <1>2 DEF IInv, Forms
<1> HIDE DEF g
<1>4. c \notin Boxes
  BY <1>1, BoxesAssumption
<1>5. Tidy(g)
  <2>1. form.hidden \subseteq Sections
    BY DEF IInv, Forms
  <2>2. \A section \in form.hidden : Inside(section) \cap on \subseteq Left(form, section)
    BY <1>1, <1>2, <2>1, UsableSpec DEF IInv, Tidy
  <2> QED BY <1>2, <1>3, <1>4, <2>2 DEF IInv, Tidy, Left
<1>6. Told(g)
  <2>1. form.live \subseteq Boxes
    BY DEF IInv, Forms
  <2> QED BY <1>2, <1>3, <1>4, <2>1 DEF IInv, Told, Ticked
<1>7. AtHome(g) /\ OfTheLevel(g) /\ Marked(g, parked)
  BY <1>3 DEF IInv, AtHome, OfTheLevel, Marked
<1> QED BY <1>1, <1>3, <1>5, <1>6, <1>7, Becomes

LEMMA InvStep ==
  ASSUME IInv, [Next]_vars
  PROVE  IInv'
<1>1. CASE UNCHANGED vars
  BY <1>1, Becomes DEF IInv, vars
<1> QED BY <1>1, ChooseLevelStep, ChooseCountryStep, AnswerOpenToStep, AnswerPlacesStep,
           ToggleStep, FillStep, SearchStep DEF Next

\* The invariant holds in every state that can be reached.
THEOREM Invariance == Spec => []IInv
BY InitInv, InvStep, PTL DEF Spec

-----------------------------------------------------------------------------
(***************************************************************************)
(* The theorems                                                            *)
(***************************************************************************)

\* The form keeps its type, and only boxes are parked.
THEOREM TypeCorrect == Spec => []TypeOK
<1>1. IInv => TypeOK
  BY DEF IInv, Marked, TypeOK
<1> QED BY <1>1, Invariance, PTL

\* A choice nobody can see is never sent, whatever the pickers hold, but for the
\* two controls that PostedIsSeen names.
THEOREM WhatIsPostedIsSeen == Spec => []PostedIsSeen
<1>1. ASSUME IInv
      PROVE  PostedIsSeen
  <2>1. Tidy(form) /\ form.hidden \subseteq Sections
    BY <1>1 DEF IInv, Forms
  <2>2. \A c \in form.on : Seen(form, c) \/ c \in Singles \cup form.folded
    BY <2>1 DEF Tidy, Left, Seen
  <2>3. "open_to" \notin Boxes /\ "institutions_open_to" \notin Boxes
    BY BoxesAssumption DEF Radios
  <2>4. \A picker : "open_to" \notin In(picker) /\ "institutions_open_to" \notin In(picker)
    BY <2>3 DEF In
  <2>5. \A section \in Sections : "open_to" \in Inside(section) => section = "card"
    BY <2>4, InsideSpec DEF Sections, Pickers
  <2>6. \A section \in Sections :
          "institutions_open_to" \in Inside(section) => section \in {"card", "places"}
    BY <2>4, InsideSpec DEF Sections, Pickers
  <2>7. form.openTo # "none" => Seen(form, "open_to")
    BY <2>1, <2>3, <2>5 DEF Tidy, Seen
  <2>8. form.places # "none" => Seen(form, "institutions_open_to")
    BY <2>1, <2>3, <2>6 DEF Tidy, Seen
  <2> QED BY <2>1, <2>2, <2>7, <2>8 DEF Tidy, PostedIsSeen
<1> QED BY <1>1, Invariance, PTL

\* No choice of another level rides along.
THEOREM ChoicesKeepToTheLevel == Spec => []ChoicesFitTheLevel
<1>1. IInv => ChoicesFitTheLevel
  BY DEF IInv, Tidy, OfTheLevel, ChoicesFitTheLevel
<1> QED BY <1>1, Invariance, PTL

\* The chips list what is ticked, whichever script unticked it.
THEOREM ChipsKeepUp == Spec => []ChipsAreTheChoices
<1>1. IInv => ChipsAreTheChoices
  BY DEF IInv, Told, ChipsAreTheChoices
<1> QED BY <1>1, Invariance, PTL

\* The sections for study at home and abroad follow the country, also when the
\* level set it.
THEOREM CountryKeepsItsSections == Spec => []CountryIsFollowed
<1>1. IInv => CountryIsFollowed
  BY DEF IInv, AtHome, CountryIsFollowed
<1> QED BY <1>1, Invariance, PTL

\* What is seen can be used, but for the boxes parked while their card was
\* switched off.
THEOREM NothingSeenIsDead == Spec => []SeenIsUsable
<1>1. ASSUME IInv
      PROVE  SeenIsUsable
  <2>1. form.hidden \subseteq Sections
    BY <1>1 DEF IInv, Forms
  <2> QED BY <1>1, <2>1 DEF IInv, Marked, Seen, SeenIsUsable
<1> QED BY <1>1, Invariance, PTL
=============================================================================
