------------------------------ MODULE Compiler -------------------------------
(***************************************************************************)
(* The SVG compiler (internal/design/compiler.go): one pass over the       *)
(* tokens of a design that checks them, writes the SVG that is drawn,      *)
(* collects the values it depends on and places the regions that can be    *)
(* tapped; and Service.Touch's choice among them.  XML decoding, fonts and *)
(* rasterising are left out; lengths are whole numbers of halves.  Scaling  *)
(* is modelled by exact fractions and what float64 can do to them.         *)
(*                                                                         *)
(* A token is a start (an element), an end or text.  Elements are records; *)
(* "links" are the kinds of reference in its attributes, of which an event *)
(* attribute is one that is never allowed.                                 *)
(***************************************************************************)
EXTENDS Calendar, FiniteSets, SequencesExt

CONSTANTS
  None,       \* an attribute that is not there
  Display,    \* width and height of the tablet
  Today,      \* system.date
  Offset,     \* the month offset stored for every calendar
  Known,      \* the values there are
  Fragments,  \* what each registered widget module returns: tokens
  Inexact(_, _, _)  \* the sides of a scaled rectangle that float64 gets wrong

(* An element without data-widget is not a calendar. *)
ASSUME CompilerAssumption ==
  /\ None # "calendar"
  /\ \A w \in DOMAIN Fragments : Fragments[w] \in Seq(Range(Fragments[w]))

Forbidden  == {"script", "foreignobject", "animate", "animatemotion", "animatetransform",
               "set", "video", "audio", "iframe"}
LocalLinks == {"fragment", "data-image", "data-font"}
Identity   == <<1, 0, 0, 1, 0, 0>>

(* An element without any attribute this module knows. *)
Plain(name) ==
  [name |-> name, id |-> None, view |-> None, refresh |-> None, page |-> None,
   transform |-> Identity, links |-> {}, value |-> None, widget |-> None,
   options |-> None, action |-> None, region |-> None, hitbox |-> None, shape |-> None]
-----------------------------------------------------------------------------
(* Geometry. *)

Mul(m, n) ==
  << m[1] * n[1] + m[3] * n[2], m[2] * n[1] + m[4] * n[2],
     m[1] * n[3] + m[3] * n[4], m[2] * n[3] + m[4] * n[4],
     m[1] * n[5] + m[3] * n[6] + m[5], m[2] * n[5] + m[4] * n[6] + m[6] >>
Point(m, x, y) == [x |-> m[1] * x + m[3] * y + m[5], y |-> m[2] * x + m[4] * y + m[6]]

Rectangle(x, y, w, h) == [x |-> x, y |-> y, width |-> w, height |-> h]

(* elementRect: attributes are given in halves and cut off. *)
ElementRect(el) ==
  LET Halves(x, y, w, h) == Rectangle(Trunc(x, 2), Trunc(y, 2), Trunc(w, 2), Trunc(h, 2))
      s == el.shape IN
  IF el.hitbox # None
  THEN IF el.hitbox.width <= 0 \/ el.hitbox.height <= 0 THEN None
       ELSE Halves(el.hitbox.x, el.hitbox.y, el.hitbox.width, el.hitbox.height)
  ELSE IF el.name \in {"rect", "image"} THEN Halves(s.x, s.y, s.width, s.height)
  ELSE IF el.name \in {"circle", "ellipse"}
  THEN Halves(s.cx - s.rx, s.cy - s.ry, 2 * s.rx, 2 * s.ry)
  ELSE None

(* The view box fills the display as far as its proportions allow: the      *)
(* scale is a fraction.                                                     *)
Scale(view) ==
  IF Display.width * view.height <= Display.height * view.width
  THEN [num |-> Display.width, den |-> view.width]
  ELSE [num |-> Display.height, den |-> view.height]

(* The corners of a rectangle after m. *)
Corners(r, m) == {Point(m, x, y) : x \in {r.x, r.x + r.width}, y \in {r.y, r.y + r.height}}
Least(S) == CHOOSE n \in S : \A k \in S : n <= k
Most(S)  == CHOOSE n \in S : \A k \in S : n >= k
CeilingFloored(n, d) == n \div d      \* mutant: rounded down
Ceiling(n, d) == -((-n) \div d)

(* Twice the denominator of the scale times the offset of the view box.     *)
Margin(length, start, extent, k) == length * k.den - (extent + 2 * start) * k.num

(* math.Floor and math.Ceil are given the product of a float64 scale.  Where *)
(* the exact fraction is a whole number the product may lie just below or   *)
(* just above it, and the result is one too small or one too large: with a  *)
(* display of 1100 and a view box of 1000, 50 becomes 55.00000000000001 and *)
(* then 56.  A fraction that is not whole is too far from one for that, with*)
(* designs and displays of less than a hundred thousand units.  Which sides *)
(* of which rectangle go wrong is left open.                                *)
Slip(n, d, wrong) == IF wrong /\ n % d = 0 THEN 1 ELSE 0

TransformRect(r, m, view) ==
  LET xs == {p.x : p \in Corners(r, m)}   ys == {p.y : p \in Corners(r, m)}
      k == Scale(view)
      Wrong(side) == side \in Inexact(r, m, view)
      Floor(n, d, side)   == n \div d - Slip(n, d, Wrong(side))
      Roundup(n, d, side) == Ceiling(n, d) + Slip(n, d, Wrong(side)) IN
  Rectangle(Floor(2 * Least(xs) * k.num + Margin(Display.width, view.x, view.width, k), 2 * k.den, "left"),
            Floor(2 * Least(ys) * k.num + Margin(Display.height, view.y, view.height, k), 2 * k.den, "top"),
            Roundup((Most(xs) - Least(xs)) * k.num, k.den, "width"),
            Roundup((Most(ys) - Least(ys)) * k.num, k.den, "height"))

Inside(p, r) == /\ p.x >= r.x /\ p.x < r.x + r.width
                /\ p.y >= r.y /\ p.y < r.y + r.height

(* Service.Touch: sorted by falling order, stably, the first that is hit.   *)
Hit(actions, p) ==
  LET hits == {i \in DOMAIN actions : Inside(p, actions[i])} IN
  IF hits = {} THEN None
  ELSE actions[CHOOSE i \in hits : \A j \in hits :
                 \/ actions[i].order > actions[j].order
                 \/ actions[i].order = actions[j].order /\ i <= j]
-----------------------------------------------------------------------------
(* The state of the loop. *)

Blank ==
  [stack |-> <<[matrix |-> Identity, skip |-> FALSE, dynamic |-> FALSE, name |-> None]>>,
   seen |-> FALSE, view |-> None, refresh |-> 0, page |-> None, ids |-> {}, deps |-> {},
   order |-> 0, actions |-> <<>>, regions |-> <<>>, widgets |-> <<>>, drawn |-> <<>>, error |-> FALSE]

Top(s) == Last(s.stack)

HiddenPage(s, el) == el.page # None /\ s.page # None

(* Later pages are skipped with all they contain. *)
Child(s, el) ==
  [matrix  |-> Mul(Top(s).matrix, el.transform),
   skip    |-> Top(s).skip \/ HiddenPage(s, el),
   dynamic |-> el.value # None \/ el.widget # None,
   name    |-> el.name]

(* encodeWidgetFragment: one g, and nothing that acts. *)
FragmentAccepted(f) ==
  LET Starts(i) == {j \in 1..(i - 1) : f[j].is = "start"}
      Ends(i)   == {j \in 1..(i - 1) : f[j].is = "end"}
      starts    == Starts(Len(f) + 1)
      roots     == {i \in starts : Cardinality(Starts(i)) = Cardinality(Ends(i))} IN
  /\ Cardinality(roots) = 1
  /\ \A i \in roots : f[i].el.name = "g"
  /\ \A i \in starts : LET el == f[i].el IN
       /\ el.name \notin Forbidden /\ el.links \subseteq LocalLinks
       /\ el.widget = None /\ el.action = None /\ el.region = None

Navigated(el) == el.widget = "calendar" /\ el.options.navigation

WidgetRejected(s, el) ==
  \/ el.name # "g"
  \/ el.widget \notin {"calendar", "departures"} \cup DOMAIN Fragments
  \/ el.id = None /\ (el.widget # "calendar" \/ el.options.navigation)
  \/ el.id # None /\ el.id \in s.ids
  \/ el.options.width <= 0 \/ el.options.height <= 0

RootRejected(el) ==
  \/ el.name # "svg" \/ el.view = None \/ el.view.width <= 0 \/ el.view.height <= 0
  \/ el.refresh # None /\ el.refresh \notin 1..(24 * 60)

Tappable(el) == el.action # None \/ el.region # None

(* Hidden pages are checked like the first, except for what they would draw. *)
Rejected(s, el) ==
  \/ el.name \in Forbidden \/ ~(el.links \subseteq LocalLinks)
  \/ Top(s).dynamic
  \/ ~s.seen /\ RootRejected(el)
  \/ el.transform = None
  \/ el.value # None /\ (el.name # "text" \/ ~(el.value \subseteq Known))
  \/ el.widget # None /\ WidgetRejected(s, el)
  \/ /\ ~(Top(s).skip \/ HiddenPage(s, el))
     /\ \/ Tappable(el) /\ ElementRect(el) = None
        \/ el.widget = "calendar" /\ Invalid(el.options, Offset)
        \/ /\ el.widget \notin {None, "calendar"}
           /\ el.widget \notin DOMAIN Fragments \/ ~FragmentAccepted(Fragments[el.widget])
-----------------------------------------------------------------------------
(* An element that is accepted: the parts of the loop's body in their order. *)

Rooted(s, el) ==
  IF s.seen THEN s
  ELSE [s EXCEPT !.seen = TRUE, !.view = el.view,
                 !.refresh = IF el.refresh = None THEN 0 ELSE el.refresh]

Paged(s, el) ==
  IF el.page # None /\ s.page = None THEN [s EXCEPT !.page = el.page] ELSE s

MonthKey(id) == <<"widget", id, "month_offset">>

KeysOfTextOnly(el) == IF el.value = None THEN {} ELSE el.value   \* mutant: no widgets

(* The values an element is drawn from. *)
DependsOn(el) ==
  (IF el.value = None THEN {} ELSE el.value)
  \cup (IF Navigated(el) THEN {MonthKey(el.id)} ELSE {})
  \cup (CASE el.widget = None -> {}
          [] el.widget = "calendar" -> {<<"system", "date">>, <<"system", "locale">>}
          [] OTHER -> {<<"system", "time">>})

(* A calendar that can be moved is drawn every minute, so that it moves back. *)
Tracked(s, el) ==
  [s EXCEPT !.deps = @ \cup DependsOn(el),
            !.ids = IF el.widget # None /\ el.id # None THEN @ \cup {el.id} ELSE @,
            !.widgets = IF el.widget = None THEN @ ELSE Append(@, el),
            !.refresh = IF Navigated(el) /\ (@ = 0 \/ @ > 1) THEN 1 ELSE @]

Placed(s, child, rect, order, recipient, id, target) ==
  LET r == TransformRect(rect, child.matrix, s.view) IN
  [x |-> r.x, y |-> r.y, width |-> r.width, height |-> r.height,
   recipient |-> recipient, id |-> id, target |-> target, order |-> order]

(* A region of the element's own. *)
Tapped(s, el, child) ==
  IF ~Tappable(el) THEN s
  ELSE LET r == Placed(s, child, ElementRect(el), s.order, "webhook", el.id, el.action) IN
       [s EXCEPT !.order = @ + 1,
                 !.actions = IF el.action = None THEN @ ELSE Append(@, r),
                 !.regions = IF el.region = None THEN @ ELSE Append(@, r)]

NavigatedUnnumbered(s, el, child) ==  \* mutant: the regions share one number
  LET months == NavigationRegions(el.options, Offset)
      Region(i) == Placed(s, child, months[i], s.order, "widget", el.id, months[i].event) IN
  IF el.widget # "calendar" THEN s
  ELSE [s EXCEPT !.order = @ + Len(months),
                 !.actions = @ \o [i \in DOMAIN months |-> Region(i)]]

(* The regions of a calendar, over its own. *)
Navigation(s, el, child) ==
  LET months == NavigationRegions(el.options, Offset)
      Region(i) == Placed(s, child, months[i], s.order + i - 1, "widget", el.id, months[i].event) IN
  IF el.widget # "calendar" THEN s
  ELSE [s EXCEPT !.order = @ + Len(months),
                 !.actions = @ \o [i \in DOMAIN months |-> Region(i)]]

Opened(el) == [is |-> "start", el |-> el]
Closed == [is |-> "end"]
Chars  == [is |-> "text"]

(* A fragment is written without its data attributes; of its elements the   *)
(* name is kept.                                                            *)
Stripped(f) == [i \in DOMAIN f |-> IF f[i].is = "start" THEN Opened(Plain(f[i].el.name)) ELSE f[i]]

(* What is written for an element, and inside one that is dynamic. *)
Drawn(s, el) ==
  [s EXCEPT !.drawn = @ \o <<Opened(el)>> \o
     (CASE el.value # None /\ el.widget = None -> <<Chars>>
        [] el.widget = "calendar" -> <<[is |-> "month", cells |-> Cells(el.options, Today, Offset)]>>
        [] el.widget \notin {None, "calendar"} ->
             <<Opened(Plain("svg"))>> \o Stripped(Fragments[el.widget]) \o <<Closed>>
        [] OTHER -> <<>>)]

PushedOpen(s, child) == [s EXCEPT !.stack = Append(@, [child EXCEPT !.skip = FALSE])]   \* mutant
Pushed(s, child) == [s EXCEPT !.stack = Append(@, child)]

StartElement(s, el) ==
  IF Rejected(s, el) THEN [s EXCEPT !.error = TRUE]
  ELSE LET child == Child(s, el)
           noted == Pushed(Tracked(Paged(Rooted(s, el), el), el), child) IN
       IF child.skip THEN noted
       ELSE Navigation(Drawn(Tapped(noted, el, child), el), el, child)

EndElement(s) ==
  [s EXCEPT !.stack = Front(@), !.drawn = IF Top(s).skip THEN @ ELSE Append(@, Closed)]

(* Text of the design; inside a dynamic element it is dropped. *)
CharData(s, links) ==
  IF Top(s).name = "style" /\ ~(links \subseteq LocalLinks) THEN [s EXCEPT !.error = TRUE]
  ELSE IF Top(s).skip \/ Top(s).dynamic THEN s
  ELSE [s EXCEPT !.drawn = Append(@, Chars)]
=============================================================================
