----------------------------- MODULE Algorithms ------------------------------
(***************************************************************************)
(* What the server computes without keeping state, over bounded inputs:    *)
(* calendars day by day, designs token by token, chunks byte by byte, and  *)
(* pictures, frames and regions from small sets.  A state is one input;    *)
(* the properties compare what the code computes with what it is for.      *)
(***************************************************************************)
EXTENDS Compiler, Images, Wire

CONSTANTS
  FirstDay, Days,     \* bound: the days that are "today"
  Elements,           \* the elements a design is made of
  MaxTokens,          \* bound: tokens of a design
  Boxes, Matrices, ViewBoxes,   \* elements to be tapped, and where they stand
  Calendars,          \* options of calendars, for their navigation
  Pictures, Settings, Screens,  \* what is put on which display
  Shades,             \* bytes of frames
  Sizes,              \* sizes of frames
  MaxBytes            \* bound: bytes of an image record

(* A picture of grey levels, and a length the 16-bit fields of a record can *)
(* hold.                                                                    *)
Shaded(pic) ==
  /\ pic.width \in Nat \ {0} /\ pic.height \in Nat \ {0}
  /\ pic.at \in [Places(pic.width, pic.height) -> 0..255]
Sized(n) == n \in Nat /\ n > 0 /\ n <= 65535

(* Elements and view boxes are given in whole numbers, a view box is not    *)
(* empty (the root is rejected otherwise), a day is one of its month.       *)
(* Calendars have navigation, are inside the display and at least twenty    *)
(* pixels wide and high: in smaller ones, whose title would be a pixel      *)
(* high, cutting off the margins loses the arrows.  Frames come from        *)
(* Process, which refuses an odd width, and are of a size that              *)
(* BuildImagePrimitives takes.                                              *)
ASSUME AlgorithmsAssumption ==
  /\ FirstDay.year \in Nat /\ FirstDay.month \in 1..12
  /\ FirstDay.day \in 1..DaysIn(FirstDay.year, FirstDay.month)
  /\ Display.width \in Nat \ {0} /\ Display.height \in Nat \ {0}
  /\ \A r \in Boxes : {r.x, r.y, r.width, r.height} \subseteq Int
  /\ \A m \in Matrices : m \in [1..6 -> Int]
  /\ \A v \in ViewBoxes : v.x \in Int /\ v.y \in Int /\ v.width \in Nat \ {0} /\ v.height \in Nat \ {0}
  /\ \A c \in Calendars : /\ c.navigation = TRUE
                          /\ c.x \in Nat /\ c.width \in Nat /\ c.width >= 20
                          /\ c.y \in Nat /\ c.height \in Nat /\ c.height >= 20
  /\ \A p \in Pictures : Shaded(p)
  /\ \A d \in Screens : d.width \in Nat /\ d.height \in Nat
  /\ \A z \in Sizes : Sized(z.width) /\ Sized(z.height) /\ z.width % 2 = 0

VARIABLE input

Is(kind) == input.kind = kind

Init == input = [kind |-> "none"]
-----------------------------------------------------------------------------
(* Inputs. *)

FirstDate == Is("none") /\ input' = [kind |-> "day", date |-> FirstDay, left |-> Days]

NextDay ==
  /\ Is("day") /\ input.left > 0
  /\ LET d == input.date
         after == MonthsFrom(d, 1) IN
     input' = [input EXCEPT !.left = @ - 1,
                 !.date = IF d.day < DaysIn(d.year, d.month) THEN [d EXCEPT !.day = @ + 1]
                          ELSE [year |-> after.year, month |-> after.month, day |-> 1]]

(* A design and, beside it, the same design without its later pages: an     *)
(* element belongs to one if it is inside, or is, another than the first    *)
(* element with data-page.  "path" has the page number of every open        *)
(* element, 0 for an element that is none.                                  *)
Document ==
  /\ Is("none")
  /\ input' = [kind |-> "svg", full |-> Blank, alone |-> Blank, path |-> <<>>, pages |-> 0, left |-> MaxTokens]

Later(path) == \E i \in DOMAIN path : path[i] > 1

Token == Is("svg") /\ input.left > 0 /\ ~input.full.error

ReadStart ==
  /\ Token /\ (input.full.seen => input.path # <<>>)
  /\ \E el \in Elements :
       LET pages == input.pages + (IF el.page = None THEN 0 ELSE 1)
           path  == Append(input.path, IF el.page = None THEN 0 ELSE pages) IN
       input' = [input EXCEPT !.full = StartElement(@, el),
                              !.alone = IF Later(path) THEN @ ELSE StartElement(@, el),
                              !.path = path, !.pages = pages, !.left = @ - 1]

ReadEnd ==
  /\ Token /\ input.path # <<>>
  /\ input' = [input EXCEPT !.full = EndElement(@),
                            !.alone = IF Later(input.path) THEN @ ELSE EndElement(@),
                            !.path = Front(@), !.left = @ - 1]

ReadText ==
  /\ Token /\ input.path # <<>>
  /\ \E links \in {{}, {"http"}} :
       input' = [input EXCEPT !.full = CharData(@, links),
                              !.alone = IF Later(input.path) THEN @ ELSE CharData(@, links),
                              !.left = @ - 1]

PlaceBox ==
  /\ Is("none")
  /\ \E r \in Boxes, m \in Matrices, v \in ViewBoxes :
       input' = [kind |-> "box", rect |-> r, matrix |-> m, view |-> v]

PlaceCalendar ==
  /\ Is("none")
  /\ \E c \in Calendars, k \in -12..12 : input' = [kind |-> "calendar", options |-> c, offset |-> k]

ShowPicture ==
  /\ Is("none")
  /\ \E p \in Pictures, s \in Settings, d \in Screens :
       input' = [kind |-> "picture", picture |-> p, settings |-> s, screen |-> d]

SendFrame ==
  /\ Is("none")
  /\ \E size, before \in Sizes :
       LET Bytes(z) == [0..((z.width \div 2) * z.height - 1) -> Shades] IN
       \E now \in Bytes(size), last \in Bytes(before) :
         input' = [kind |-> "frame", size |-> size, now |-> now, before |-> before, last |-> last]

FirstRecord == Is("none") /\ input' = [kind |-> "record", bytes |-> 1]
LongerRecord ==
  /\ Is("record") /\ input.bytes < MaxBytes
  /\ input' = [input EXCEPT !.bytes = @ + 1]

(* A session hands out numbers and sees those of the tablet's statuses.     *)
(* "last" is the number before, "seen" the greatest status since.           *)
Connect == Is("none") /\ input' = [kind |-> "session", next |-> 0, last |-> 0, seen |-> 0]
HandOut ==
  /\ Is("session")
  /\ LET s == Sequence(input.next) IN
     input' = [input EXCEPT !.next = s.next, !.last = s.sequence, !.seen = 0]
Observe ==
  /\ Is("session")
  /\ \E n \in 0..LastSequence :
       input' = [input EXCEPT !.next = Advanced(@, n), !.seen = Larger(@, n)]

Next ==
  \/ FirstDate \/ NextDay
  \/ Document \/ ReadStart \/ ReadEnd \/ ReadText
  \/ PlaceBox \/ PlaceCalendar \/ ShowPicture \/ SendFrame
  \/ FirstRecord \/ LongerRecord
  \/ Connect \/ HandOut \/ Observe

Spec == Init /\ [][Next]_input
-----------------------------------------------------------------------------
(* Calendar. *)

Index(date) == 12 * date.year + date.month

(* Navigation reaches every month of the twelve before and after, except    *)
(* those too short to have today's day: AddDate runs over into the month    *)
(* after, which is then shown twice.                                        *)
MonthsReached(today, options) ==
  LET now == Index(today)
      shown == {Index(Shown(options, today, k)) : k \in -12..12}
      Short(i) == DaysIn((i - 1) \div 12, ((i - 1) % 12) + 1) < today.day IN
  \A i \in (now - 12)..(now + 12) : i \notin shown <=> Short(i)

(* Every day of the month on display stands in the grid once, cells that    *)
(* follow each other hold days that do, each under the name of its weekday, *)
(* and today is marked if it is in the grid at all.                         *)
GridComplete(today, options, offset) ==
  LET month == Shown(options, today, offset)
      cells == Cells(options, today, offset)
      first == Number([month EXCEPT !.day = 1]) IN
  /\ {cells[c].day : c \in {d \in DOMAIN cells : ~cells[d].outside}}
       = first..(first + DaysIn(month.year, month.month) - 1)
  /\ options.spillover => DOMAIN cells = 0..41
  /\ \A c \in DOMAIN cells :
       /\ Weekday(cells[c].day) = (Header(options, c % 7) + 1) % 7
       /\ cells[c].today <=> cells[c].day = Number(today)
       /\ c + 1 \in DOMAIN cells => cells[c + 1].day = cells[c].day + 1

Grids == {[width |-> 70, height |-> 60, navigation |-> TRUE, weekStart |-> w, spillover |-> s] :
            w \in {"monday", "sunday"}, s \in BOOLEAN}

(* The calendar shows the month that was asked for, complete and under the  *)
(* right weekdays, whatever today is (calendar.go emitCalendar); from the   *)
(* 29th on it leaves out months that are too short.                         *)
CalendarShown ==
  Is("day") =>
    \A options \in Grids :
      /\ MonthsReached(input.date, options)
      /\ \A k \in -12..12 : GridComplete(input.date, options, k)

(* A tap on an arrow of a calendar inside the display moves in the arrow's  *)
(* direction although the regions overlap at the margins, a tap on the      *)
(* title goes back to today, and there is no arrow at the twelfth month.    *)
ArrowsHit ==
  Is("calendar") =>
    LET regions == NavigationRegions(input.options, input.offset)
        actions == [i \in DOMAIN regions |->
                      LET r == regions[i] IN
                      [x |-> r.x, y |-> r.y, width |-> r.width, height |-> r.height,
                       event |-> r.event, order |-> i]]
        o == input.options
        title == [x |-> o.x + o.width \div 2, y |-> o.y + (8 * o.height) \div 100]
        Answers(p, event) ==
          \E i \in DOMAIN actions : /\ Inside(p, actions[i]) /\ Hit(actions, p) = actions[i]
                                    /\ actions[i].event = event IN
    /\ Answers(title, "today")
    /\ Answers(Arrow(o, "previous"), "previous") <=> input.offset > -12
    /\ Answers(Arrow(o, "next"), "next") <=> input.offset < 12
-----------------------------------------------------------------------------
(* Designs. *)

(* Later pages are not displayed and cannot be tapped (svg-designs.md): a   *)
(* design is drawn, and its regions placed and numbered, as if they were    *)
(* not there; they only add values it is rendered again for.                *)
FirstPageOnly ==
  Is("svg") /\ ~input.full.error =>
    LET f == input.full
        a == input.alone IN
    /\ ~a.error /\ a.drawn = f.drawn
    /\ a.actions = f.actions /\ a.regions = f.regions /\ a.page = f.page
    /\ a.deps \subseteq f.deps

(* What is drawn is tracked: each value in the drawing is a dependency of   *)
(* the frame, or the hash that suppresses unchanged frames would miss it,   *)
(* and a calendar that was moved is drawn every minute until it is back.    *)
DrawnTracked ==
  Is("svg") /\ ~input.full.error =>
    LET s == input.full IN
    /\ \A i \in DOMAIN s.drawn : s.drawn[i].is = "start" =>
         LET el == s.drawn[i].el IN
         /\ el.value # None => el.value \subseteq s.deps
         /\ el.widget = "calendar" => <<"system", "date">> \in s.deps
         /\ el.widget \notin {None, "calendar"} => <<"system", "time">> \in s.deps
    /\ \A i \in DOMAIN s.actions : s.actions[i].recipient = "widget" =>
         MonthKey(s.actions[i].id) \in s.deps /\ s.refresh = 1

Pixels == [x : 0..(Display.width - 1), y : 0..(Display.height - 1)]

(* Where regions overlap the later element of the document wins             *)
(* (svg-designs.md), regions of a calendar over its own element's included, *)
(* after Touch has sorted them by the numbers of the compiler.              *)
TopmostHit ==
  Is("svg") /\ ~input.full.error =>
    LET actions == input.full.actions IN
    actions # <<>> =>
      \A p \in Pixels :
        LET hits == {i \in DOMAIN actions : Inside(p, actions[i])} IN
        Hit(actions, p) = IF hits = {} THEN None ELSE actions[Most(hits)]

(* The region of an element holds every pixel that lies wholly inside the   *)
(* transformed element and none that lies wholly outside, although corner   *)
(* and size are rounded one by one and in float64 (compiler.go              *)
(* transformRect).  Pixels that touch the element's edge are open: where its *)
(* corner falls on the grid of pixels the one before it may be gained and   *)
(* the last one inside be lost, and where its size is a whole number of     *)
(* pixels the one after it may be gained.                                   *)
HitCovers ==
  Is("box") =>
    LET k == Scale(input.view)
        corners == Corners(input.rect, input.matrix)
        region == TransformRect(input.rect, input.matrix, input.view)
        X(x) == 2 * x * k.num + Margin(Display.width, input.view.x, input.view.width, k)
        Y(y) == 2 * y * k.num + Margin(Display.height, input.view.y, input.view.height, k)
        xs == {X(c.x) : c \in corners}
        ys == {Y(c.y) : c \in corners}
        Scaled(n) == 2 * n * k.den
        Slack(n) == IF n % (2 * k.den) = 0 THEN 1 ELSE 0 IN
    \A p \in Pixels :
      /\ /\ Scaled(p.x) >= Least(xs) /\ Scaled(p.x + 1) + Slack(Least(xs)) <= Most(xs)
         /\ Scaled(p.y) >= Least(ys) /\ Scaled(p.y + 1) + Slack(Least(ys)) <= Most(ys)
         => Inside(p, region)
      /\ Inside(p, region) =>
           /\ Scaled(p.x + 1) + Slack(Least(xs)) > Least(xs)
           /\ Scaled(p.x) < Most(xs) + Slack(Most(xs) - Least(xs))
           /\ Scaled(p.y + 1) + Slack(Least(ys)) > Least(ys)
           /\ Scaled(p.y) < Most(ys) + Slack(Most(ys) - Least(ys))
-----------------------------------------------------------------------------
(* Pictures and frames. *)

(* A picture is contained whole and centred, or covers the display without  *)
(* a margin, as its settings say; of two places the darker one is never     *)
(* shown lighter; and on a panel of sixteen levels a picture of several     *)
(* levels uses the darkest and the lightest.                                *)
PictureKept ==
  Is("picture") /\ Accepted(input.picture, input.screen.width, input.screen.height, input.settings) =>
    LET w == input.screen.width
        h == input.screen.height
        turned == Rotate(input.picture, input.settings.rotation)
        to == Fit(input.settings.fit, turned, w, h)
        before == Placement(turned, w, h, input.settings).at
        after == Process(input.picture, w, h, input.settings).at
        Centred(start, length, whole) == whole - length - 2 * start \in {-1, 0, 1} IN
    /\ Centred(to.x, to.width, w) /\ Centred(to.y, to.height, h)
    /\ input.settings.fit = "contain" => to.width <= w /\ to.height <= h
    /\ input.settings.fit = "cover" => to.width >= w /\ to.height >= h
    /\ \A p, q \in Places(w, h) :
         /\ after[p] \in 0..15
         /\ before[p] <= before[q] => after[p] <= after[q]
         /\ input.settings.rendering = "eink" /\ after[p] # after[q]
              => {0, 15} \subseteq {after[r] : r \in Places(w, h)}

(* A tap is reported in the panel's coordinates, the frame is sent upside   *)
(* down: the pixel under the tap is the one of the picture at the physical  *)
(* coordinates that regions are compared with; one outside is refused.      *)
TapSeesPixel ==
  Is("frame") =>
    LET w == input.size.width
        h == input.size.height
        picture == Picture(w, h, LAMBDA x, y : y * w + x)
        sent == RotatePacked180(Pack(picture), (w * h) \div 2) IN
    \A p \in Places(w + 1, h + 1) :
      LET at == PhysicalCoordinates([x |-> p[1], y |-> p[2]], w, h) IN
      /\ at.refused <=> p \notin Places(w, h)
      /\ ~at.refused => /\ <<at.x, at.y>> \in Places(w, h)
                        /\ Unpacked(sent, w, p[1], p[2]) = picture.at[<<at.x, at.y>>]

(* A changed rectangle painted over the frame before gives the new frame,   *)
(* and is one the record builder accepts; a frame of another size is sent   *)
(* whole.                                                                   *)
PartialPaints ==
  Is("frame") =>
    LET p == Changed(input.now, input.last, input.size, input.before)
        row == input.size.width \div 2
        base == IF input.before = input.size THEN input.last
                ELSE [i \in DOMAIN input.now |-> None] IN
    Buildable(p) /\ Painted(base, p, row) = input.now

(* The chunks of a record hold its bytes in order, none empty and none over *)
(* 4800, the last one naming itself; the block written when compression     *)
(* fails is read back by an LZ4 decoder as exactly the chunk's bytes.       *)
ChunksReassemble ==
  Is("record") =>
    \A packed \in {0, 1} :
      LET chunks == Chunks(input.bytes, packed)
          Before(i) == (i - 1) * ChunkSize IN
      /\ chunks[Len(chunks)].index = chunks[Len(chunks)].final
      /\ \A i \in DOMAIN chunks :
           LET c == chunks[i] IN
           /\ c.index = i - 1 /\ c.raw \in 1..ChunkSize
           /\ i < Len(chunks) => Before(i) + c.raw = Before(i + 1)
           /\ i = Len(chunks) => Before(i) + c.raw = input.bytes
           /\ packed = 0 =>
                LET d == DecodedLength(c.literals) IN
                d.literals = c.raw /\ d.bytes + d.literals = c.bytes

(* The number of an image record is never 0; it is greater than that of the *)
(* image before and those of the tablet's statuses since, by which an       *)
(* acknowledgement is told from an old one, until the numbers wrap or the   *)
(* tablet reports the greatest one.                                         *)
SequencesFresh ==
  Is("session") =>
    LET n == Sequence(input.next).sequence IN
    /\ n \in 1..LastSequence
    /\ input.last = LastSequence \/ input.seen = LastSequence \/ (n > input.last /\ n > input.seen)
=============================================================================
