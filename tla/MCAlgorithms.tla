---------------------------- MODULE MCAlgorithms -----------------------------
EXTENDS Algorithms

MCDisplay  == [width |-> 12, height |-> 8]
MCFirstDay == [year |-> 2024, month |-> 1, day |-> 1]
MCKnown    == {<<"system", "time">>}

View == [x |-> 0, y |-> 0, width |-> 24, height |-> 16]
Month == [x |-> 0, y |-> 0, width |-> 20, height |-> 20, id |-> "c",
          weekStart |-> "monday", spillover |-> TRUE, navigation |-> TRUE]
Module == [x |-> 0, y |-> 0, width |-> 4, height |-> 4, navigation |-> FALSE]
Button == Rectangle(8, 0, 16, 16)

MCFragments == [clock |-> <<[is |-> "start", el |-> Plain("g")], [is |-> "text"], [is |-> "end"]>>,
                bad   |-> <<[is |-> "start", el |-> Plain("script")], [is |-> "end"]>>]

MCElements ==
  { [Plain("svg") EXCEPT !.view = View, !.refresh = 5],
    [Plain("g") EXCEPT !.page = "one"],
    [Plain("g") EXCEPT !.transform = <<-1, 0, 0, 2, 20, 0>>],
    [Plain("text") EXCEPT !.value = MCKnown],
    [Plain("text") EXCEPT !.value = {<<"no", "such">>}],
    [Plain("rect") EXCEPT !.action = "on", !.shape = Button],
    [Plain("circle") EXCEPT !.region = "slot", !.page = "two",
                            !.shape = [cx |-> 8, cy |-> 8, rx |-> 5, ry |-> 5]],
    [Plain("g") EXCEPT !.widget = "calendar", !.id = "c", !.options = Month,
                       !.action = "under", !.hitbox = Rectangle(0, 0, 48, 32)],
    [Plain("g") EXCEPT !.widget = "clock", !.id = "w", !.options = Module],
    [Plain("g") EXCEPT !.widget = "bad", !.id = "b", !.options = Module],
    Plain("style") }

MCBoxes == {Rectangle(x, y, w, h) : x \in {-2, 0, 3}, y \in {1, 4}, w \in {1, 2, 5}, h \in {1, 3}}
MCMatrices == {Identity, <<2, 0, 0, 1, 1, 0>>, <<-1, 0, 0, -1, 9, 7>>, <<0, 1, -1, 0, 5, 0>>, <<1, 0, 1, 1, 0, 0>>}
MCViewBoxes == {[x |-> x, y |-> y, width |-> w, height |-> h] :
                  x \in {0, -1}, y \in {0, 2}, w \in {5, 12, 24}, h \in {3, 8, 13}}

MCInexact(r, m, view) ==
  <<{}, {"left", "top"}, {"width", "height"}, {"left", "height"}>>[1 + ((r.x + r.width + view.width) % 4)]

MCCalendars == {[x |-> x, y |-> y, width |-> w, height |-> h, navigation |-> TRUE, id |-> "c"] :
                  x \in {0, 1, 13}, y \in {0, 3, 40}, w \in {20, 33, 460}, h \in {20, 47, 570}}

MCPictures == UNION {{[width |-> s[1], height |-> s[2], at |-> f] : f \in [Places(s[1], s[2]) -> s[3]]} :
                       s \in {<<1, 2, {0, 66, 128, 253}>>, <<3, 1, {0, 100, 255}>>, <<2, 2, {140, 255}>>}}
MCSettings == [fit : {"contain", "cover", "stretch", "exact"}, background : {"white", "black"},
               rotation : {0, 90, 180, 270}, invert : BOOLEAN, rendering : {"eink", "smooth"}]
MCScreens  == {[width |-> 4, height |-> 2], [width |-> 2, height |-> 3]}
MCSizes    == {[width |-> 4, height |-> 2], [width |-> 2, height |-> 4], [width |-> 4, height |-> 3]}
=============================================================================
