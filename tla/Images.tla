------------------------------- MODULE Images --------------------------------
(***************************************************************************)
(* Image processing (internal/imageproc/image.go): a picture of grey       *)
(* levels 0 to 255 is turned, placed on the display, resampled, stretched  *)
(* to the panel's sixteen levels and packed two pixels to a byte.          *)
(* Arithmetic is exact where the code uses float64; a picture is grey      *)
(* already; dithering is left out.                                         *)
(*                                                                         *)
(* A picture is [width, height, at], "at" a function of <<x, y>> from 0.   *)
(***************************************************************************)
EXTENDS Integers

Places(w, h) == (0..(w - 1)) \X (0..(h - 1))
Picture(w, h, At(_, _)) ==
  [width |-> w, height |-> h, at |-> [p \in Places(w, h) |-> At(p[1], p[2])]]

Rounded(n, d) == (2 * n + d) \div (2 * d)              \* math.Round(n / d), n >= 0
Halved(n) == IF n >= 0 THEN n \div 2 ELSE -((-n) \div 2)  \* int division by 2
AtLeast1(n) == IF n = 0 THEN 1 ELSE n
Bound(n, low, high) == IF n < low THEN low ELSE IF n > high THEN high ELSE n

Valid(settings) ==
  /\ settings.fit \in {"contain", "cover", "stretch", "exact"}
  /\ settings.background \in {"white", "black"}
  /\ settings.rotation \in {0, 90, 180, 270}
  /\ settings.rendering \in {"eink", "smooth"}

Rotate(pic, degrees) ==
  LET w == pic.width
      h == pic.height IN
  CASE degrees = 0   -> pic
    [] degrees = 180 -> Picture(w, h, LAMBDA x, y : pic.at[<<w - 1 - x, h - 1 - y>>])
    [] degrees = 90  -> Picture(h, w, LAMBDA x, y : pic.at[<<y, h - 1 - x>>])
    [] degrees = 270 -> Picture(h, w, LAMBDA x, y : pic.at[<<w - 1 - y, x>>])

ByWidthAlways(fit, pic, width, height) == TRUE   \* mutant: one scale for all

(* Whether the scale is that of the widths: the smaller scale for "contain",*)
(* the larger one for "cover".                                              *)
ByWidth(fit, pic, width, height) ==
  (fit = "contain") = (width * pic.height <= height * pic.width)

(* The rectangle the whole picture is drawn to. *)
Fit(fit, pic, width, height) ==
  LET scaled == fit \in {"contain", "cover"}
      byWidth == ByWidth(fit, pic, width, height)
      dw == IF scaled /\ ~byWidth THEN AtLeast1(Rounded(pic.width * height, pic.height)) ELSE width
      dh == IF scaled /\ byWidth THEN AtLeast1(Rounded(pic.height * width, pic.width)) ELSE height IN
  [x |-> Halved(width - dw), y |-> Halved(height - dh), width |-> dw, height |-> dh]

(* sampleGray: between the four pixels around a point, those beyond the     *)
(* edge being the pixels at the edge.  dx of dw is a place in the target.   *)
Sample(pic, dx, dw, dy, dh) ==
  LET nx == (2 * dx + 1) * pic.width - dw     \* the point is nx / 2dw, ny / 2dh
      ny == (2 * dy + 1) * pic.height - dh
      x0 == nx \div (2 * dw)
      y0 == ny \div (2 * dh)
      fx == nx % (2 * dw)
      fy == ny % (2 * dh)
      Get(x, y) == pic.at[<<Bound(x, 0, pic.width - 1), Bound(y, 0, pic.height - 1)>>]
      Row(y) == Get(x0, y) * (2 * dw - fx) + Get(x0 + 1, y) * fx IN
  Rounded(Row(y0) * (2 * dh - fy) + Row(y0 + 1) * fy, 4 * dw * dh)

(* resample over the background, and the inversion. *)
Placement(pic, width, height, settings) ==
  LET to  == Fit(settings.fit, pic, width, height)
      bg  == IF settings.background = "white" THEN 255 ELSE 0
      In(x, y) == x - to.x \in 0..(to.width - 1) /\ y - to.y \in 0..(to.height - 1)
      Grey(x, y) == IF In(x, y) THEN Sample(pic, x - to.x, to.width, y - to.y, to.height) ELSE bg IN
  Picture(width, height, LAMBDA x, y : IF settings.invert THEN 255 - Grey(x, y) ELSE Grey(x, y))

(* vssBeautify's first half.  The float 1.1 is a little more than 11/10:    *)
(* multiples of 11 fall short.                                              *)
Level(grey) == IF grey = 0 THEN 0 ELSE Rounded((10 * grey - 1) \div 11, 17)

(* The levels that occur, or all of them if only one does. *)
LevelRange(levels) ==
  LET lo == CHOOSE n \in levels : \A k \in levels : n <= k
      hi == CHOOSE n \in levels : \A k \in levels : k <= n IN
  IF lo = hi THEN [low |-> 0, span |-> 15] ELSE [low |-> lo, span |-> hi - lo]

(* vssBeautify: the levels are stretched over the whole range. *)
Beautify(pic) ==
  LET range == LevelRange({Level(pic.at[p]) : p \in DOMAIN pic.at}) IN
  [pic EXCEPT !.at = [p \in DOMAIN @ |-> Rounded((Level(@[p]) - range.low) * 255, range.span)]]

Quantize(pic) == [pic EXCEPT !.at = [p \in DOMAIN @ |-> Rounded(@[p], 17) * 17]]

(* Process: the levels 0 to 15 of the display, or a refusal. *)
Accepted(pic, width, height, settings) ==
  LET turned == Rotate(pic, settings.rotation) IN
  /\ Valid(settings)
  /\ width > 0 /\ height > 0 /\ width % 2 = 0
  /\ settings.fit = "exact" => turned.width = width /\ turned.height = height

Process(pic, width, height, settings) ==
  LET placed == Placement(Rotate(pic, settings.rotation), width, height, settings)
      grey   == Quantize(IF settings.rendering = "eink" THEN Beautify(placed) ELSE placed) IN
  [grey EXCEPT !.at = [p \in DOMAIN @ |-> @[p] \div 17]]
-----------------------------------------------------------------------------
(* Packing: byte i from 0 holds two levels, the left one in the low nibble. *)

Pack(pic) ==
  [i \in 0..((pic.width * pic.height) \div 2 - 1) |->
     LET x == (2 * i) % pic.width
         y == (2 * i) \div pic.width IN
     [low |-> pic.at[<<x, y>>], high |-> pic.at[<<x + 1, y>>]]]

RotateBytesOnly(bytes, n) ==        \* mutant: the nibbles are not swapped
  [i \in 0..(n - 1) |-> bytes[n - 1 - i]]

(* RotatePacked180 of n bytes. *)
RotatePacked180(bytes, n) ==
  [i \in 0..(n - 1) |-> [low |-> bytes[n - 1 - i].high, high |-> bytes[n - 1 - i].low]]

(* What the panel shows at a place of a packed frame of that width. *)
Unpacked(bytes, width, x, y) ==
  LET b == bytes[(y * width + x) \div 2] IN IF x % 2 = 0 THEN b.low ELSE b.high
=============================================================================
