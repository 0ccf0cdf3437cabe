------------------------------- MODULE Screen -------------------------------
(***************************************************************************)
(* The canvas of the report's chart on the screen: the size it takes from  *)
(* its container, its bitmap on displays of different densities, and the   *)
(* way from a place on the screen to a point of the chart.  Lengths are    *)
(* whole pixels here, ratios are per cent.                                 *)
(***************************************************************************)
EXTENDS Colours

(***************************************************************************)
(* A place is what surrounds the canvas: client and outer are the widths   *)
(* of its container and of what contains that, padding is that of the      *)
(* container, own and around are the max-widths (sets of at most one), and *)
(* ratio is that of the display.  left, top and edge say where the canvas  *)
(* is seen and how much of that is its own padding.                        *)
(***************************************************************************)
parseMaxStyle(limit, width) ==
  IF limit.percent THEN (limit.amount * width) \div 100 ELSE limit.amount
getConstraintDimension(place) ==
  {parseMaxStyle(limit, place.client) : limit \in place.own}
    \union {parseMaxStyle(limit, place.outer) : limit \in place.around}
getMaximumWidth(place) ==
  Min({place.client - place.padding} \union getConstraintDimension(place))

\* The attributes of the page's canvas, whose aspect ratio is kept.
Attributes == [width |-> 400, height |-> 225]
NewSize(place) ==
  LET width == Larger(0, getMaximumWidth(place))
  IN  [width |-> width, height |-> (width * Attributes.height) \div Attributes.width]

(***************************************************************************)
(* A screen is the size of the chart, the size of the bitmap, how many     *)
(* times its context is scaled, currentDevicePixelRatio, and the style of  *)
(* the canvas, as a set of at most one size.  To set the size of a bitmap  *)
(* undoes the scaling.                                                     *)
(***************************************************************************)
Bitmap(size, ratio) == [width |-> (size.width * ratio) \div 100,
                        height |-> (size.height * ratio) \div 100]

\* Variant: the ratio is kept when there is nothing to scale.
retinaScaleOnly(s, ratio) ==
  IF ratio = 100 THEN s
  ELSE [s EXCEPT !.ratio = ratio, !.bitmap = Bitmap(s.size, ratio), !.scale = ratio,
                 !.style = IF @ = {} THEN {s.size} ELSE @]
retinaScale(s, ratio) ==
  IF ratio = 100 THEN [s EXCEPT !.ratio = ratio]
  ELSE [s EXCEPT !.ratio = ratio, !.bitmap = Bitmap(s.size, ratio), !.scale = ratio,
                 !.style = IF @ = {} THEN {s.size} ELSE @]

resizeCanvas(s, place) ==
  LET size == NewSize(place) IN
  IF size = s.size THEN s
  ELSE retinaScale([s EXCEPT !.size = size, !.bitmap = size, !.scale = 100, !.style = {size}],
                   place.ratio)

\* construct() and initialize().
NewCanvas(place) ==
  resizeCanvas(retinaScale([size |-> Attributes, bitmap |-> Attributes, scale |-> 100,
                            ratio |-> 100, style |-> {}], place.ratio),
               place)

\* The browser shows the bitmap in the size of the style, or in its own, but no
\* wider than the max-width of the canvas, whose per cents are of the room inside
\* of the padding.
DisplaySize(s, place) ==
  LET size == IF s.style = {} THEN s.bitmap ELSE Only(s.style)
      most == {parseMaxStyle(limit, place.client - place.padding) : limit \in place.own}
  IN  [size EXCEPT !.width = Min({@} \union most)]

\* getRelativePosition(): the point of the chart at a place on the screen.
getRelativePosition(s, place, x, y) ==
  LET size == DisplaySize(s, place) IN
  [x |-> Rounded((x - place.left - place.edge) * s.bitmap.width * 100, size.width * s.ratio),
   y |-> Rounded((y - place.top - place.edge) * s.bitmap.height * 100, size.height * s.ratio)]

\* Where the browser shows a point of the chart, in hundredths of a pixel.
ShownAt(s, place, x, y) ==
  LET size == DisplaySize(s, place) IN
  [x |-> 100 * (place.left + place.edge) + (x * s.scale * size.width) \div s.bitmap.width,
   y |-> 100 * (place.top + place.edge) + (y * s.scale * size.height) \div s.bitmap.height]
=============================================================================
