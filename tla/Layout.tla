------------------------------- MODULE Layout -------------------------------
(***************************************************************************)
(* layouts.update() of Chart.js for the boxes of the report's chart: the   *)
(* title and the legend above, the vertical axis on the left, the          *)
(* horizontal one below.  Each box is asked for its size more than once,   *)
(* with what the others left of the canvas.                                *)
(***************************************************************************)
EXTENDS Scales, Legend

\* update() of the title, which the report leaves empty.
TitleHeight(chart) ==
  IF chart.title THEN (144 * Px) \div 10 + 2 * Padding ELSE 0

\* Room for the first label of the axis below.  Variant: it is forgotten.
LeftEdgeOfAxis(y, x) == y.width
LeftEdge(y, x) == Larger(y.width, x.left)

\* Room for the axis below and the last label of the other.  Variant: as high as
\* the first round made it.
BottomEdgeOfRound(first, x, y) == Larger(first.height, y.bottom)
BottomEdge(first, x, y) == Larger(x.height, y.bottom)

\* Steps 2 to 4: the smallest sizes, the vertical axis first.
Minimum(chart, width, height) ==
  Only({[above |-> TitleHeight(chart) + LegendHeight(chart.names, width), y |-> y,
         x |-> UpdateX(chart, width - y.width, (height - height \div 2) \div 3, 0, 0)]
        : y \in {UpdateY(chart, width - width \div 2, height, 0, 0)}})

\* Steps 5 and 6: each axis is fitted to what the others need.
Refitted(chart, width, height, first) ==
  LET UpdateLeft(above, below) ==
        UpdateY(chart, first.y.width, height - first.above - first.x.height, above, below)
  IN  Only({[x |-> x, y |-> UpdateLeft(first.above, x.height)]
            : x \in {UpdateX(chart, width - first.y.width, height \div 2,
                             Larger(UpdateLeft(0, 0).width, first.x.left), first.x.right)}})

\* Room for the first and last labels of the axes is left beside the chart area.
Area(width, height, first, last) ==
  LET left == LeftEdge(last.y, first.x)
      top == Larger(first.above, first.y.top)
  IN  Rectangle(left, top, width - left - first.x.right,
                height - top - BottomEdge(first.x, last.x, first.y))

\* Step 7: the boxes from their corner, around the chart area.
Placed(chart, width, above, last, area) ==
  LET start == area.top - above
      title == TitleHeight(chart)
  IN  [area |-> area,
       title |-> Rectangle(0, start, width, title),
       legend |-> Rectangle(0, start + title, width, above - title),
       y |-> Rectangle(area.left - last.y.width, area.top, last.y.width,
                       area.bottom - area.top),
       x |-> Rectangle(area.left, area.bottom, area.right - area.left, last.x.height),
       ticks |-> last.y.ticks, scale |-> last.x]

updateLayouts(chart, width, height) ==
  Only(UNION {{Placed(chart, width, first.above, last, Area(width, height, first, last))
               : last \in {Refitted(chart, width, height, first)}}
              : first \in {Minimum(chart, width, height)}})
=============================================================================
