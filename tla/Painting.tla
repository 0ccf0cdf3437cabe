------------------------------ MODULE Painting ------------------------------
(***************************************************************************)
(* The draw() of everything in the report's chart: where lines, texts and  *)
(* boxes are put on the canvas, each by a computation of its own from the  *)
(* layout that update() left.                                              *)
(***************************************************************************)
EXTENDS Layout, Bars, Tooltip, Colours

\* Scale.draw() of the horizontal axis, getLineValue() with offsetGridLines: a line
\* is half way to the category before, the first as far from the second.
\* Variant: the lines are at the categories.
GridLineAt(chart, x, i) == x.left + CategoryPixel(x.right - x.left, Len(chart.labels), i)
GridLine(chart, x, i) ==
  LET count == Len(chart.labels)
      Pixel(j) == x.left + CategoryPixel(x.right - x.left, count, j)
      before == IF count = 1 THEN 0
                ELSE (IF i = 1 THEN Pixel(2) - Pixel(1) ELSE Pixel(i) - Pixel(i - 1)) \div 2
  IN  Pixel(i) - before + Px \div 2

\* A line left of the axis is drawn in a colour that is not seen.
SeenLines(chart, x, shown) == {i \in shown : GridLine(chart, x, i) - Px \div 2 >= x.left}

\* The texts of its ticks: below the marks, turned about their right end.
TickLabelX(x, axis, length, at) ==
  LET top == x.top + TickMark
      half == (Cosine[axis.rotation] * FontSize) \div 2000
  IN  IF axis.rotation = 0 THEN Rectangle(at - length \div 2, top, length, FontSize)
      ELSE [left |-> at - (Cosine[axis.rotation] * length) \div 1000, right |-> at,
            top |-> top - half, bottom |-> top + half + (Sine[axis.rotation] * length) \div 1000]

\* The texts of the ticks of the vertical axis, right of them their marks.
TickLabelY(ticks, y, v) ==
  Rectangle(y.right - TickMark - TickText(ticks, v), ValuePixel(ticks, y, v) - FontSize \div 2,
            TickText(ticks, v), FontSize)

\* The lines of the titles of the axes: that of the vertical one is turned by 90
\* degrees.
HalfLine == (72 * Px) \div 10
TitleX(x) == Rectangle(x.left, x.bottom - 4 * Px - HalfLine - FontSize \div 2,
                       x.right - x.left, FontSize)
TitleY(y) == Rectangle(y.left + 4 * Px + HalfLine - FontSize \div 2, y.top,
                       FontSize, y.bottom - y.top)

\* Rectangle.draw(): the border runs inside the bar, half its width from the edges,
\* but not along the bottom; it is no wider than the bar.
Stroke(bar, border) ==
  LET size == Smaller(bar.right - bar.left, bar.bottom - bar.top)
      wide == Smaller(border, size)
      half == wide \div 2
      thin == bar.left + half = bar.right - half
      flat == bar.y + half = bar.base
  IN  [width |-> wide,
       left |-> IF flat THEN bar.left ELSE bar.left + half,
       right |-> IF flat THEN bar.right ELSE bar.right - half,
       top |-> IF thin THEN bar.y ELSE bar.y + half, bottom |-> bar.base]

\* Legend.draw(): the box and the text of an item, struck out when it is hidden.
Struck(chart) == {d \in DOMAIN chart.hidden : chart.hidden[d]}
LegendBox(hit) == Rectangle(hit.left, hit.top, BoxWidth, FontSize)
LegendText(hit, name) ==
  Rectangle(hit.left + BoxWidth + FontSize \div 2, hit.top, name, FontSize)

\* draw() of the tooltip: its title, the coloured box of its line, and the line.
DrawTitle(tip, title) ==
  Rectangle(tip.box.left + TipPadding, tip.box.top + TipPadding, title, FontSize)
ColourBox(tip) ==
  Rectangle(tip.box.left + TipPadding, tip.box.top + TipPadding + FontSize + 6 * Px,
            FontSize, FontSize)
DrawBody(tip, line) ==
  Rectangle(tip.box.left + TipPadding + FontSize + 2 * Px,
            tip.box.top + TipPadding + FontSize + 6 * Px, line, FontSize)

\* draw() of the bars is clipped to the chart area: a bar begins at 0, which may be
\* below the axis.
clipArea(bar, area) ==
  [left |-> Larger(bar.left, area.left), right |-> Smaller(bar.right, area.right),
   top |-> Larger(bar.top, area.top), bottom |-> Smaller(bar.bottom, area.bottom)]

\* draw(): the boxes, then drawDatasets(), the last first; of each what is seen.
DrawnDatasets(chart) == Reverse(SetToSortSeq(Visible(chart), <))
Layers(chart, picture, shown) ==
  LET layout == picture.layout
      At(i) == layout.x.left + CategoryPixel(layout.x.right - layout.x.left, Len(chart.labels), i)
      legend == UNION {{LegendBox(picture.hits[d]), LegendText(picture.hits[d], chart.names[d])}
                         : d \in DOMAIN chart.names}
      below == {TickLabelX(layout.x, layout.scale, chart.labels[i], At(i)) : i \in shown}
      beside == {TickLabelY(layout.ticks, layout.y, v) : v \in ToSet(layout.ticks)}
      Dataset(d) == {clipArea(picture.bars[b], layout.area)
                       : b \in {b \in DOMAIN picture.bars : b[1] = d}}
  IN  <<legend, below \union {TitleX(layout.x)}, beside \union {TitleY(layout.y)}>>
        \o [k \in DOMAIN DrawnDatasets(chart) |-> Dataset(DrawnDatasets(chart)[k])]
=============================================================================
