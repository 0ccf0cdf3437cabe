------------------------------- MODULE Legend -------------------------------
(***************************************************************************)
(* The legend of Chart.js above the chart: fit() counts its lines before   *)
(* it has a place, draw() lays its items out again from the place it gets. *)
(***************************************************************************)
EXTENDS Measures

BoxWidth == 40 * Px
Padding == 10 * Px
ItemHeight == FontSize + Padding

\* The coloured box, half a letter and the name of the dataset.
ItemWidths(names) == [d \in DOMAIN names |-> BoxWidth + FontSize \div 2 + names[d]]

\* fit(): the widths of the lines.
LineWidths(names, width) ==
  FoldLeft(LAMBDA lines, w :
             IF Last(lines) + w + Padding >= width THEN Append(lines, w + Padding)
             ELSE [lines EXCEPT ![Len(lines)] = @ + w + Padding],
           <<0>>, ItemWidths(names))

\* The height of fit().  Variant: a new line is not counted.
LegendHeightOneLine(names, width) ==
  Padding + (IF names = <<>> THEN 0 ELSE ItemHeight)
LegendHeight(names, width) ==
  Padding + (IF names = <<>> THEN 0 ELSE ItemHeight * Len(LineWidths(names, width)))

\* draw(): the hit boxes, from the cursor that goes through the lines again.
HitBoxes(names, box) ==
  LET width == box.right - box.left
      lines == LineWidths(names, width)
      Start(line) == box.left + (width - lines[line]) \div 2
      Place(cursor, w) ==
        LET wraps == cursor.x + w >= width
            line == IF wraps THEN cursor.line + 1 ELSE cursor.line
            x == IF wraps THEN Start(line) ELSE cursor.x
            y == IF wraps THEN cursor.y + ItemHeight ELSE cursor.y
        IN  [x |-> x + w + Padding, y |-> y, line |-> line,
             hits |-> Append(cursor.hits, Rectangle(x, y, w, FontSize))]
  IN  FoldLeft(Place, [x |-> Start(1), y |-> box.top + Padding, line |-> 1,
                       hits |-> <<>>], ItemWidths(names)).hits

\* handleEvent() of a click: the first item whose hit box is touched.
ItemAt(box, hits, x, y) ==
  {d \in DOMAIN hits : /\ Covers(box, x, y) /\ Covers(hits[d], x, y)
                       /\ \A e \in 1..(d - 1) : ~Covers(hits[e], x, y)}
=============================================================================
