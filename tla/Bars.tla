-------------------------------- MODULE Bars --------------------------------
(***************************************************************************)
(* The bar controller of Chart.js: where the bars of the visible datasets  *)
(* are, side by side or on top of each other, and which of them is under   *)
(* the pointer.                                                            *)
(***************************************************************************)
EXTENDS Scales

\* _getStacks() of the visible datasets up to one of them.
getStacks(chart, last) ==
  FoldLeft(LAMBDA stacks, d :
             IF chart.stack[d] # NoStack /\ chart.stack[d] \in ToSet(stacks)
             THEN stacks ELSE Append(stacks, chart.stack[d]),
           <<>>, SetToSortSeq(Visible(chart) \cap 1..last, <))

\* getStackIndex(), from 0.  Variant: the hidden datasets keep their place.
getStackIndexAll(chart, d) == d - 1
getStackIndex(chart, d) ==
  LET stacks == getStacks(chart, d) IN
  (IF chart.stack[d] = NoStack THEN Len(stacks)
   ELSE CHOOSE k \in DOMAIN stacks : stacks[k] = chart.stack[d]) - 1

\* getRuler() and computeMinSampleSize(): the room of a category.
MinSampleSize(box, count) ==
  LET width == box.right - box.left
      Pixel(i) == CategoryPixel(width, count, i)
  IN  Min({width} \union {Pixel(i + 1) - Pixel(i) : i \in 1..(count - 1)})

\* calculateBarIndexPixels() with computeFitCategoryTraits(): the bars of a
\* category share 8/10 of its room, and a bar has 9/10 of its share.
IndexPixels(chart, box, d, i) ==
  LET count == Len(chart.labels)
      size == (MinSampleSize(box, count) * 8) \div 10
      chunk == size \div Len(getStacks(chart, Len(chart.data)))
      center == box.left + CategoryPixel(box.right - box.left, count, i) - size \div 2
                + chunk * getStackIndex(chart, d) + chunk \div 2
      width == (chunk * 9) \div 10
  IN  [center |-> center, left |-> center - width \div 2, width |-> width]

\* calculateBarValuePixels(): a bar starts where the visible ones below it in
\* its stack end, those of its own sign.
Below(chart, d, i) ==
  MapThenSumSet(LAMBDA e : chart.data[e][i],
    {e \in Visible(chart) \cap 1..(d - 1) :
       /\ chart.stack[d] # NoStack /\ chart.stack[e] = chart.stack[d]
       /\ (chart.data[e][i] < 0) = (chart.data[d][i] < 0)})

\* updateElementGeometry() of a bar, and its bounds.
Bar(chart, layout, d, i) ==
  LET start == Below(chart, d, i)
      base == ValuePixel(layout.ticks, layout.y, start)
      head == ValuePixel(layout.ticks, layout.y, start + chart.data[d][i])
      pixels == IndexPixels(chart, layout.x, d, i)
  IN  [x |-> pixels.center, y |-> head, base |-> base,
       left |-> pixels.left, right |-> pixels.left + pixels.width,
       top |-> Smaller(head, base), bottom |-> Larger(head, base)]

\* What is drawn: the bars of the visible datasets.
BarsOf(chart, layout) ==
  [b \in {b \in Visible(chart) \X DOMAIN chart.labels : b[2] \in DOMAIN chart.data[b[1]]}
     |-> Bar(chart, layout, b[1], b[2])]

(***************************************************************************)
(* Interaction: the bars that an event is about.                           *)
(***************************************************************************)
getIntersectItems(bars, x, y) == {b \in DOMAIN bars : Covers(bars[b], x, y)}

\* indexMode() with intersect, of a hover: what has the index of the first.
indexMode(bars, x, y) ==
  LET items == getIntersectItems(bars, x, y)
      IsFirst(b) == \A c \in items : b[1] < c[1] \/ (b[1] = c[1] /\ b[2] <= c[2])
      first == CHOOSE b \in items : IsFirst(b)
  IN  IF items = {} THEN {} ELSE {b \in DOMAIN bars : b[2] = first[2]}

\* nearest with intersect, of a tooltip: the nearest center, then the smallest
\* area, then the first dataset; distances are compared in whole pixels.
Nearest(bars, items, x, y) ==
  LET Far(b) == ((bars[b].x - x) \div Px)^2
                + (((bars[b].y + bars[b].base) \div 2 - y) \div Px)^2
      Area(b) == ((bars[b].right - bars[b].left) \div Px)
                 * ((bars[b].bottom - bars[b].top) \div Px)
      Before(b, c) == \/ Far(b) < Far(c)
                      \/ /\ Far(b) = Far(c)
                         /\ Area(b) < Area(c) \/ (Area(b) = Area(c) /\ b[1] <= c[1])
  IN  IF items = {} THEN {} ELSE {CHOOSE b \in items : \A c \in items : Before(b, c)}
nearest(bars, x, y) == Nearest(bars, getIntersectItems(bars, x, y), x, y)
=============================================================================
