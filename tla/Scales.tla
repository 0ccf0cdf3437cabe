------------------------------- MODULE Scales -------------------------------
(***************************************************************************)
(* The axes of a bar chart in Chart.js: update() of each, which measures   *)
(* itself for a place of at most so much, and where its values are then.   *)
(***************************************************************************)
EXTENDS LinearTicks

TickMark == 10 * Px                          \* gridLines.tickMarkLength
ScaleLabel == (144 * Px) \div 10 + 8 * Px    \* the line of its title, padded
LineSpace == FontSize \div 2

\* The pixel of a category, from the left of its axis.
CategoryPixel(width, count, i) == RoundPx(width * (2 * i - 1), 2 * count)

\* calculateTickRotation(): degree by degree until the labels fit next to each
\* other, at most 50, and not higher than there is room.
Rotation(longest, tickWidth, maxHeight) ==
  LET Fits(r) == \/ r = 50
                 \/ (IF r = 0 THEN longest
                     ELSE (Cosine[r - 1] * longest) \div 1000) <= tickWidth
      High(r) == Sine[r] * longest > 1000 * maxHeight
      last == CHOOSE r \in 0..50 : /\ Fits(r) \/ High(r)
                                   /\ \A q \in 0..(r - 1) : ~Fits(q) /\ ~High(q)
  IN  IF Fits(last) THEN last ELSE last - 1

\* handleMargins()
Beyond(padding, margin) == Larger(padding - margin, 0)

\* update() of the horizontal axis: calculateTickRotation(), fit() and
\* handleMargins().  Its paddings keep the first and the last label inside.
UpdateX(chart, maxWidth, maxHeight, marginLeft, marginRight) ==
  LET labels == chart.labels
      count == Len(labels)
      longest == Max(ToSet(labels))
      tickWidth == CategoryPixel(maxWidth, count, 2) - CategoryPixel(maxWidth, count, 1)
      r == Rotation(longest, tickWidth - 6 * Px, maxHeight)
      Turned(length) == (Cosine[r] * length) \div 1000
      labelHeight == (Sine[r] * longest) \div 1000 + FontSize + LineSpace
      left == IF r # 0 THEN Turned(labels[1]) ELSE labels[1] \div 2
      right == IF r # 0 THEN Turned(LineSpace) ELSE labels[count] \div 2
  IN  [width |-> maxWidth, rotation |-> r, longest |-> Turned(longest),
       height |-> Smaller(maxHeight, TickMark + ScaleLabel + labelHeight),
       left |-> Beyond(left + 3 * Px, marginLeft),
       right |-> Beyond(right + 3 * Px, marginRight)]

\* update() of the vertical axis: buildTicks(), fit() and handleMargins().
UpdateY(chart, maxWidth, maxHeight, marginTop, marginBottom) ==
  LET ticks == buildTicks(chart, maxHeight)
      largest == Max({TickText(ticks, v) : v \in ToSet(ticks)})
  IN  [width |-> Smaller(maxWidth, TickMark + ScaleLabel + largest + LineSpace),
       height |-> maxHeight, ticks |-> ticks,
       top |-> Beyond(FontSize \div 2, marginTop),
       bottom |-> Beyond(FontSize \div 2, marginBottom)]

\* getPixelForValue() of the vertical axis in its box.
ValuePixel(ticks, box, v) ==
  box.bottom - ((box.bottom - box.top) * (v - Last(ticks))) \div (ticks[1] - Last(ticks))

\* _autoSkip(): the categories whose label is drawn.  The last one always is,
\* and what would come too near to it is not.
SkipRatio(x, room, count) ==
  IF x.longest * count > room THEN 1 + (x.longest * count) \div room ELSE 0
Shown(ratio, count) ==
  {i \in 1..count : \/ i = count \/ ratio = 0
                    \/ (i - 1) % ratio = 0 /\ i - 1 + ratio < count}
=============================================================================
