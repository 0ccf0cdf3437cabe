------------------------------ MODULE Drawing ------------------------------
(***************************************************************************)
(* What the report's chart draws: its layout, its bars, its legend and the *)
(* tooltip, while the canvas is resized and the pointer moves and clicks.  *)
(* An action is one event, handled when no animation is under way; what    *)
(* events do to an animation is the subject of Chart.                      *)
(***************************************************************************)
EXTENDS Painting, Screen

CONSTANTS
  Reports,   \* the charts of a report: data, labels, names, stacks, title, hidden, fill
  Places,    \* where the canvas may be on the screen, and on which display
  Columns,   \* bound: the pointer is at one of so many places across the canvas
  Rows       \* bound: and at one of so many places down it

\* The canvas can be seen wherever it is: it has a size, and a bitmap of more than a
\* single pixel.
ASSUME DrawingAssumption ==
  /\ {Columns, Rows} \subseteq Nat
  /\ \A p \in Places :
       /\ {p.left, p.top, p.edge} \subseteq Int /\ p.ratio \in Nat \ {0}
       /\ {NewSize(p).width, NewSize(p).height} \subseteq Nat
       /\ Bitmap(NewSize(p), p.ratio).width >= 2 /\ Bitmap(NewSize(p), p.ratio).height >= 2
       /\ \A limit \in p.own : /\ p.own = {limit}
                              /\ parseMaxStyle(limit, p.client - p.padding) \in Nat \ {0}

VARIABLES
  report,    \* the data and the flags of the datasets
  place,     \* what surrounds the canvas
  screen,    \* the canvas and its bitmap
  picture,   \* the layout, the bars and the hit boxes of the legend
  hovering,  \* the bars that are styled as hovered
  fill,      \* the colour of each bar
  about      \* the bar the tooltip is about, as a set of at most one

drawVars == <<report, place, screen, picture, hovering, fill, about>>

\* The border of the page's bars, and the frames of an animation.
Border == Px
Frames == 6

\* The canvas in the lengths of the drawing.
Canvas(s) == Rectangle(0, 0, s.size.width * Px, s.size.height * Px)
canvas == Canvas(screen)

\* Chart.update() and the draw() at the end of its animation.
Picture(c, box) ==
  Only({[layout |-> layout, bars |-> BarsOf(c, layout),
         hits |-> HitBoxes(c.names, layout.legend)]
        : layout \in {updateLayouts(c, box.right, box.bottom)}})

\* updateElement(): every bar has the colour of its dataset.
Plain(c, bars) == [b \in DOMAIN bars |-> Read(c.fill[b[1]])]

Redraw(c, s) == /\ report' = c /\ screen' = s /\ picture' = Picture(c, Canvas(s))
                /\ fill' = Plain(c, picture'.bars)
                /\ hovering' = {} /\ about' = {}

DrawInit == /\ report \in Reports /\ place \in Places
            /\ screen = NewCanvas(place)
            /\ picture = Picture(report, canvas)
            /\ fill = Plain(report, picture.bars)
            /\ hovering = {} /\ about = {}

\* The container gets another size, the page is scrolled or zoomed, or the window
\* moves to another display: resize() has something to do when the size changes.
Resize == \E p \in Places \ {place} :
  /\ place' = p
  /\ IF resizeCanvas(screen, p) = screen
     THEN UNCHANGED <<report, screen, picture, hovering, fill, about>>
     ELSE Redraw(report, resizeCanvas(screen, p))

\* Where the pointer is over the canvas, on the screen and in the chart.
OnScreen ==
  LET size == DisplaySize(screen, place) IN
  {[x |-> place.left + place.edge + (size.width * i) \div (Columns + 1),
    y |-> place.top + place.edge + (size.height * j) \div (Rows + 1)]
     : i \in 1..Columns, j \in 1..Rows}
\* fromNativeEvent()
Pointed(at) == LET e == getRelativePosition(screen, place, at.x, at.y)
               IN  <<e.x * Px, e.y * Px>>
Points == {Pointed(at) : at \in OnScreen}
Clicked(x, y) == ItemAt(picture.layout.legend, picture.hits, x, y)

\* The colours f of the bars, when some are made plain or hovered.
removeHoverStyle(bars, f) ==
  [b \in DOMAIN f |-> IF b \in bars THEN Read(report.fill[b[1]]) ELSE f[b]]
setHoverStyle(bars, f) ==
  [b \in DOMAIN f |-> IF b \in bars THEN getHoverColor(f[b]) ELSE f[b]]

\* updateHoverStyle() of handleEvent(): off for the bars that were hovered, and on
\* for those that are.  Variant: off only for those that are not any more.
updateHoverStyleOnce(now) == fill' = setHoverStyle(now, removeHoverStyle(hovering \ now, fill))
updateHoverStyle(now) == fill' = setHoverStyle(now, removeHoverStyle(hovering, fill))

\* handleEvent() of the chart and of the tooltip.
Point(x, y) ==
  /\ hovering' = indexMode(picture.bars, x, y) /\ updateHoverStyle(hovering')
  /\ about' = nearest(picture.bars, x, y)
  /\ UNCHANGED <<report, place, screen, picture>>
Move == \E p \in Points : Point(p[1], p[2])

\* onClick() of an item of the legend.
Toggle(d) == Redraw([report EXCEPT !.hidden[d] = ~@], screen) /\ UNCHANGED place
Click == \E p \in Points : \E d \in Clicked(p[1], p[2]) : Toggle(d)

\* The pointer leaves the canvas.
Leave == /\ hovering # {} /\ hovering' = {} /\ about' = {} /\ updateHoverStyle({})
         /\ UNCHANGED <<report, place, screen, picture>>

DrawNext == Resize \/ Move \/ Click \/ Leave
DrawSpec == DrawInit /\ [][DrawNext]_drawVars
-----------------------------------------------------------------------------
Layouts == picture.layout
Axis == Layouts.scale
Ticks == Layouts.ticks
Line(b) == report.names[b[1]] + TextWidth(2 + Digits(report.data[b[1]][b[2]] \div 10))
Tip(b) == TooltipOf(picture.bars[b], report.labels[b[2]], Line(b), canvas, Layouts.area)
ShownLabels ==
  LET width == Layouts.x.right - Layouts.x.left
      count == Len(report.labels)
  IN  Shown(SkipRatio(Axis, width - Axis.left - Axis.right, count), count)

\* The boxes and the chart area share the canvas: none reaches into another or
\* out of it, although each was measured before the others had their places
\* (layouts.update()).  The legend draws its items inside the room that fit()
\* asked for, apart from each other, although draw() wraps the lines by a rule of
\* its own; so a click hides the one dataset whose name is there.
BoxesShareCanvas ==
  LET boxes == {Layouts.area, Layouts.title, Layouts.legend, Layouts.x, Layouts.y}
      hits == picture.hits
  IN
  /\ \A a \in boxes : Within(a, canvas) /\ a.left <= a.right /\ a.top <= a.bottom
  /\ \A a, b \in boxes : a # b => Apart(a, b)
  /\ Layouts.x.right = Layouts.area.right /\ Layouts.y.bottom = Layouts.area.bottom
  /\ \A d \in DOMAIN hits :
       /\ hits[d].top >= Layouts.legend.top + Padding
       /\ hits[d].bottom + Padding <= Layouts.legend.bottom
       /\ \A e \in DOMAIN hits \ {d} : Apart(hits[d], hits[e])

\* The labels are readable.  Those of the horizontal axis are inside the canvas,
\* turned or not: the room for them is computed in the first round, their turn in
\* the last (fit(): "Ensure that our ticks are always inside the canvas").  Those
\* that are drawn do not run into each other, the last one included
\* (_autoSkip()), up to the pixel to which a label is placed.  Those of the
\* vertical axis are no wider than its first round made it.
LabelsReadable ==
  LET width == Layouts.x.right - Layouts.x.left
      count == Len(report.labels)
      At(i) == Layouts.x.left + CategoryPixel(width, count, i)
      Reach(i) == IF Axis.rotation = 0 THEN report.labels[i] \div 2
                  ELSE (Cosine[Axis.rotation] * report.labels[i]) \div 1000
  IN  /\ At(1) - Reach(1) >= 0
      /\ Axis.rotation = 0 => At(count) + Reach(count) <= canvas.right
      /\ \A i, j \in ShownLabels : i < j => At(j) - At(i) + Px >= Axis.longest
      /\ \A i \in DOMAIN Ticks :
           TickText(Ticks, Ticks[i]) + TickMark <= Layouts.y.right - Layouts.y.left

\* Both are what layouts.update() and the axes' fit() make in their rounds.
LaidOut == BoxesShareCanvas /\ LabelsReadable

\* Bars are beside each other inside the chart area, or in one stack, in which
\* each begins where the visible one below it ends (getStackIndex(), getRuler(),
\* calculateBarValuePixels()); the ticks, at equal distances, reach as high
\* (determineDataLimits(), generateTicks()).
BarsInTheirPlace ==
  LET bars == picture.bars
      Above(c, b) == /\ c[2] = b[2] /\ c[1] > b[1]
                     /\ report.stack[b[1]] # NoStack /\ report.stack[b[1]] = report.stack[c[1]]
  IN  \A b \in DOMAIN bars :
        /\ Layouts.area.left <= bars[b].left /\ bars[b].right <= Layouts.area.right
        /\ Layouts.area.top <= bars[b].y
        /\ \A i \in 1..(Len(Ticks) - 1) : Ticks[i] - Ticks[i + 1] = Ticks[1] - Ticks[2]
        /\ \A c \in DOMAIN bars \ {b} :
             \/ bars[b].right <= bars[c].left \/ bars[c].right <= bars[b].left
             \/ Above(b, c)
             \/ /\ Above(c, b) /\ bars[c].left = bars[b].left
                /\ \/ bars[c].base = bars[b].y
                   \/ \E d \in DOMAIN bars : Above(c, d) /\ Above(d, b)

\* A tooltip is about a visible bar that is styled as hovered, all of it is on
\* the canvas, and it has one caret, whose point is at the top of the bar
\* (determineAlignment(), getBackgroundPoint(), getCaretPosition()); its outline
\* goes round the box without turning back, the caret is between two corners
\* (drawBackground()).
TooltipInPlace ==
  \A b \in about :
    LET tip == Tip(b)
        InBox(p) == Covers(tip.box, p[1], p[2])
        carets == SelectSeq(Outline(tip), LAMBDA p : ~InBox(p))
        round == SelectSeq(Outline(tip), InBox)
        After(i) == round[(i % Len(round)) + 1]
    IN  /\ b \in hovering /\ ~report.hidden[b[1]]
        /\ Within(tip.box, canvas)
        /\ Len(carets) = 1
        /\ carets[1][1] - tip.caretX \in (-3 * Px)..(3 * Px)
        /\ carets[1][2] - tip.caretY \in (-2 * Px)..(2 * Px)
        /\ \A i, j \in DOMAIN round :
             (After(i)[1] - round[i][1]) * (round[j][2] - round[i][2])
               >= (After(i)[2] - round[i][2]) * (round[j][1] - round[i][1])

\* What is hit is what is seen: a point of the chart to which a place on the
\* screen is translated (getRelativePosition()) is shown at that place, up to a
\* pixel, whatever resizes and displays of another density the bitmap has seen
\* (retinaScale()).
HitWhatIsSeen ==
  \A at \in OnScreen :
    LET e == getRelativePosition(screen, place, at.x, at.y)
        seen == ShownAt(screen, place, e.x, e.y)
    IN  /\ seen.x - 100 * at.x \in -100..100
        /\ seen.y - 100 * at.y \in -100..100

\* A hovered bar has the hover colour of its dataset, however often the pointer
\* comes and goes, and every other bar has the colour of its dataset
\* (updateHoverStyle()).
HoverShown ==
  /\ hovering \subseteq DOMAIN picture.bars
  /\ \A b \in DOMAIN picture.bars :
       LET plain == Read(report.fill[b[1]])
       IN  fill[b] = IF b \in hovering THEN getHoverColor(plain) ELSE plain

\* A click and a hover are about what the reader sees under the pointer, and the
\* bars that are coloured are those that the last hover was about.
PointsAtWhatIsSeen == HitWhatIsSeen /\ HoverShown

\* The hover colour can be told from the other, unless that is nearly black, it is
\* no lighter and no less opaque (getHoverColor()).  An animation from one to the
\* other never leaves what is between them, nor turns back (interpolate()).
BarColours ==
  \A b \in DOMAIN picture.bars :
    LET plain == Read(report.fill[b[1]])
        hovered == getHoverColor(plain)
        Frame(e) == Interpolated(hovered, plain, e, Frames)
        Between(v, one, other) == Smaller(one, other) <= v /\ v <= Larger(one, other)
    IN  /\ hovered.alpha = plain.alpha /\ Most(hovered.rgb) <= 255 /\ Least(hovered.rgb) >= 0
        /\ Most(hovered.rgb) + Least(hovered.rgb) <= Most(plain.rgb) + Least(plain.rgb)
        /\ plain.hsl[3] > 5 => hovered.rgb # plain.rgb
        /\ \A e \in 0..(Frames - 1), k \in 1..3 :
             /\ Between(Frame(e).rgb[k], hovered.rgb[k], plain.rgb[k])
             /\ Between(Frame(e + 1).rgb[k], Frame(e).rgb[k], plain.rgb[k])

\* Draw() of everything keeps to the room that was measured for it: the middle of
\* a line of the grid is in no bar but the only one (getLineValue()); the texts at
\* the axes keep apart from each other and from the titles of the axes, unless the
\* horizontal axis asked for more than half of the canvas (fit()); the border of a
\* bar is inside of it (Rectangle.draw()), the texts and the coloured box of the
\* tooltip are inside of that (getTooltipSize()); and struck out are the datasets
\* without bars.
PaintedInPlace ==
  LET bars == picture.bars
      At(i) == Layouts.x.left + CategoryPixel(Layouts.x.right - Layouts.x.left,
                                              Len(report.labels), i)
      LabelX(i) == TickLabelX(Layouts.x, Axis, report.labels[i], At(i))
      LabelY(i) == TickLabelY(Ticks, Layouts.y, Ticks[i])
      capped == 2 * (Layouts.x.bottom - Layouts.x.top) >= canvas.bottom - 1
  IN  /\ \A i \in SeenLines(report, Layouts.x, ShownLabels), b \in DOMAIN bars :
           \/ Len(report.labels) = 1
           \/ GridLine(report, Layouts.x, i) <= bars[b].left
           \/ GridLine(report, Layouts.x, i) >= bars[b].right
      /\ capped \/ \A i \in ShownLabels : LabelX(i).bottom <= TitleX(Layouts.x).top
      /\ \A i \in DOMAIN Ticks :
           /\ TitleY(Layouts.y).right <= LabelY(i).left
           /\ i > 1 /\ ~capped => LabelY(i - 1).bottom <= LabelY(i).top
      /\ \A b \in DOMAIN bars :
           LET stroke == Stroke(bars[b], Border)
               half == stroke.width \div 2
           IN  Within([left |-> stroke.left - half, right |-> stroke.right + half,
                       top |-> stroke.top - half, bottom |-> stroke.bottom], bars[b])
      /\ \A d \in DOMAIN picture.hits :
           /\ d \in Struck(report) <=> \A b \in DOMAIN bars : b[1] # d
           /\ Within(LegendText(picture.hits[d], report.names[d]), Layouts.legend)
           /\ Apart(LegendBox(picture.hits[d]), LegendText(picture.hits[d], report.names[d]))
      /\ \A b \in about :
           LET tip == Tip(b) IN
           /\ \A text \in {DrawTitle(tip, report.labels[b[2]]), ColourBox(tip),
                           DrawBody(tip, Line(b))} : Within(text, tip.box)
           /\ Apart(ColourBox(tip), DrawBody(tip, Line(b)))

\* What is drawn later covers no text, box or bar that was drawn before
\* (draw(), drawDatasets()), but the tooltip, which is drawn last of all.
NothingCovered ==
  LET layers == Layers(report, picture, ShownLabels)
      capped == 2 * (Layouts.x.bottom - Layouts.x.top) >= canvas.bottom - 1
  IN  \A i, j \in DOMAIN layers :
        i < j => \A p \in layers[i], q \in layers[j] : Apart(p, q) \/ capped

\* All that is painted has its place and its colour, the tooltip above it too.
Painted == PaintedInPlace /\ NothingCovered /\ BarColours /\ TooltipInPlace
=============================================================================
