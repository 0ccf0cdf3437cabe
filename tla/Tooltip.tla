------------------------------ MODULE Tooltip ------------------------------
(***************************************************************************)
(* The tooltip of Chart.js: its size, on which side of its bar it is, and  *)
(* the place that keeps it on the canvas.                                  *)
(***************************************************************************)
EXTENDS Measures

TipPadding == 6 * Px                       \* xPadding, yPadding
Caret == 5 * Px + 2 * Px                   \* caretSize and caretPadding
Corner == 6 * Px + 2 * Px                  \* cornerRadius and caretPadding

\* getTooltipSize(): a title, and one line with a coloured box.
TooltipSize(title, line) ==
  [width |-> Larger(title, line + FontSize + 2 * Px) + 2 * TipPadding,
   height |-> 2 * FontSize + 6 * Px + 2 * TipPadding]

\* determineAlignment(): above or below the bar near the edges of the canvas,
\* beside it elsewhere, unless there is no room on that side.  Variant: it is
\* not asked whether there is.
AlignmentBeside(x, y, size, canvas, area) ==
  [x |-> IF 2 * x <= area.left + area.right THEN "left" ELSE "right", y |-> "center"]
determineAlignment(x, y, size, canvas, area) ==
  LET side == IF y < size.height THEN "top"
              ELSE IF y > canvas.bottom - size.height THEN "bottom" ELSE "center"
      IsLeft == IF side = "center" THEN 2 * x <= area.left + area.right
                ELSE 2 * x <= size.width
      IsRight == IF side = "center" THEN 2 * x > area.left + area.right
                 ELSE 2 * x >= 2 * canvas.right - size.width
      Outside == IF IsLeft THEN x + size.width + Caret > canvas.right
                 ELSE x - size.width - Caret < 0
      nearer == IF 2 * y <= area.top + area.bottom THEN "top" ELSE "bottom"
  IN  IF ~IsLeft /\ ~IsRight THEN [x |-> "center", y |-> side]
      ELSE IF Outside THEN [x |-> "center", y |-> nearer]
      ELSE [x |-> IF IsLeft THEN "left" ELSE "right", y |-> side]

\* getBackgroundPoint(): the box of the tooltip.
BackgroundPoint(x, y, size, align, canvas) ==
  LET centered == Larger(0, Smaller(x - size.width \div 2, canvas.right - size.width))
      beside == IF align.y = "center" THEN Caret ELSE -Corner
      left == CASE align.x = "left" -> x + beside
                [] align.x = "right" -> x - size.width - beside
                [] OTHER -> centered
      top == CASE align.y = "top" -> y + Caret
               [] align.y = "bottom" -> y - size.height - Caret
               [] OTHER -> y - size.height \div 2
  IN  Rectangle(left, top, size.width, size.height)

\* update() of a tooltip about one bar: its middle and its top are rounded.
TooltipOf(bar, title, line, canvas, area) ==
  LET x == RoundPx(bar.x, 1)
      y == RoundPx(bar.y, 1)
      size == TooltipSize(title, line)
      align == determineAlignment(x, y, size, canvas, area)
  IN  [caretX |-> x, caretY |-> y, align |-> align,
       box |-> BackgroundPoint(x, y, size, align, canvas)]

\* getCaretPosition(): the two ends of the caret at the box, in the order of the
\* outline of the box, and its point between them.
getCaretPosition(tip) ==
  LET box == tip.box
      size == 5 * Px
      y2 == (box.top + box.bottom) \div 2
      x2 == CASE tip.align.x = "left" -> box.left + 11 * Px
              [] tip.align.x = "right" -> box.right - 11 * Px
              [] OTHER -> tip.caretX
  IN  CASE tip.align.y = "center" /\ tip.align.x = "left" ->
             <<<<box.left, y2 + size>>, <<box.left - size, y2>>, <<box.left, y2 - size>>>>
        [] tip.align.y = "center" /\ tip.align.x # "left" ->
             <<<<box.right, y2 - size>>, <<box.right + size, y2>>, <<box.right, y2 + size>>>>
        [] tip.align.y = "top" ->
             <<<<x2 - size, box.top>>, <<x2, box.top - size>>, <<x2 + size, box.top>>>>
        [] OTHER ->
             <<<<x2 + size, box.bottom>>, <<x2, box.bottom + size>>, <<x2 - size, box.bottom>>>>

\* drawBackground(): the outline of the box from its upper left corner, with the
\* caret where it belongs; a corner is the two ends of its curve.
Outline(tip) ==
  LET box == tip.box
      radius == 6 * Px
      CaretIf(here) == IF here THEN getCaretPosition(tip) ELSE <<>>
      beside == tip.align.y = "center"
  IN  <<<<box.left + radius, box.top>>>> \o CaretIf(tip.align.y = "top")
      \o <<<<box.right - radius, box.top>>, <<box.right, box.top + radius>>>>
      \o CaretIf(beside /\ tip.align.x = "right")
      \o <<<<box.right, box.bottom - radius>>, <<box.right - radius, box.bottom>>>>
      \o CaretIf(tip.align.y = "bottom")
      \o <<<<box.left + radius, box.bottom>>, <<box.left, box.bottom - radius>>>>
      \o CaretIf(beside /\ tip.align.x = "left")
      \o <<<<box.left, box.top + radius>>>>
=============================================================================
