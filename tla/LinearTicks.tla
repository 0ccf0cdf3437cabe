---------------------------- MODULE LinearTicks ----------------------------
(***************************************************************************)
(* The linear scale of Chart.js: which values the axis has to show, the    *)
(* ticks that show them, and their labels.  A chart is a record: for each  *)
(* dataset its data, whether it is hidden and the name of its stack.       *)
(***************************************************************************)
EXTENDS Measures

CONSTANT NoStack  \* meta.stack is undefined

Visible(chart) == {d \in DOMAIN chart.data : ~chart.hidden[d]}
Stacked(chart) == \E d \in Visible(chart) : chart.stack[d] # NoStack

\* The datasets that are drawn on top of each other share a key.
StackKey(chart, d) ==
  <<IF chart.stack[d] = NoStack THEN d ELSE 0, chart.stack[d]>>

\* valuesPerStack: for each stack and index the sum of the positive values and
\* that of the negative ones.
StackSums(chart) ==
  LET Sum(d, i, positive) == MapThenSumSet(
        LAMBDA e : IF i \in DOMAIN chart.data[e] /\ (chart.data[e][i] >= 0) = positive
                   THEN chart.data[e][i] ELSE 0,
        {e \in Visible(chart) : StackKey(chart, e) = StackKey(chart, d)})
  IN  UNION {UNION {{Sum(d, i, TRUE), Sum(d, i, FALSE)} : i \in DOMAIN chart.data[d]}
              : d \in Visible(chart)}
Values(chart) == UNION {ToSet(chart.data[d]) : d \in Visible(chart)}

\* determineDataLimits(): null counts as finite, so that the defaults are not
\* taken where no dataset is visible, and -1 to 1 comes out.
DataLimits(chart) ==
  LET shown == IF Stacked(chart) THEN StackSums(chart) ELSE Values(chart)
      low == IF shown = {} THEN 0 ELSE Min(shown)
      high == IF shown = {} THEN 0 ELSE Max(shown)
  IN  [min |-> IF low = high THEN low - 10 ELSE low,
       max |-> IF low = high THEN high + 10 ELSE high]

\* niceNum() of p / q: 1, 2, 5 or 10 times a power of ten.
niceNum(p, q, round) ==
  LET e == CHOOSE k \in 0..6 : 10^k * q <= p /\ p < 10^(k + 1) * q
      UpTo(n, f) == IF round THEN 2 * p < n * q * 10^e ELSE p <= f * q * 10^e
  IN  10^e * (IF UpTo(3, 1) THEN 1 ELSE IF UpTo(6, 2) THEN 2
              ELSE IF UpTo(14, 5) THEN 5 ELSE 10)

getTickLimit(height) == Larger(2, Smaller(11, Ceil(height, 2 * FontSize)))

Spacing(limits, maxTicks) ==
  niceNum(niceNum(limits.max - limits.min, 1, FALSE), maxTicks - 1, TRUE)

\* generateTicks(), smallest first.
generateTicks(limits, maxTicks) ==
  LET spacing == Spacing(limits, maxTicks)
      first == limits.min \div spacing
      last == Ceil(limits.max, spacing)
  IN  [j \in 1..(last - first + 1) |-> (first + j - 1) * spacing]

\* buildTicks() of the vertical axis, the highest value first.
buildTicks(chart, height) ==
  Reverse(generateTicks(DataLimits(chart), getTickLimit(height)))

\* Ticks.formatters.linear: a decimal where the ticks or the value have one.
Decimals(ticks, v) == v # 0 /\ (ticks[1] - ticks[2] < 10 \/ v % 10 # 0)
TickText(ticks, v) ==
  LET magnitude == IF v < 0 THEN -v ELSE v IN
  TextWidth((IF v < 0 THEN 1 ELSE 0) + Digits(magnitude \div 10)
            + (IF Decimals(ticks, v) THEN 2 ELSE 0))
=============================================================================
