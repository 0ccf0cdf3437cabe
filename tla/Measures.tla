------------------------------ MODULE Measures ------------------------------
(***************************************************************************)
(* What the modules of the drawing share: lengths on the canvas are in     *)
(* 1/60 px, and a quotient that is no such length is rounded down.  Values *)
(* of the data are in tenths, so that the ticks between two whole numbers  *)
(* are exact.                                                              *)
(***************************************************************************)
EXTENDS Integers, Sequences, FiniteSets, FiniteSetsExt, SequencesExt

Px == 60

\* The member of a set of one: what is computed once and used often.
Only(S) == CHOOSE x \in S : TRUE

\* Math.max and Math.min.
Larger(a, b) == IF a >= b THEN a ELSE b
Smaller(a, b) == IF a <= b THEN a ELSE b
\* Math.ceil(a / b), and Math.round(a / b) of pixels.
Ceil(a, b) == -((-a) \div b)
\* Math.round(n / d).
Rounded(n, d) == (2 * n + d) \div (2 * d)
RoundPx(a, b) == Px * ((2 * a + b * Px) \div (2 * b * Px))

\* The font of the page, as wide as it is for every character.
FontSize == 12 * Px
TextWidth(characters) == 7 * Px * characters
Digits(n) == 1 + Cardinality({e \in 1..6 : 10^e <= n})

\* Math.sin and Math.cos of whole degrees, in thousandths.
Sine == [d \in 0..50 |-> <<
   0, 17, 35, 52, 70, 87, 105, 122, 139, 156, 174, 191, 208, 225, 242,
   259, 276, 292, 309, 326, 342, 358, 375, 391, 407, 423, 438, 454,
   469, 485, 500, 515, 530, 545, 559, 574, 588, 602, 616, 629, 643,
   656, 669, 682, 695, 707, 719, 731, 743, 755, 766>>[d + 1]]
Cosine == [d \in 0..50 |-> <<
   1000, 1000, 999, 999, 998, 996, 995, 993, 990, 988, 985, 982, 978,
   974, 970, 966, 961, 956, 951, 946, 940, 934, 927, 921, 914, 906,
   899, 891, 883, 875, 866, 857, 848, 839, 829, 819, 809, 799, 788,
   777, 766, 755, 743, 731, 719, 707, 695, 682, 669, 656, 643>>[d + 1]]

\* A box [left, right, top, bottom], and what it contains.
Rectangle(left, top, width, height) ==
  [left |-> left, right |-> left + width, top |-> top, bottom |-> top + height]
Within(inner, outer) ==
  /\ outer.left <= inner.left /\ inner.right <= outer.right
  /\ outer.top <= inner.top /\ inner.bottom <= outer.bottom
Apart(a, b) == \/ a.right <= b.left \/ b.right <= a.left
               \/ a.bottom <= b.top \/ b.bottom <= a.top
Covers(box, x, y) == /\ box.left <= x /\ x <= box.right
                       /\ box.top <= y /\ y <= box.bottom
=============================================================================
