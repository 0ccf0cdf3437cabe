------------------------------ MODULE Colours ------------------------------
(***************************************************************************)
(* The colours of Chart.js (chartjs-color and color-convert): how a colour *)
(* that the page writes is read, what it becomes while its bar is hovered, *)
(* and the frames of the animation between two of them.  Channels are      *)
(* rounded at every conversion; an opacity is in thousandths.              *)
(***************************************************************************)
EXTENDS Measures

\* scale() of the parser, and the cap of setValues().
Clamp(n, least, most) == Smaller(Larger(least, n), most)

Opaque == 1000
Most(v) == Max(ToSet(v))
Least(v) == Min(ToSet(v))

\* rgb2hsl(): degrees and per cent; the first channel that is the largest counts.
rgb2hsl(rgb) ==
  LET max == Most(rgb)
      delta == max - Least(rgb)
      sum == max + Least(rgb)
      k == CHOOSE k \in 1..3 : rgb[k] = max /\ \A j \in 1..(k - 1) : rgb[j] # max
      turn == 120 * (k - 1) * delta + 60 * (rgb[(k % 3) + 1] - rgb[((k + 1) % 3) + 1])
      hue == IF turn < 0 THEN turn + 360 * delta ELSE turn
  IN  IF delta = 0 THEN <<0, 0, Rounded(100 * sum, 510)>>
      ELSE <<Rounded(hue, delta),
             Rounded(100 * delta, IF sum <= 255 THEN sum ELSE 510 - sum),
             Rounded(100 * sum, 510)>>

\* hsl2rgb(): t1 and t2 in ten thousandths, t3 in degrees.
hsl2rgb(hsl) ==
  LET h == hsl[1]
      s == hsl[2]
      l == hsl[3]
      t2 == IF l < 50 THEN l * (100 + s) ELSE 100 * (l + s) - l * s
      t1 == 200 * l - t2
      Turned(i) == h + 120 * (2 - i)
      t3(i) == IF Turned(i) < 0 THEN Turned(i) + 360
               ELSE IF Turned(i) > 360 THEN Turned(i) - 360 ELSE Turned(i)
      Rises(i) == CASE t3(i) < 60 -> t3(i)
                    [] t3(i) >= 60 /\ t3(i) < 180 -> 60
                    [] t3(i) >= 180 /\ t3(i) < 240 -> 240 - t3(i)
                    [] OTHER -> 0
  IN  IF s = 0 THEN [i \in 1..3 |-> Rounded(255 * l, 100)]
      ELSE [i \in 1..3 |-> Rounded(255 * (60 * t1 + (t2 - t1) * Rises(i)), 600000)]

\* setValues() of red, green and blue, and of hue, saturation and lightness, as far
\* as the other one is looked at.
FromRgb(rgb, alpha) ==
  [rgb |-> rgb, hsl |-> rgb2hsl(rgb), alpha |-> alpha, valid |-> TRUE]
FromHsl(hsl, alpha) ==
  [rgb |-> hsl2rgb(hsl), hsl |-> hsl, alpha |-> alpha, valid |-> TRUE]
\* What new Color() is when no pattern matches: black, and not valid.
Unread == [FromRgb(<<0, 0, 0>>, Opaque) EXCEPT !.valid = FALSE]

\* getRgba() and getHsla() of a colour as it is written; a channel out
\* of range is cut off, and an opacity that is not there is 1.
Read(written) ==
  LET Channels(Value(_), most) ==
        [k \in 1..3 |-> Clamp(Value(written.channels[k]), 0, most[k])]
      Byte == <<255, 255, 255>>
      alpha == IF written.alpha = {} THEN Opaque ELSE Clamp(Only(written.alpha), 0, Opaque)
      Same(v) == v
  IN  CASE written.form = "short" ->    \* #RGB
             FromRgb(Channels(LAMBDA v : 17 * v, Byte), Opaque)
        [] written.form = "hex" ->      \* #RRGGBB
             FromRgb(Channels(Same, Byte), Opaque)
        [] written.form = "rgb" -> FromRgb(Channels(Same, Byte), alpha)
        [] written.form = "percent" ->
             FromRgb(Channels(LAMBDA v : Rounded(255 * v, 100), Byte), alpha)
        [] written.form = "hsl" ->
             FromHsl(Channels(Same, <<360, 100, 100>>), alpha)
        [] written.form = "transparent" -> FromRgb(<<0, 0, 0>>, 0)
        [] OTHER -> Unread

\* saturate() and darken(), each rounded and cut off by setValues().
saturate(hsl) == [hsl EXCEPT ![2] = Smaller(100, Rounded(3 * @, 2))]
darken(hsl) == [hsl EXCEPT ![3] = Rounded(9 * @, 10)]

\* getHoverColor()
getHoverColor(c) == FromRgb(hsl2rgb(darken(saturate(c.hsl))), c.alpha)

\* mix(): this colour with the weight e / n, and the other with the rest.  The more
\* opaque of the two weighs more.
mix(c, other, e, n) ==
  LET w == 2 * e - n
      a == c.alpha - other.alpha
      below == n * Opaque + w * a
      w1 == IF w * a = -(n * Opaque) THEN <<w + n, 2 * n>>
            ELSE <<w * Opaque + a * n + below, 2 * below>>
      Channel(k) == Rounded(w1[1] * c.rgb[k] + (w1[2] - w1[1]) * other.rgb[k], w1[2])
  IN  FromRgb([k \in 1..3 |-> Channel(k)],
              Rounded(e * c.alpha + (n - e) * other.alpha, n))

\* interpolate() of a property that is a colour, e frames of n after the start.
Interpolated(origin, target, e, n) ==
  IF e = n \/ ~origin.valid \/ ~target.valid THEN target ELSE mix(target, origin, e, n)
=============================================================================
