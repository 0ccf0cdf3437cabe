----------------------------- MODULE MCDrawing -----------------------------
EXTENDS Drawing

\* The page's colour, and as others could be written in the template.
Hex(channels) == [form |-> "hex", channels |-> channels, alpha |-> {}]
Palette == <<Hex(<<0, 255, 255>>),
             [form |-> "short", channels |-> <<15, 9, 3>>, alpha |-> {}],
             [form |-> "rgb", channels |-> <<300, 120, -20>>, alpha |-> {400}]>>
Wide == {Hex(<<r, g, b>>) : r, g, b \in {0, 90, 255}}
        \union {[form |-> form, channels |-> <<200, 40, 60>>, alpha |-> {100}] :
                   form \in {"percent", "hsl", "transparent", "pattern"}}

Report(data, characters, names, stack) ==
  [data |-> data, labels |-> [i \in DOMAIN characters |-> TextWidth(characters[i])],
   names |-> [d \in DOMAIN names |-> TextWidth(names[d])], stack |-> stack,
   fill |-> Palette, title |-> FALSE, hidden |-> [d \in DOMAIN data |-> FALSE]]

\* One dataset, as the report makes it: few bars and its 21, counts that begin
\* far above 0, and none at all; labels as short as its times and longer ones.
Many == [i \in 1..21 |-> 10 * ((i * i * 7) % 99)]
Alone == {Report(<<data>>, [i \in DOMAIN data |-> 8], <<18>>, <<NoStack>>) :
            data \in {<<0>>, <<30>>, <<0, 70>>, <<1210, 1200, 1260>>, <<90, 0, 10>>, Many}}
         \union {Report(<<Many>>, [i \in 1..21 |-> length], <<18>>, <<NoStack>>) :
                    length \in {2, 20}}

\* One bar, in all colours.
Coloured == {[Report(<<<<30>>>>, <<8>>, <<18>>, <<NoStack>>) EXCEPT !.fill = <<colour>>] :
               colour \in Wide}

\* Two and three, with names in one line or several, side by side or stacked.
Together == {Report(data, <<14, 3, 7>>, names, stack) :
  data \in {<<<<10, 0, 30>>, <<50, 50, 0>>, <<20, 10, 10>>>>,
            <<<<9980, 20, 30>>, <<10, 10, 10>>, <<0, 10, 0>>>>},
  names \in {<<3, 3, 3>>, <<18, 9, 9>>, <<30, 2, 2>>},
  stack \in {<<NoStack, NoStack, NoStack>>, <<"s", NoStack, "s">>, <<"s", "s", "s">>}}

MCReports == Alone \union Coloured \union Together
\* The page's container, narrow and wide, and as a style sheet could limit it.
Place(client, own, around, outer, ratio) ==
  [client |-> client, padding |-> 32, own |-> own, around |-> around, outer |-> outer,
   ratio |-> ratio, left |-> 8 + 16, top |-> 500, edge |-> 0]
Pixels(n) == {[percent |-> FALSE, amount |-> n]}
Percent(n) == {[percent |-> TRUE, amount |-> n]}
MCPlaces ==
  {Place(432, {}, {}, 920, 100), Place(1600, Percent(50), {}, 1600, 200),
   [Place(920, Pixels(300), {}, 920, 150) EXCEPT !.edge = 4],
   [Place(332, {}, Percent(30), 1000, 100) EXCEPT !.top = -40]}
=============================================================================
