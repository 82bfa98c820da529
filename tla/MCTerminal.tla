------------------------------ MODULE MCTerminal ------------------------------
(* Small instances of Terminal: screens of a few cells, so that every edge is *)
(* one or two steps away, and for each run the control sequences it is about. *)
EXTENDS Terminal

Screens(dimensions) == {[rows |-> d[1], cols |-> d[2]] : d \in dimensions}

GlyphSizes == Screens({<<3, 1>>, <<1, 3>>, <<2, 2>>})
TallSizes == Screens({<<3, 1>>, <<1, 2>>})
OneByTwo == Screens({<<1, 2>>})
RepaintSizes == Screens({<<1, 2>>, <<2, 1>>})
RegionSizes == Screens({<<3, 1>>, <<2, 1>>})

NoLimits == {}
TrimLimits == {<<0, 9>>, <<1, 9>>, <<9, 2>>}
=============================================================================
