------------------------------- MODULE MCBar -------------------------------
(* The drinks Bar.tla is checked with; its other constants are in the cfgs. *)
EXTENDS Bar

\* Drinks that share no bottle, one or two, asked for in either order, with
\* doubles and with slots left empty.
Beers == {<<2, 1, 1>>, <<1, 0, 2>>, <<1, 1, 0>>, <<0, 2, 0>>}
=============================================================================
