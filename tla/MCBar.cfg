CONSTANTS
  Customers = {c1, c2}
  Bartenders = {b1, b2}
  NBottles = 2
  Rounds = 1
  Drinks <- Beers
  GoHome = gohome
  NoThread = nobody
SPECIFICATION BarSpec
INVARIANTS   ClosesClean DosesAddUp
 
\* run_bar returns: the bar does stop.
CHECK_DEADLOCK FALSE
