SPECIFICATION LiveSpec
CONSTANTS
  w1 = w1
  w2 = w2
  Workers = {w1, w2}
  Dates = {"day1", "day2"}
  Times = {"morning"}
  Places = {"kochi"}
  Zones = {"india", "gulf"}
  Home = "india"
  MaxChanges = 2
INVARIANTS ChartMatchesInputs CalculatedMeansDone
PROPERTIES ReadyIsCharted
\* MaxChanges ends the behaviours.
CHECK_DEADLOCK FALSE
