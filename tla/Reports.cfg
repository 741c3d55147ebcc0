SPECIFICATION ReportsSpec
CONSTANTS
  Ids = {q1, q2, raw}
  Stamps = {t1, t2}
  Threshold = 1
  Buffer = 2
  Lines = 2
  MaxRounds = 5
INVARIANTS
  AlarmMeansNews
  AlertShowsItsCause
PROPERTY
  NewsSurvivesOutage
