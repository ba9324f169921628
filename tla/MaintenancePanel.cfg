CONSTANTS
  None = None
  Host = h1
  Tasks = {t1, t2}
  Others = {t1}
  Outcomes = {"succeeded"}
  MaxElsewhere = 2
  MaxLog = 2
  Page = 1
  ListPage = 1
SPECIFICATION MCSpec
INVARIANTS
  PagesLeaveNoGap
  EnabledMeansSettled
  DetailIsLog
PROPERTIES
  ControlsReturn
  DetailCatchesUp
