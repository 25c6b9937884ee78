SPECIFICATION Spec
CONSTANTS
  MaxEdits = 2
  MaxJobs = 1
  Commands = {"load"}
  Outcomes = {TRUE}
PROPERTIES LoadReverts
