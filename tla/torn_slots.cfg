SPECIFICATION Spec
CONSTANTS
  MaxEdits = 3
  MaxJobs = 0
  Commands = {}
  Outcomes = {TRUE, FALSE}
PROPERTIES ResumeKept
