SPECIFICATION FairSpec
CONSTANTS
  MaxEdits = 2
  MaxJobs = 1
  Commands = {"save", "load", "restore", "import", "reset"}
  Outcomes = {TRUE}
INVARIANTS TypeOK NextIsNewest
PROPERTIES ResumeKept ResetSticks EditsResume
