SPECIFICATION Spec
CONSTANTS
  Tools = {p1, p2}
  Milestones <- MCMilestones
  TodoIds <- MCTodoIds
  FileOf <- MCFileOf
  MilestoneOf <- MCMilestoneOf
  Exercised <- MCExercised
  InitialSource <- MCInitialSource
  NoFile = NoFile
  Cut = Cut
SYMMETRY Symmetry
INVARIANTS TypeOK DoneIsImplemented RecordKept CleanedStaysDone CompleteWasTested
