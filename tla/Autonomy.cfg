CONSTANTS
  o1 = o1
  a1 = a1
  s1 = s1
  s2 = s2
  tRecord = tRecord
  tAsk = tAsk
  tDeny = tDeny
  k1 = k1
  title = title
  Sessions = {s1, s2}
  Objectives = {o1}
  Assignments = {a1}
  ObjectiveOf <- MCObjectiveOf
  Statuses = {"open", "closed"}
  Labels = {title}
  NoAssignment = NoAssignment
  NoUpdate = NoUpdate
  Ticks = {tRecord, tAsk, tDeny}
  KeyOf <- MCKeyOf
  ActionOf <- MCActionOf
  TickObjective <- MCTickObjective
  TitleOf <- MCTitleOf
  NoTask = NoTask
  MaxEvents = 3
  MaxSecond = 1
SYMMETRY SessionSymmetry
SPECIFICATION Spec
INVARIANTS
  AutonomyTypeOK
  LogTellsCouncil
  OneTickPerKey
  OutcomeIsOnRecord
  OnlyAllowedActionsAct
