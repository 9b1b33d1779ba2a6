CONSTANTS
  mine = mine
  c = c
  d = d
  theirs = theirs
  ap = ap
  aq = aq
  guest = guest
  file = file
  turns = turns
  bind = bind
  export = export
  trimmed = trimmed
  said = said
  next = next
  note = note
  session = session
  project = project
  fact = fact
  Profiles = {mine, theirs}
  Actors = {ap, aq, guest}
  NoActor = NoActor
  Derived <- MCDerived
  Guests = {guest}
  Sources = {file, turns, bind, export}
  Owner <- MCOwner
  Healths = {"healthy", "degraded", "unauthorized"}
  Readable = {file, turns, bind, export}
  Overflow = {file}
  BindingOf <- MCBindingOf
  Later = {bind, export}
  Spoken = {next}
  Imported = {note}
  Events = {trimmed, said, next, note}
  SourceOf <- MCSourceOf
  Trimmed = {trimmed}
  Doubtful = {said}
  Sessions = {session}
  SessionSource <- MCSessionSource
  ProjectOf <- MCProjectOf
  NoSession = NoSession
  NoProject = NoProject
  Projects = {project}
  Memories = {fact}
  Author <- MCAuthor
  Support <- MCSupport
  ScopeOf <- MCScopeOf
  Wide = Wide
  Limit = 2
  MaxChanges = 2
  Savers = {c, d}
  NoSaver = NoSaver
  Keys = {"db_path", "sync_turn_policy", "writeback_mode"}
  Saves <- MCSaves
  Postures <- MCPostures
  HighSignal = {next}
SYMMETRY MCSymmetry
SPECIFICATION ProviderSpec
CHECK_DEADLOCK FALSE
INVARIANTS
  ProviderTypeOK
  ReadsBackItsWrite
  ProfilesStayApart
  IndexServesWhatRebuildWould
  OkPacketIsCurrent
PROPERTIES
  SavesKeepSettings
