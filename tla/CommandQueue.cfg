SPECIFICATION Spec
CONSTANTS
  halt = halt
  resume = resume
  order = order
  update = update
  slide = slide
  nudge = nudge
  form = form
  reload = reload
  forged = forged
  NoCommand = NoCommand
  NoCap = NoCap
  Torn = Torn
  Ruined = Ruined
  Commands <- MCCommands
  Request <- MCRequest
  Unsigned <- MCForged
  DefaultCap = 5
  StartCap = 3
  Environments <- MCEnvironments
  ReloadTicks = 1
  MaxSubmitted = 2
  MaxCrashes = 2
INVARIANTS
  InOrder
  Truthful
PROPERTY
  ReadIsSettled
