SPECIFICATION Spec
CONSTANTS
  Bases = {home, away}
  Goals = {g, h}
  Owners = {home}
  Exporters = {p, q}
  Moments = {0, 1}
  Deadlines = {1}
  Never = Never
  Here = Here
  NoFile = NoFile
  Empty = Empty
  Forgotten = {away}
  MaxHandoffs = 1
  MaxLines <- ShortLogs
SYMMETRY Symmetry
CHECK_DEADLOCK FALSE
INVARIANTS
  OneOfEach
  DeliveriesAreHonest
