\* The kept packets are saved from byte 256 to their end: two links, two pages of
\* two packets, the first two kept back.
SPECIFICATION Spec
CONSTANTS
  Links = {updater, phone}
  Updater = updater
  same = same
  later = later
  Images = {factory, same, later}
  Factory = factory
  VersionOf <- MCVersionOf
  MaxVersion = 2
  Pages = 2
  PerPage = 2
  Held = 2
  Blank = Blank
  Mixed = Mixed
PROPERTIES SavedRange
