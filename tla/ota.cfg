\* The update over the air: three links, two pages of two packets, the first two
\* packets kept back, versions up to 2.
SPECIFICATION Spec
CONSTANTS
  Links = {updater, phone, watch}
  Updater = updater
  same = same
  later = later
  Images = {factory, same, later}
  Factory = factory
  VersionOf <- MCVersionOf
  MaxVersion = 2
  Pages = 2
  PerPage = 2
  Held = 2
  Blank = Blank
  Mixed = Mixed
SYMMETRY OtherLinks
INVARIANTS TypeOK Bootable Undisturbed
PROPERTIES Installed RunningUntouched
