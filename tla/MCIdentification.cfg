\* Any descriptions, any chip, any programmer, any exchange failing.
SPECIFICATION Spec
CONSTANTS
  Word = 2000000000
  Firmwares <- MCFirmwares
  Listings <- MCListings
  Hertz <- MCHertz
INVARIANTS
  NamesTheChip
  DescribedByItsFile
  ReportIsTheProgrammers
  ToldAListedRate
