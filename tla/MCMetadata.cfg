CONSTANTS
  DynamicTargets <- MCDynamicTargets
  DynamicEntryMax = 6
  DynamicStringMax = 12
  DynamicCarrierMax = 3
  SearchRecords = 2
  SearchBytes = 3
  Canary <- MCSymbol
  Targets <- MCTargets
  PlainTables <- MCPlainTables
  PlainNotes <- MCPlainNotes
  CarrierMax = 2
  CarrierScanMax = 96
  ContributorMax = 3
  NoteMax = 2
  NoteScanMax = 3
  DescScanMax = 24
  EntryMax = 3
  FeatureType = 2
SPECIFICATION MetadataSpec
INVARIANTS
  EvidenceOfTheTable
  ReadsInside
  NothingTwice
  EvidenceOfTheNotes
  AcceptsExactlyTheReadable
