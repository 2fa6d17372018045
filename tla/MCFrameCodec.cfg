SPECIFICATION Spec
CONSTANTS
  Ids <- IdSet
  DataLens <- Lens
  Seqs <- SeqSet
  Masks <- MaskSet
  FilterIds <- FilterIdSet
INVARIANTS
  RoundTrip
  PayloadMatchesDlc
  ReceivedValid
  FilterMeaning
