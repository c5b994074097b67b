SPECIFICATION IngestionSpec
CONSTANTS
  Slots = {s1, s2}
  Outcomes <- MCOutcomes
  MaxDocuments = 2
  EmbedBatchSize = 2
  Outages = TRUE
  Target = 5
  Overlap = 2
INVARIANTS ReadySearchable
PROPERTIES UploadReplaces ProcessingEnds
