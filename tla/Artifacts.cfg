\* Two exports at a time, both download scripts, two runs among them.
SPECIFICATION FairSpec
CONSTANTS
  Exporters = {"export1", "export2"}
  MaxJobs = 2
INVARIANTS
  CorpusIsOneExport
  ServedWeightsAreVerified
PROPERTIES
  FetchesDoNoHarm
  CorpusHeals
