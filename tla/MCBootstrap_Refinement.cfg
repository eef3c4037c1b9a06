CONSTANTS
  Names <- MCNames
  Versions <- MCVersions
  DefaultVersion <- MCDefaultVersion
  Bodies <- MCBodies
  InitPaths <- MCInitPaths
  InitContents <- MCRefContents
  VerSegs <- MCVerSegs
  NameSegs <- MCNameSegs
  JsSegs <- MCJsSegs
  Rank <- MCRank
  RankBound <- MCRankBound
  MaxRuns = 2
  NoFile = NoFile
  Torn = Torn
  None = None
  NoManifest = NoManifest
SPECIFICATION Spec
PROPERTY AbsSpec
