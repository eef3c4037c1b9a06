CONSTANTS
  Names <- MCNames
  Versions <- MCSlashVersions
  DefaultVersion <- MCDefaultVersion
  Bodies <- MCBodies
  InitPaths <- MCSlashInitPaths
  InitContents <- Content
  VerSegs <- MCSlashVerSegs
  NameSegs <- MCNameSegs
  JsSegs <- MCJsSegs
  Rank <- MCSlashRank
  RankBound <- MCSlashRankBound
  MaxRuns = 2
  NoFile = NoFile
  Torn = Torn
  None = None
  NoManifest = NoManifest
SPECIFICATION Spec
INVARIANT RerunIsNoop
