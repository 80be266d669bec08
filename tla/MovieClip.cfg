SPECIFICATION FairSpec
CONSTANTS
  Chars = {1, 2, 3, 4, 5}
  StaticOffset <- MCStaticOffset
  NoRatio = NoRatio
  Timelines <- MCTimelines
  ScriptDepths <- MCScriptDepths
  MaxScripts = 3
  Spare = 2
INVARIANTS
  TypeOK
  DepthsSound
PROPERTIES
  
  RestoreMatchesTimeline
  UnloadedGo
