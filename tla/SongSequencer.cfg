SPECIFICATION LiveSpec
CONSTANTS
  PatternChannels = 2
  SongChannels = 2
  Block = 2
  BarSamples = 6
  Timeline = 14
  Seeks = {0, 7}
  Inputs = {"start", "stop", "pause", "resume"}
  Programs <- MCPrograms
  Edits <- MCEdits
INVARIANT PlayersAccounted
PROPERTIES PlayersFollowSong RollsComplete SlidesLand SongComesRound
CHECK_DEADLOCK FALSE
