SPECIFICATION Spec
CONSTANTS
  Keys = {"song"}
  Platforms = {"applemusic", "lastfm"}
  Urls = {u1, u2}
  NoUrl = NoUrl
  Times = {0, 1, 2, 3, 4}
  ImageTtl = 2
  NoImage = NoImage
  NoRow = NoRow
  Malformed = Malformed
  Sources <- MCSources
  Scrapers = {"applemusic"}
  Absent = Absent
  MaxItems = 2
  MatchGenerosity = 60
  SubstringFloor = 3
  Letters = {"a", "b"}
  MaxText = 4
  Base = 3
  Width = 2
  Bar = 1
  Dash = 2
  Rejected = Rejected
  Room = 3
  Thrown = Thrown
  MaxRow = 11
  Slowness = 0
SYMMETRY AnyUrls
INVARIANT TrustedForTtl
