SPECIFICATION FairSpec
CONSTANTS
  Requests = {r1, r2}
  Sources = {"apple"}
  Finders = {"apple"}
  Prefs <- Any
  SpotifyShownAs = "apple"
  Calls <- PlainOrCachedRaw
PROPERTIES
  SavedInTheEnd
  ServedInTheEnd
