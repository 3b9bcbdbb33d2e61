SPECIFICATION Spec
CONSTANTS
  Requests = {r1}
  Sources = {"spotify", "musixmatch", "musixmatch-word"}
  Finders = {"spotify", "musixmatch-word"}
  Prefs <- AnyOrMusixmatch
  SpotifyShownAs = "musixmatch"
  Calls <- AllWays
INVARIANTS
  HonoursPreference
  FoundIsKept
