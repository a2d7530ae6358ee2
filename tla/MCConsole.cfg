SPECIFICATION ConsoleSpec
CONSTANTS
  Sites <- MCSites
  Beginnings <- MCBeginnings
  Locales = {"en", "it", "es"}
  Months = 2
  Days = 3
  Today = 5
  Ago = 2
  Charts = {"traffic", "registered_users"}
  Lists = {"last_logins"}
  Headings = {"traffic_graph"}
  MaxToggles = 2
  MaxLists = 2
  MaxAsks = 2
  MaxSpins = 3
  Roles = {"stats_viewer", "users_browser"}
  MaxUpdates = 2
  MaxCloses = 2
INVARIANTS ConsoleTypeOK GraphsLand DatesAsPicked BoxFits SpinnerTells RolesAsChosen
