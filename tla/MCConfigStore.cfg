SPECIFICATION Spec
CONSTANTS
    Entries = {"interval", "bind"}
    Values <- MCValues
    Unset = "unset"
    Default <- MCDefault
    Interval = "interval"
    Off = "off"
    UserThemes = {"mine", "yours"}
    NoTheme = "none"
INVARIANTS TypeOK EndStoresAll
PROPERTIES StoreImplements AloneIsWhole ThemeKept DirtyIsSaved
