SPECIFICATION Spec
CONSTANTS
    s1 = s1
    s2 = s2
    locale = locale
    app = app
    Sessions = {s1, s2}
    Locales = {locale}
    Texts = {"x", "y"}
    Actors = {"a"}
    Clients = {app}
    Home <- OneHome
    AppVersion <- OldVersion
    Floors = {0, 1, 2}
    MaxInt = 1
    MaxReleases = 2
    None = None
PROPERTIES
    ReleasesAppend
    ReleasesSettled
    MergeShipsItself
    AnswersAreCurrent
    
