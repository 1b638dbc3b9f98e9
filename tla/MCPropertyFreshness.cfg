CONSTANTS
    f1 = f1
    y1 = y1
    v1 = v1
    v2 = v2
    Blank = Blank
    LiveFields <- MCLive
    CanonicalFields <- MCLive
    SettingFields = {}
    PropertyValues <- MCValues
    Pushers = {"cloud_mqtt", "ble"}
    Window = 1
    OverrideTTL = 2
SPECIFICATION PfSpec
PROPERTIES ReadIsMerged
