SPECIFICATION FairSpec
CONSTANTS
    TTYs = {"usb0", "usb1"}
    Radios = {"rtl0"}
    Commands = {"cmd_2"}
    Files = {"stdin"}
    Things <- DonglesPhoneStick
    Nothing = Nothing
    Unknown = "unknown"
    NoId = ""
    Configs <- AllConfigs
    AlarmInterval = 1

    
PROPERTIES
    PluggedIsFound
    MissingIsReported
    LastDeviceLostExits
