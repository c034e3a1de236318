CONSTANTS
    b1 = b1
    b2 = b2
    b3 = b3
    Bssid = {b1, b2, b3}
    NoBssid = NoBssid
    Entry = {1, 2}
    Name <- Names
    Channel = {1}
    Heard <- Air
    Mode = {"INFRA", "ADHOC"}
    Hidden = Hidden
    modulation = {"CCK", "OFDM"}
    ScanAge = 1
    Wrap = 5
    MaxAge = 2
SPECIFICATION Spec
INVARIANTS NetworksListedOnce TrafficMapIsRead
PROPERTIES ExpiresTheOldest LearnedNamesStay JoinsWhatMatches
