\* Results issued under one policy, forged or not, are pinned under another.
SPECIFICATION Spec
CONSTANTS
    Kind <- MCKind
    Class <- MCClass
    Version6 = {"g2"}
    Configs <- MCConfigs
    Urls <- MCUrls
    Answers <- MCAnswers
    Forgeries <- MCForgeries
INVARIANTS
    OnlyListedAuthorities
    AddressFitsHost
    PinnedAsResolved
    GenuineResultsPass
    RecordsStandUp
