\* A host spelled with two trailing dots reaches a validated result.
SPECIFICATION Spec
CONSTANTS
    Kind <- MCKind
    Class <- MCClass
    Version6 = {"g2"}
    Configs <- MCConfigs
    Urls <- MCUrls
    Answers <- MCAnswers
    Forgeries <- MCForgeries
INVARIANTS
    InvalidNamesMatchNothing
