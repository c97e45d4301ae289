\* One save at a time; the load of the page may fail.
SPECIFICATION FormSpec
CONSTANTS
    Names = {"n1"}
    Emails = {"e1"}
    Languages = {"fr", "en"}
    Saves = {1}
    Empty = Empty
    MaxInputs = 2
    MaxErrors = 1
PROPERTIES
    OnlyTheLanguage
CHECK_DEADLOCK FALSE
