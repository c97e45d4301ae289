SPECIFICATION MCSpec
CONSTANTS
    Nil = Nil
    s1 = s1
    s2 = s2
    s3 = s3
    v1 = v1
    v2 = v2
    short = short
    solid = solid
    Secrets = {s1, s2, s3}
    Vaults = {v1, v2}
    Loaders = {l1, l2}
    Contents <- SomeContents
    Length <- SomeLengths
    Classes <- SomeClasses
    Estimate <- SomeEstimates
    MaxChanges = 1
    MaxInputs = 1
    MaxErrors = 1
    Page = 1
    Letters <- SomeLetters
    Fields <- SomeFields
    KeyText <- SomeKeyText
    FieldOf <- SomeFieldOf
    HealthTexts <- SomeHealthTexts
    Searches <- SomeSearches
    Class <- SomeClass
    Charset <- SomeCharset
    Wanted = {0, 3, 4, 5, 6, 7}
    DEFAULT_GENERATED_PASSWORD_LENGTH = 5
    MIN_PASSWORD_LENGTH = 4
    MAX_PASSWORD_LENGTH = 6
    MaxWord = 7
    Callers = {1, 2}
    max_attempts = 3
    lock_duration_secs = 2
    window_duration_secs = 2
    Gone = Gone
    MaxInstant = 5
    Ordered <- InOrder
    Typed = {"a", "b"}
    Blank = Blank
    Nowhere = Nowhere
    Savings = {1, 2}
    MaxOpened = 2
    MaxActs = 4
INVARIANTS
    PagesTrue
    EditsExact
    SearchTrue
    PasswordsEarned
    AddressHeld
PROPERTIES
    SavedAsShown
CHECK_DEADLOCK FALSE
