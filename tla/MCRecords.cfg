SPECIFICATION Spec
CONSTANTS
    loan = loan
    member = member
    amount = amount
    borrower = borrower
    digits = digits
    letters = letters
    yes = yes
    spaced = spaced
    number = number
    True = True
    False = False
    object = object
    Threads = {t1, t2}
    RecordIds = {r1, r2, r3}
    EntityKeys = {loan, member}
    FieldKeys = {amount}
    LinkKeys = {borrower}
    EntityOf <- MCEntityOf
    From <- MCFrom
    To <- MCTo
    Cardinality <- MCCardinality
    Types = {"text", "number", "either", "letters", "spaced"}
    Options = {digits, letters, spaced}
    OptionsOf <- MCOptionsOf
    WithOptions <- MCWithOptions
    Stripped <- MCStripped
    Uses <- MCUses
    Values <- MCValues
    Blank = Blank
    Coerce <- MCCoerce
    Specs <- MCSpecs
    NoValue = NoValue
    Refused = Refused
    NoRecord = NoRecord
    NoThread = NoThread
SYMMETRY Symmetry
INVARIANTS OneToOneIsUnique LinksHaveLabels BacklinksAreSingle ImpactIsTrue
PROPERTIES WritesFitDefinition
