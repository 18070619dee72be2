SPECIFICATION QSpec
CONSTANTS
    questions = questions
    entities = entities
    plain = plain
    asking = asking
    good = good
    better = better
    name = name
    hours = hours
    reply = reply
    crm_member = crm_member
    text = text
    number = number
    Missing = Missing
    Broken = Broken
    Empty = Empty
    NotEditable = NotEditable
    Agents = {a1}
    Files = {questions, entities}
    Others = {plain, asking}
    Contents = {Empty, Broken, good, better}
    Loads <- LoadsConfig
    NotCopied = NotCopied
    Handlers = {h1}
    Businesses = {b1}
    Questions = questions
    Asked <- MCAsked
    Prompts <- MCPrompts
    Answers <- MCAnswers
    NoBusiness = NoBusiness
INVARIANTS AppliedOnBase
