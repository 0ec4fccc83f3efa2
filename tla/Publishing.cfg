CONSTANTS
    Open = "open"
    Lent = "lent"
    Committed = "committed"
    Final = "final"
    Published = "published"
    Decided = "decided"
    Undecided = "undecided"
    Holder = "holder"
    Document = "document"
    Quote = "quote"
    Paragraph = "paragraph"
    Heading = "heading"
    Definition = "definition"
    Text = "text"
    Emphasis = "emphasis"
    Families <- MCFamilies
SPECIFICATION Spec
CHECK_DEADLOCK FALSE
INVARIANTS
    PublishContinues
    NothingLost
