CONSTANTS
    d1 = d1
    d2 = d2
    i1 = i1
    i2 = i2
    Dialogs <- MCDialogs
    Infos <- MCInfos
    IgnoredInfos <- MCIgnoredInfos
    IgnoredKeys <- MCIgnoredKeys
    Rejectable = {d1}
    WithSemiwindow = {d1}
    IgnoreKeyPress = {}
    Buttons <- MCButtons
    AcceptOnRight = {d1}
    RejectOnLeft = {d1}
    DisableOnClick = {d1}
    OptionDialogs = {d2}
    Destroyable = {d1, d2}
SPECIFICATION GuiSpec
CHECK_DEADLOCK FALSE
INVARIANTS TypeOK SemiWindowOnlyInExec SpellMarksCurrent NoMarksWhenHidden FilterButtonsAccounted
PROPERTY MarkedCheckLaidOut
