SPECIFICATION Spec

CONSTANTS
    load = load
    step = step
    Load = Load
    Load2 = Load2
    Stars = Stars
    Blank = Blank
    Words = {load, step}
    StepWord = step
    Labels = {Load, Load2, Stars}
    Slug <- LabelSlugs
    MaxSteps = 3
    MaxUids = 4
    MaxPosts = 2

CHECK_DEADLOCK FALSE

INVARIANTS
    FormTypeOK
    UidsDistinct
    KeysCollideOnlyThroughSuffix
    OneWorkflowPerAnswer
