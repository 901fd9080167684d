CONSTANT MaxTags = 5
SPECIFICATION Spec
INVARIANT ParserTakesTheRightTemplates
CHECK_DEADLOCK FALSE
