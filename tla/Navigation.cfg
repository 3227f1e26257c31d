CONSTANT MaxDepth = 9
SPECIFICATION Spec
INVARIANTS TypeOK LegacyUnreachable PagesInOrder FinalOnTop
