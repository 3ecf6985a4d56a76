CONSTANT EntryCount = 5
SPECIFICATION ListSpec
INVARIANT LinksMatchOrder
