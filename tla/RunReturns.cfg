SPECIFICATION Spec
CONSTANT Feeds <- OneFeed
PROPERTY RunReturns
