CONSTANT MaxRequests = 2
SPECIFICATION CompressFairSpec
PROPERTY CloseReturns
