CONSTANTS
  MaxPages = 3
  MaxBlockRetries = 1
  MaxSolves = 2
  ResultsPerPage = 2
  MaxResults = 3
  Timeout = 3
  PollInterval = 2
  MaxLatency = 1
SPECIFICATION FairCrawlSpec
INVARIANTS CrawlTypeOK RetriesBounded AttemptsWithinPages ItemsWithinPages EmptyMeansBothQueries SolveInTime
PROPERTIES FreshRequestsAreNew CrawlEnds ImplementsCrawl
CHECK_DEADLOCK FALSE
