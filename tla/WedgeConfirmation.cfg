\* The same prober and scraper, asked whether the second confirmation is a second scrape.
SPECIFICATION Spec
CONSTANTS
    Weight <- MCWeight
    TripScore = 2
    InitialOpen = 1
    MaxOpen = 1
    ProbeInterval = 1
    ProbesToClose = 2
    Probation = 1
    MaxLag = 0
    Never = Never
    Window = 3
    ScrapeTimeout = 1
PROPERTY ConfirmedOnNextScrape
