SPECIFICATION Spec
CONSTANTS
    Elements <- MCElements
    SourceNames <- MCSourceNames
    HeaderNames <- MCHeaderNames
    ValidUrls <- MCValidUrls
    GithubUrls <- MCGithubUrls
    BadVersions = {}
    Specifications <- MCSpecifications
    SubDirectories <- MCSubDirectories
    Revisions <- MCRevisions
    TagContents <- MCTagContents
    Calls <- MCCalls
    Remotes <- MCRemotes
    Branches <- MCBranches
    MaxFailures = 1
INVARIANTS TypeOK VerifyRight InstalledSame StrictSame DepsKnown
CHECK_DEADLOCK FALSE
