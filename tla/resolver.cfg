CONSTANTS
    work = work
    one = one
    two = two
    other = other
    fetched = fetched
    inside = inside
    std = std
    None = None
    Folders = {work, one, two, other, fetched, inside, std}
    Workspace = work
    Standards = {std, None}
    Names = {1, 2, 3}
    NameOf <- MCNameOf
    FetchedIn <- MCFetchedIn
    Projects <- MCProjects
    MaxDepth = 8
SPECIFICATION FairSpec
INVARIANT
    ResolvedAsAsked
PROPERTY
    WalkEnds
CHECK_DEADLOCK FALSE
