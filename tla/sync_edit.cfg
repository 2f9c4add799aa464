CONSTANTS
    root = root
    sub = sub
    std = std
    out = out
    part = part
    block = block
    other = other
    draft = draft
    t1 = t1
    t2 = t2
    Garbled = Garbled
    Gone = Gone
    Closed = Closed
    Files = {block, other}
    Drafts = {draft}
    Texts = {t1, t2}
    Folders <- MCFolders
    Root = root
    FolderOf <- MCFolderOf
    Above <- MCAbove
    LibraryOrder <- MCLibraryOrder
    Standards <- MCStandards
    Projects = {}
    Manifests <- EditManifests
    Movable = {std}
    Written = {block, other}
    Openable = {block, other, draft}
    Saves = TRUE
    MaxEvents = 1
    MaxInbox = 1
SPECIFICATION Spec
INVARIANTS
    ForeignFilesAreLeftOut
    LibraryFilesAreNotTheWorkspaces
    FollowedUnlessParted
PROPERTIES
    TextsChangeByTheirOwnEvents
    DraftsStay
    OnlyOwnFilesEnter
CONSTRAINT FewAtATime
SYMMETRY TextsAlike
CHECK_DEADLOCK FALSE
