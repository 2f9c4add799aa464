CONSTANTS
    root = root
    sub = sub
    std = std
    out = out
    part = part
    block = block
    other = other
    draft = draft
    t1 = t1
    t2 = t2
    Garbled = Garbled
    Gone = Gone
    Closed = Closed
    Files = {part}
    Drafts = {}
    Texts = {t1, t2}
    Folders <- MCFolders
    Root = root
    FolderOf <- MCFolderOf
    Above <- MCAbove
    LibraryOrder <- MCLibraryOrder
    Standards <- MCStandards
    Projects = {}
    Manifests <- WatchManifests
    Movable = {sub}
    Written = {part}
    Openable = {}
    Saves = FALSE
    MaxEvents = 2
    MaxInbox = 0
SPECIFICATION FairSpec
INVARIANTS
    TypeOK
    BatchIsVetted
    EachLibraryFileIsItsLibrarys
    SettledFilesAreTheDisks
PROPERTY
    FilesAreTaken
CHECK_DEADLOCK FALSE
