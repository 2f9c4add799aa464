CONSTANTS
    p = p
    q = q
    r = r
    std = std
    old = old
    new = new
    config = config
    source = source
    archive = archive
    None = None
    Processes = {p, q}
    Hashes = {std, old, new}
    Standard = std
    Parts = {config, source}
    Urls = {archive}
SPECIFICATION Spec
INVARIANTS
    TypeOK
    TrustedPairsAreWhole
    LoneInstallHeals
PROPERTY
    FetchedLibrariesAreKept
SYMMETRY ProcessesAlike
