---------------------------- MODULE LibraryCache ----------------------------
(***************************************************************************)
(* rk's cache of libraries, shared by every rk process on a machine:       *)
(* crates/db/src/cache.rs, install of crates/db/src/stdlib.rs, is_cached   *)
(* of crates/db/src/dependencies.rs and fetch_with of crates/fetch/src/    *)
(* lib.rs.  No lock guards it.  A process can stop at any point, and what  *)
(* it did to the cache stays.                                              *)
(*                                                                         *)
(* A library is the set of its files, in a folder named by its hash.  A    *)
(* library is written in a folder of the process's own and moved to its    *)
(* place in one step; one is deleted and read file by file.  rename is     *)
(* POSIX's: it takes the place of an empty folder and of no other.         *)
(***************************************************************************)
EXTENDS Naturals, FiniteSets

CONSTANTS
    Processes,
    Hashes,
    Standard,       \* the hash of the standard library rk is built with
    Parts,          \* the files of a library
    Urls,
    None            \* no hash, no URL, no process

Fetchable == Hashes \ {Standard}

ASSUME CacheAssumption ==
    /\ Standard \in Hashes
    /\ None \notin Hashes \cup Urls \cup Processes
    /\ Parts # {}

VARIABLES
    folders,        \* the cache: from the hashes it has to their files, from
                    \* each file to whether it is as it was written
    urls,           \* the .urls lists: the pairs of a URL and a hash
    serves,         \* [Urls -> Fetchable]: what a URL gives now
    at,             \* [Processes -> where it is]
    want,           \* [Processes -> the hash it is to read, or None]
    url,            \* [Processes -> the URL it reads or fetches, or None]
    hash,           \* [Processes -> the hash it stores, or None]
    left,           \* [Processes -> the files still to read]
    opened,         \* the removers that have the present folder open
    (* history *)
    gave,           \* the pairs of a URL and a hash it served
    missed,         \* [Processes -> whether a file it read was not there]
    lone            \* an install no other has run beside, or None

cacheVars   == <<folders, urls, opened>>
processVars == <<at, want, url, hash, left, missed>>
vars        == <<cacheVars, processVars, serves, gave, lone>>

AllWritten == [x \in Parts |-> TRUE]
Kept(h)    == h \in DOMAIN folders
Whole(h)   == Kept(h) /\ folders[h] = AllWritten
Has(h, x)  == Kept(h) /\ x \in DOMAIN folders[h]

\* is_cached
IsCached(h, u) == Kept(h) /\ <<u, h>> \in urls

Put(h, files) == folders' = [g \in DOMAIN folders \cup {h} |-> IF g = h THEN files ELSE folders[g]]

Installing(p) == want[p] = Standard /\ at[p] \notin {"idle", "read", "done"}

Init ==
    /\ folders = [h \in {} |-> AllWritten]
    /\ urls = {}
    /\ serves \in [Urls -> Fetchable]
    /\ at = [p \in Processes |-> "idle"]
    /\ want = [p \in Processes |-> None]
    /\ url = [p \in Processes |-> None]
    /\ hash = [p \in Processes |-> None]
    /\ left = [p \in Processes |-> {}]
    /\ opened = {}
    /\ gave = {<<u, serves[u]>> : u \in Urls}
    /\ missed = [p \in Processes |-> FALSE]
    /\ lone = None

Go(p, place) == at' = [at EXCEPT ![p] = place]

-----------------------------------------------------------------------------
(* What is not rk's: what a URL serves, and files of the standard          *)
(* library's copy written over by another program.                         *)

ServeAnother(u, h) ==
    /\ serves[u] # h
    /\ serves' = [serves EXCEPT ![u] = h]
    /\ gave' = gave \cup {<<u, h>>}
    /\ UNCHANGED <<cacheVars, processVars, lone>>

WriteOver(x) ==
    /\ Has(Standard, x) /\ folders[Standard][x]
    /\ Put(Standard, [folders[Standard] EXCEPT ![x] = FALSE])
    /\ lone' = None
    /\ UNCHANGED <<urls, opened, processVars, serves, gave>>

-----------------------------------------------------------------------------
(* A build wants the library of a dependency (locate), or `rk fetch        *)
(* --save` whatever a URL gives.                                           *)

\* The folder alone.
ResolveByHash(p, u, h) ==
    /\ at[p] = "idle"
    /\ want' = [want EXCEPT ![p] = h]
    /\ url' = [url EXCEPT ![p] = u]
    /\ IF Kept(h)
       THEN Go(p, "read") /\ left' = [left EXCEPT ![p] = Parts]
       ELSE Go(p, "fetch") /\ UNCHANGED left
    /\ UNCHANGED <<cacheVars, hash, missed, serves, gave, lone>>

Resolve(p, u, h) ==
    /\ at[p] = "idle"
    /\ want' = [want EXCEPT ![p] = h]
    /\ url' = [url EXCEPT ![p] = u]
    /\ IF IsCached(h, u)
       THEN Go(p, "read") /\ left' = [left EXCEPT ![p] = Parts]
       ELSE Go(p, "fetch") /\ UNCHANGED left
    /\ UNCHANGED <<cacheVars, hash, missed, serves, gave, lone>>

Save(p, u) ==
    /\ at[p] = "idle"
    /\ url' = [url EXCEPT ![p] = u]
    /\ Go(p, "fetch")
    /\ UNCHANGED <<cacheVars, want, hash, left, missed, serves, gave, lone>>

\* unpack: the hash is of what was downloaded.
Download(p) ==
    /\ at[p] = "fetch"
    /\ hash' = [hash EXCEPT ![p] = serves[url[p]]]
    /\ Go(p, "store")
    /\ UNCHANGED <<cacheVars, want, url, left, missed, serves, gave, lone>>

-----------------------------------------------------------------------------
(* store                                                                   *)

\* A fetched library has its URL noted, the standard library is read.
Stored(p) ==
    IF url[p] = None
    THEN Go(p, "read") /\ left' = [left EXCEPT ![p] = Parts]
    ELSE Go(p, "record") /\ UNCHANGED left

\* A folder that is there is left as it is; otherwise the library is written
\* in the process's own.
LookInCache(p) ==
    /\ at[p] = "store"
    /\ IF Kept(hash[p]) THEN Stored(p) ELSE Go(p, "staged") /\ UNCHANGED left
    /\ UNCHANGED <<cacheVars, want, url, hash, missed, serves, gave, lone>>

\* Written in its place, a file now and the rest after.
MoveInPlace(p) ==
    /\ at[p] = "staged"
    /\ LET there == IF Kept(hash[p]) THEN DOMAIN folders[hash[p]] ELSE {}
           rest  == Parts \ there
       IN  IF rest = {}
           THEN UNCHANGED <<folders, opened>> /\ Stored(p)
           ELSE /\ \E x \in rest : Put(hash[p], [y \in there \cup {x} |-> TRUE])
                /\ UNCHANGED <<opened, at, left>>
    /\ UNCHANGED <<urls, want, url, hash, missed, serves, gave, lone>>

\* The rename: onto no folder, or onto an empty one.
Move(p) ==
    /\ at[p] = "staged"
    /\ IF Kept(hash[p]) /\ DOMAIN folders[hash[p]] # {}
       THEN Go(p, "lost") /\ UNCHANGED <<folders, opened, left>>
       ELSE /\ Put(hash[p], AllWritten)
            /\ opened' = IF hash[p] = Standard THEN {} ELSE opened
            /\ Stored(p)
    /\ UNCHANGED <<urls, want, url, hash, missed, serves, gave, lone>>

End(p) ==
    /\ Go(p, "idle")
    /\ want' = [want EXCEPT ![p] = None]
    /\ url' = [url EXCEPT ![p] = None]
    /\ hash' = [hash EXCEPT ![p] = None]
    /\ left' = [left EXCEPT ![p] = {}]
    /\ missed' = [missed EXCEPT ![p] = FALSE]

\* The rename failed: another process's folder will do, if there is one now.
LookAgain(p) ==
    /\ at[p] = "lost"
    /\ IF Kept(hash[p])
       THEN Stored(p) /\ UNCHANGED <<want, url, hash, missed>>
       ELSE End(p)
    /\ UNCHANGED <<cacheVars, serves, gave, lone>>

\* The URL noted with the hash config.toml declares.
RecordWanted(p) ==
    /\ at[p] = "record"
    /\ urls' = urls \cup {<<url[p], want[p]>>}
    /\ IF want[p] = hash[p]
       THEN /\ Go(p, "read")
            /\ left' = [left EXCEPT ![p] = Parts]
            /\ UNCHANGED <<want, url, hash, missed>>
       ELSE End(p)
    /\ UNCHANGED <<folders, opened, serves, gave, lone>>

\* record_url, and fetch_remote's comparison with the hash that is declared.
Record(p) ==
    /\ at[p] = "record"
    /\ urls' = urls \cup {<<url[p], hash[p]>>}
    /\ IF want[p] = hash[p]
       THEN /\ Go(p, "read")
            /\ left' = [left EXCEPT ![p] = Parts]
            /\ UNCHANGED <<want, url, hash, missed>>
       ELSE End(p)
    /\ UNCHANGED <<folders, opened, serves, gave, lone>>

-----------------------------------------------------------------------------
(* install: the standard library.                                          *)

Begin(p) ==
    /\ at[p] = "idle"
    /\ want' = [want EXCEPT ![p] = Standard]
    /\ hash' = [hash EXCEPT ![p] = Standard]
    /\ lone' = IF \E q \in Processes : Installing(q) THEN None ELSE p

\* The folder taken as it is.
InstallUnlessKept(p) ==
    /\ Begin(p)
    /\ IF Kept(Standard)
       THEN Go(p, "read") /\ left' = [left EXCEPT ![p] = Parts]
       ELSE Go(p, "store") /\ UNCHANGED left
    /\ UNCHANGED <<cacheVars, url, missed, serves, gave>>

Install(p) ==
    /\ Begin(p)
    /\ IF Kept(Standard)
       THEN Go(p, "hash") /\ left' = [left EXCEPT ![p] = Parts]
       ELSE Go(p, "store") /\ UNCHANGED left
    /\ UNCHANGED <<cacheVars, url, missed, serves, gave>>

\* The copy is hashed, file by file; one file changed or gone will do for it
\* to be written again.
HashPart(p, x) ==
    /\ at[p] = "hash" /\ x \in left[p]
    /\ IF Has(Standard, x) /\ folders[Standard][x]
       THEN IF left[p] = {x}
            THEN Go(p, "read") /\ left' = [left EXCEPT ![p] = Parts]
            ELSE left' = [left EXCEPT ![p] = @ \ {x}] /\ UNCHANGED at
       ELSE Go(p, "remove") /\ left' = [left EXCEPT ![p] = {}]
    /\ UNCHANGED <<cacheVars, want, url, hash, missed, serves, gave, lone>>

\* remove: the folder is opened, its files are deleted one by one, and the
\* folder then by its name.
OpenToRemove(p) ==
    /\ at[p] = "remove"
    /\ opened' = IF Kept(Standard) THEN opened \cup {p} ELSE opened
    /\ Go(p, IF Kept(Standard) THEN "empty" ELSE "store")
    /\ UNCHANGED <<folders, urls, want, url, hash, left, missed, serves, gave, lone>>

RemovePart(p, x) ==
    /\ at[p] = "empty" /\ p \in opened /\ Has(Standard, x)
    /\ Put(Standard, [y \in DOMAIN folders[Standard] \ {x} |-> folders[Standard][y]])
    /\ UNCHANGED <<urls, opened, processVars, serves, gave, lone>>

\* A folder another process wrote there meanwhile is not empty: an error.
RemoveFolder(p) ==
    /\ at[p] = "empty"
    /\ p \in opened => DOMAIN folders[Standard] = {}
    /\ IF Kept(Standard) /\ DOMAIN folders[Standard] # {}
       THEN End(p) /\ UNCHANGED <<folders, opened>>
       ELSE /\ folders' = [h \in DOMAIN folders \ {Standard} |-> folders[h]]
            /\ opened' = {}
            /\ Go(p, "store")
            /\ UNCHANGED <<want, url, hash, left, missed>>
    /\ UNCHANGED <<urls, serves, gave, lone>>

-----------------------------------------------------------------------------
(* A build reads a library, file by file, and ends.                        *)

ReadPart(p, x) ==
    /\ at[p] = "read" /\ x \in left[p]
    /\ left' = [left EXCEPT ![p] = @ \ {x}]
    /\ missed' = [missed EXCEPT ![p] = @ \/ ~Has(want[p], x)]
    /\ Go(p, IF left[p] = {x} THEN "done" ELSE "read")
    /\ UNCHANGED <<cacheVars, want, url, hash, serves, gave, lone>>

\* An error, Ctrl-C or a crash ends a process anywhere.
Stop(p) ==
    /\ at[p] # "idle"
    /\ End(p)
    /\ opened' = opened \ {p}
    /\ UNCHANGED <<folders, urls, serves, gave, lone>>

-----------------------------------------------------------------------------
Step(p) ==
    \/ \E u \in Urls, h \in Fetchable : Resolve(p, u, h)
    \/ \E u \in Urls : Save(p, u)
    \/ Download(p) \/ LookInCache(p) \/ Move(p) \/ LookAgain(p) \/ Record(p)
    \/ Install(p) \/ OpenToRemove(p) \/ RemoveFolder(p)
    \/ \E x \in Parts : HashPart(p, x) \/ RemovePart(p, x) \/ ReadPart(p, x)
    \/ Stop(p)

Next ==
    \/ \E u \in Urls, h \in Fetchable : ServeAnother(u, h)
    \/ \E x \in Parts : WriteOver(x)
    \/ \E p \in Processes : Step(p)

Spec == Init /\ [][Next]_vars
-----------------------------------------------------------------------------
(* Properties.                                                             *)

Places == {"idle", "fetch", "store", "staged", "lost", "record",
           "hash", "remove", "empty", "read", "done"}

\* Every variable holds what the code's types allow.
TypeOK ==
    /\ DOMAIN folders \subseteq Hashes
    /\ \A h \in DOMAIN folders : /\ DOMAIN folders[h] \subseteq Parts
                                 /\ folders[h] \in [DOMAIN folders[h] -> BOOLEAN]
    /\ urls \subseteq Urls \X Hashes
    /\ serves \in [Urls -> Fetchable]
    /\ at \in [Processes -> Places]
    /\ want \in [Processes -> Hashes \cup {None}]
    /\ url \in [Processes -> Urls \cup {None}]
    /\ hash \in [Processes -> Hashes \cup {None}]
    /\ left \in [Processes -> SUBSET Parts]
    /\ opened \subseteq Processes
    /\ gave \subseteq Urls \X Hashes
    /\ missed \in [Processes -> BOOLEAN]
    /\ lone \in Processes \cup {None}

\* A pair of a URL and a hash the cache answers for is one that URL gave, and
\* the library is there whole, whatever process stopped wherever: it is moved
\* to its place before its URL is noted (fetch_with).
TrustedPairsAreWhole ==
    \A u \in Urls, h \in Fetchable :
        <<u, h>> \in urls => Whole(h) /\ <<u, h>> \in gave

\* An install beside no other leaves the standard library as rk was built
\* with, whatever was written over it and wherever others were stopped.
LoneInstallHeals ==
    \A p \in Processes :
        lone = p /\ at[p] = "read" /\ want[p] = Standard => Whole(Standard)

\* The cache of fetched libraries is LibraryStore's: no process ever sees or
\* reads a part of one, and none is ever replaced.
Store == INSTANCE LibraryStore WITH
    Libraries <- Fetchable,
    Complete  <- AllWritten,
    Nothing   <- None,
    kept      <- [h \in DOMAIN folders \ {Standard} |-> folders[h]],
    trusted   <- urls,
    taken     <- [p \in Processes |->
                    IF at[p] # "done" \/ want[p] = Standard THEN None
                    ELSE IF missed[p] THEN [x \in {} |-> TRUE] ELSE AllWritten]
FetchedLibrariesAreKept == Store!Spec

\* No build reads half a library.
NoBuildReadsHalf == \A p \in Processes : at[p] = "done" => ~missed[p]
=============================================================================
