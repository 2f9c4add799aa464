------------------------- MODULE LibraryCache_proofs -------------------------
(***************************************************************************)
(* Proofs about LibraryCache: types, that the pairs the cache answers for  *)
(* are of whole libraries, that an install beside no other mends the       *)
(* standard library, and that the cache implements LibraryStore.           *)
(***************************************************************************)
EXTENDS LibraryCache, TLAPS

USE CacheAssumption DEF Fetchable

-----------------------------------------------------------------------------
(* The inductive invariant.  What the cache holds follows from what each   *)
(* process knows of the library it is about, by where it is.               *)

\* What process p knows of its library.
Knows(p) ==
    /\ at[p] = "idle" => want[p] = None /\ url[p] = None /\ hash[p] = None /\ ~missed[p]
    /\ at[p] = "fetch" => url[p] \in Urls /\ want[p] # Standard /\ ~missed[p]
    /\ at[p] \in {"store", "staged", "lost", "record"} =>
          /\ ~missed[p]
          /\ \/ url[p] = None /\ want[p] = Standard /\ hash[p] = Standard /\ at[p] # "record"
             \/ /\ url[p] \in Urls /\ want[p] # Standard
                /\ hash[p] \in Fetchable /\ <<url[p], hash[p]>> \in gave
    /\ at[p] = "record" => Kept(hash[p])
    /\ at[p] \in {"hash", "remove", "empty"} =>
          url[p] = None /\ want[p] = Standard /\ hash[p] = Standard /\ ~missed[p]
    /\ at[p] \in {"read", "done"} =>
          \/ want[p] = Standard
          \/ want[p] \in Fetchable /\ <<url[p], want[p]>> \in urls /\ ~missed[p]

\* What the cache holds of fetched libraries, and of what the URLs gave.
Holds ==
    /\ \A h \in Fetchable : Kept(h) => folders[h] = AllWritten
    /\ \A pair \in urls : pair[2] \in Fetchable /\ Kept(pair[2]) /\ pair \in gave
    /\ \A u \in Urls : <<u, serves[u]>> \in gave

CacheInv == TypeOK /\ Holds /\ \A p \in Processes : Knows(p)

\* The fetched libraries, the pairs and what was given only grow.
Grows == /\ \A h \in Fetchable : Kept(h) => Kept(h)'
         /\ urls \subseteq urls'
         /\ gave \subseteq gave'

\* A process another one's step leaves where it is.
Stays(q) == /\ at'[q] = at[q] /\ want'[q] = want[q] /\ url'[q] = url[q]
            /\ hash'[q] = hash[q] /\ missed'[q] = missed[q]

\* What a process knows is not undone by the steps of others.
LEMMA OthersKnow ==
    ASSUME TypeOK, Grows, NEW q \in Processes, Knows(q), Stays(q) PROVE Knows(q)'
BY DEF Grows, Stays, Knows, TypeOK

\* The first state is as the invariant says.
LEMMA InitInv == Init => CacheInv
BY DEF Init, CacheInv, TypeOK, Holds, Knows, Places, Kept

\* A step of one process that keeps the cache growing keeps the invariant,
\* if it keeps the types, the cache's part and its own.
LEMMA StepOf ==
    ASSUME CacheInv, NEW p \in Processes, TypeOK', Holds', Grows, Knows(p)',
           \A q \in Processes \ {p} : Stays(q)
    PROVE  CacheInv'
BY OthersKnow DEF CacheInv

\* A step that leaves the cache alone keeps what it holds.
LEMMA CacheAlone ==
    ASSUME CacheInv, UNCHANGED <<folders, urls, serves, gave>> PROVE Holds' /\ Grows
BY DEF CacheInv, Holds, Grows, Kept

\* Asking for a library keeps the invariant (locate, is_cached).
LEMMA ResolveInv ==
    ASSUME CacheInv, NEW p \in Processes, NEW u \in Urls, NEW h \in Fetchable, Resolve(p, u, h)
    PROVE  CacheInv'
<1>1. TypeOK'
  <2>1. /\ at' \in [Processes -> Places] /\ left' \in [Processes -> SUBSET Parts]
        /\ want' \in [Processes -> Hashes \cup {None}]
        /\ url' \in [Processes -> Urls \cup {None}]
    BY DEF CacheInv, TypeOK, Resolve, Go, Places
  <2> QED
    BY <2>1 DEF CacheInv, TypeOK, Resolve, cacheVars
<1>2. Knows(p)'
  <2>1. want'[p] = h /\ url'[p] = u /\ ~missed'[p] /\ h # Standard /\ urls' = urls
    BY DEF CacheInv, TypeOK, Resolve, Knows, Fetchable, cacheVars
  <2>2. CASE IsCached(h, u)
    <3>1. at'[p] = "read" /\ <<u, h>> \in urls
      BY <2>2 DEF CacheInv, TypeOK, Resolve, Go, IsCached
    <3> QED
      BY <2>1, <3>1 DEF Knows
  <2>3. CASE ~IsCached(h, u)
    <3>1. at'[p] = "fetch"
      BY <2>3 DEF CacheInv, TypeOK, Resolve, Go
    <3> QED
      BY <2>1, <3>1 DEF Knows
  <2> QED
    BY <2>2, <2>3
<1>3. \A q \in Processes \ {p} : Stays(q)
  BY DEF CacheInv, TypeOK, Resolve, Go, Stays
<1> QED
  BY <1>1, <1>2, <1>3, StepOf, CacheAlone DEF Resolve, cacheVars

\* `rk fetch --save` keeps the invariant.
LEMMA SaveInv ==
    ASSUME CacheInv, NEW p \in Processes, NEW u \in Urls, Save(p, u)
    PROVE  CacheInv'
<1>1. TypeOK'
  BY DEF CacheInv, TypeOK, Save, Go, Places, cacheVars
<1>2. Knows(p)'
  BY DEF CacheInv, TypeOK, Save, Go, Knows, cacheVars
<1>3. \A q \in Processes \ {p} : Stays(q)
  BY DEF CacheInv, TypeOK, Save, Go, Stays
<1> QED
  BY <1>1, <1>2, <1>3, StepOf, CacheAlone DEF Save, cacheVars

\* What was downloaded is what the URL gave (unpack).
LEMMA DownloadInv ==
    ASSUME CacheInv, NEW p \in Processes, Download(p)
    PROVE  CacheInv'
<1>1. url[p] \in Urls /\ serves[url[p]] \in Fetchable /\ <<url[p], serves[url[p]]>> \in gave
  BY DEF CacheInv, TypeOK, Holds, Knows, Download
<1>2. TypeOK'
  BY <1>1 DEF CacheInv, TypeOK, Download, Go, Places, cacheVars
<1>3. Knows(p)'
  BY <1>1 DEF CacheInv, TypeOK, Download, Go, Knows, cacheVars
<1>4. \A q \in Processes \ {p} : Stays(q)
  BY DEF CacheInv, TypeOK, Download, Go, Stays
<1> QED
  BY <1>2, <1>3, <1>4, StepOf, CacheAlone DEF Download, cacheVars

\* A process whose library is stored goes on with it (store).
LEMMA StoredKnows ==
    ASSUME CacheInv, NEW p \in Processes, at[p] \in {"store", "staged", "lost"}, Stored(p),
           UNCHANGED <<want, url, hash, missed, urls, gave>>,
           hash[p] \in Fetchable => Kept(hash[p])'
    PROVE  Knows(p)' /\ at' \in [Processes -> Places] /\ left' \in [Processes -> SUBSET Parts]
           /\ \A q \in Processes \ {p} : Stays(q)
<1>1. CASE url[p] = None
  <2>1. Go(p, "read") /\ left' = [left EXCEPT ![p] = Parts]
    BY <1>1 DEF Stored
  <2>2. want[p] = Standard
    BY <1>1 DEF CacheInv, Knows
  <2>3. Knows(p)'
    BY <2>1, <2>2 DEF CacheInv, TypeOK, Go, Knows
  <2> QED
    BY <2>1, <2>3 DEF CacheInv, TypeOK, Go, Stays, Places
<1>2. CASE url[p] # None
  <2>1. Go(p, "record") /\ UNCHANGED left
    BY <1>2 DEF Stored
  <2>2. /\ url[p] \in Urls /\ want[p] # Standard /\ ~missed[p]
        /\ hash[p] \in Fetchable /\ <<url[p], hash[p]>> \in gave
    BY <1>2 DEF CacheInv, Knows
  <2>3. Knows(p)'
    BY <2>1, <2>2 DEF CacheInv, TypeOK, Go, Knows
  <2> QED
    BY <2>1, <2>3 DEF CacheInv, TypeOK, Go, Stays, Places
<1> QED
  BY <1>1, <1>2

\* A library that is there is left as it is (store).
LEMMA LookInCacheInv ==
    ASSUME CacheInv, NEW p \in Processes, LookInCache(p)
    PROVE  CacheInv'
<1>1. CASE Kept(hash[p])
  <2>1. Stored(p) /\ at[p] = "store" /\ UNCHANGED <<cacheVars, want, url, hash, missed, serves, gave, lone>>
    BY <1>1 DEF LookInCache
  <2>2. Kept(hash[p])'
    BY <1>1, <2>1 DEF Kept, cacheVars
  <2>3. Knows(p)' /\ at' \in [Processes -> Places] /\ left' \in [Processes -> SUBSET Parts]
        /\ \A q \in Processes \ {p} : Stays(q)
    BY <2>1, <2>2, StoredKnows DEF cacheVars
  <2>4. TypeOK'
    BY <2>1, <2>3 DEF CacheInv, TypeOK, cacheVars
  <2> QED
    BY <2>1, <2>3, <2>4, StepOf, CacheAlone DEF cacheVars
<1>2. CASE ~Kept(hash[p])
  <2>1. TypeOK'
    BY <1>2 DEF CacheInv, TypeOK, LookInCache, Go, Places, cacheVars
  <2>2. Knows(p)'
    BY <1>2 DEF CacheInv, TypeOK, LookInCache, Go, Knows, cacheVars
  <2>3. \A q \in Processes \ {p} : Stays(q)
    BY <1>2 DEF CacheInv, TypeOK, LookInCache, Go, Stays
  <2> QED
    BY <2>1, <2>2, <2>3, StepOf, CacheAlone DEF LookInCache, cacheVars
<1> QED
  BY <1>1, <1>2

\* A library put whole in the cache keeps what the cache holds (store).
LEMMA PutWhole ==
    ASSUME CacheInv, NEW h \in Hashes, Put(h, AllWritten), UNCHANGED <<urls, serves, gave>>
    PROVE  Holds' /\ Grows /\ Kept(h)'
           /\ DOMAIN folders' \subseteq Hashes
           /\ \A g \in DOMAIN folders' : /\ DOMAIN folders'[g] \subseteq Parts
                                         /\ folders'[g] \in [DOMAIN folders'[g] -> BOOLEAN]
<1>1. DOMAIN folders' = DOMAIN folders \cup {h}
  BY DEF Put
<1>2. \A g \in DOMAIN folders' : folders'[g] = IF g = h THEN AllWritten ELSE folders[g]
  BY <1>1 DEF Put
<1>3. DOMAIN AllWritten = Parts /\ AllWritten \in [Parts -> BOOLEAN]
  BY DEF AllWritten
<1>4. Holds' /\ Grows /\ Kept(h)'
  BY <1>1, <1>2 DEF CacheInv, Holds, Grows, Kept, AllWritten
<1> QED
  BY <1>1, <1>2, <1>3, <1>4 DEF CacheInv, TypeOK

\* The move to its place keeps the invariant, whoever was first (store).
LEMMA MoveInv ==
    ASSUME CacheInv, NEW p \in Processes, Move(p)
    PROVE  CacheInv'
<1>1. hash[p] \in Hashes /\ at[p] = "staged"
  BY DEF CacheInv, TypeOK, Knows, Move
<1>2. CASE Kept(hash[p]) /\ DOMAIN folders[hash[p]] # {}
  <2>1. TypeOK'
    BY <1>2 DEF CacheInv, TypeOK, Move, Go, Places
  <2>2. Knows(p)'
    BY <1>2 DEF CacheInv, TypeOK, Move, Go, Knows
  <2>3. \A q \in Processes \ {p} : Stays(q)
    BY <1>2 DEF CacheInv, TypeOK, Move, Go, Stays
  <2> QED
    BY <1>2, <2>1, <2>2, <2>3, StepOf, CacheAlone DEF Move
<1>3. CASE ~(Kept(hash[p]) /\ DOMAIN folders[hash[p]] # {})
  <2>1. /\ Put(hash[p], AllWritten) /\ Stored(p) /\ opened' \in {{}, opened}
        /\ UNCHANGED <<urls, want, url, hash, missed, serves, gave, lone>>
    BY <1>3 DEF Move
  <2>2. Holds' /\ Grows /\ Kept(hash[p])'
        /\ DOMAIN folders' \subseteq Hashes
        /\ \A g \in DOMAIN folders' : /\ DOMAIN folders'[g] \subseteq Parts
                                      /\ folders'[g] \in [DOMAIN folders'[g] -> BOOLEAN]
    BY <1>1, <2>1, PutWhole
  <2>3. Knows(p)' /\ at' \in [Processes -> Places] /\ left' \in [Processes -> SUBSET Parts]
        /\ \A q \in Processes \ {p} : Stays(q)
    BY <1>1, <2>1, <2>2, StoredKnows
  <2>4. TypeOK'
    BY <2>1, <2>2, <2>3 DEF CacheInv, TypeOK
  <2> QED
    BY <2>2, <2>3, <2>4, StepOf
<1> QED
  BY <1>2, <1>3

\* A process that ends knows nothing (End).
LEMMA EndKnows ==
    ASSUME CacheInv, NEW p \in Processes, End(p)
    PROVE  /\ Knows(p)'
           /\ at' \in [Processes -> Places]
           /\ want' \in [Processes -> Hashes \cup {None}]
           /\ url' \in [Processes -> Urls \cup {None}]
           /\ hash' \in [Processes -> Hashes \cup {None}]
           /\ left' \in [Processes -> SUBSET Parts]
           /\ missed' \in [Processes -> BOOLEAN]
           /\ \A q \in Processes \ {p} : Stays(q)
<1>1. at'[p] = "idle" /\ want'[p] = None /\ url'[p] = None /\ hash'[p] = None /\ missed'[p] = FALSE
  BY DEF CacheInv, TypeOK, End, Go
<1>2. Knows(p)'
  BY <1>1 DEF Knows
<1> QED
  BY <1>2 DEF CacheInv, TypeOK, End, Go, Places, Stays

\* The second look of a process whose rename failed keeps the invariant
\* (store).
LEMMA LookAgainInv ==
    ASSUME CacheInv, NEW p \in Processes, LookAgain(p)
    PROVE  CacheInv'
<1>1. Holds' /\ Grows /\ UNCHANGED <<cacheVars, serves, gave, lone>>
  BY CacheAlone DEF LookAgain, cacheVars
<1>2. CASE Kept(hash[p])
  <2>1. Stored(p) /\ at[p] = "lost" /\ UNCHANGED <<want, url, hash, missed>>
    BY <1>2 DEF LookAgain
  <2>2. Kept(hash[p])'
    BY <1>1, <1>2, <2>1 DEF Kept, cacheVars
  <2>3. Knows(p)' /\ at' \in [Processes -> Places] /\ left' \in [Processes -> SUBSET Parts]
        /\ \A q \in Processes \ {p} : Stays(q)
    BY <1>1, <2>1, <2>2, StoredKnows DEF cacheVars
  <2> QED
    BY <1>1, <2>1, <2>3, StepOf DEF CacheInv, TypeOK, cacheVars
<1>3. CASE ~Kept(hash[p])
  <2>1. End(p)
    BY <1>3 DEF LookAgain
  <2> QED
    BY <1>1, <2>1, EndKnows, StepOf DEF CacheInv, TypeOK, cacheVars
<1> QED
  BY <1>2, <1>3

\* The URL is noted for a library that is there whole (record_url,
\* fetch_remote).
LEMMA RecordInv ==
    ASSUME CacheInv, NEW p \in Processes, Record(p)
    PROVE  CacheInv'
<1>1. /\ url[p] \in Urls /\ hash[p] \in Fetchable /\ <<url[p], hash[p]>> \in gave
      /\ Kept(hash[p]) /\ ~missed[p] /\ at[p] = "record" /\ want[p] # Standard
  BY DEF CacheInv, Knows, Record
<1>2. urls' = urls \cup {<<url[p], hash[p]>>} /\ UNCHANGED <<folders, opened, serves, gave, lone>>
  BY DEF Record
<1>3. Holds' /\ Grows
  BY <1>1, <1>2 DEF CacheInv, Holds, Grows, Kept
<1>4. urls' \subseteq Urls \X Hashes
  BY <1>1, <1>2 DEF CacheInv, TypeOK
<1>5. CASE want[p] = hash[p]
  <2>1. /\ Go(p, "read") /\ left' = [left EXCEPT ![p] = Parts]
        /\ UNCHANGED <<want, url, hash, missed>>
    BY <1>5 DEF Record
  <2>2. Knows(p)'
    BY <1>1, <1>2, <1>5, <2>1 DEF Knows, Go, CacheInv, TypeOK
  <2>3. TypeOK'
    BY <1>2, <1>4, <2>1 DEF CacheInv, TypeOK, Go, Places
  <2>4. \A q \in Processes \ {p} : Stays(q)
    BY <2>1 DEF CacheInv, TypeOK, Go, Stays
  <2> QED
    BY <1>3, <2>2, <2>3, <2>4, StepOf
<1>6. CASE want[p] # hash[p]
  <2>1. End(p)
    BY <1>6 DEF Record
  <2> QED
    BY <1>2, <1>3, <1>4, <2>1, EndKnows, StepOf DEF CacheInv, TypeOK
<1> QED
  BY <1>5, <1>6

\* The start of an install keeps the invariant (install).
LEMMA InstallInv ==
    ASSUME CacheInv, NEW p \in Processes, Install(p)
    PROVE  CacheInv'
<1>1. /\ at[p] = "idle" /\ url[p] = None /\ ~missed[p]
      /\ want' = [want EXCEPT ![p] = Standard] /\ hash' = [hash EXCEPT ![p] = Standard]
      /\ lone' \in Processes \cup {None}
      /\ UNCHANGED <<cacheVars, url, missed, serves, gave>>
  BY DEF CacheInv, Knows, Install, Begin
<1>2. \/ Go(p, "hash") /\ left' = [left EXCEPT ![p] = Parts]
      \/ Go(p, "store") /\ UNCHANGED left
  BY DEF Install
<1>3. TypeOK'
  BY <1>1, <1>2 DEF CacheInv, TypeOK, Go, Places, cacheVars
<1>4. Knows(p)'
  BY <1>1, <1>2 DEF CacheInv, TypeOK, Go, Knows
<1>5. \A q \in Processes \ {p} : Stays(q)
  BY <1>1, <1>2 DEF CacheInv, TypeOK, Go, Stays
<1> QED
  BY <1>1, <1>3, <1>4, <1>5, StepOf, CacheAlone DEF cacheVars

\* A file of the copy hashed keeps the invariant (cache::read, of install).
LEMMA HashPartInv ==
    ASSUME CacheInv, NEW p \in Processes, NEW x \in Parts, HashPart(p, x)
    PROVE  CacheInv'
<1>1. /\ at[p] = "hash" /\ url[p] = None /\ want[p] = Standard /\ hash[p] = Standard /\ ~missed[p]
      /\ UNCHANGED <<cacheVars, want, url, hash, missed, serves, gave, lone>>
  BY DEF CacheInv, Knows, HashPart
<1>2. /\ at' \in {at, [at EXCEPT ![p] = "read"], [at EXCEPT ![p] = "remove"]}
      /\ left' \in [Processes -> SUBSET Parts]
  BY DEF CacheInv, TypeOK, HashPart, Go
<1>3. TypeOK'
  BY <1>1, <1>2 DEF CacheInv, TypeOK, Places, cacheVars
<1>4. Knows(p)'
  BY <1>1, <1>2 DEF CacheInv, TypeOK, Knows
<1>5. \A q \in Processes \ {p} : Stays(q)
  BY <1>1, <1>2 DEF CacheInv, TypeOK, Stays
<1> QED
  BY <1>1, <1>3, <1>4, <1>5, StepOf, CacheAlone DEF cacheVars

\* The folder opened to be emptied keeps the invariant (cache::remove).
LEMMA OpenToRemoveInv ==
    ASSUME CacheInv, NEW p \in Processes, OpenToRemove(p)
    PROVE  CacheInv'
<1>1. TypeOK'
  BY DEF CacheInv, TypeOK, OpenToRemove, Go, Places
<1>2. Knows(p)'
  BY DEF CacheInv, TypeOK, OpenToRemove, Go, Knows
<1>3. \A q \in Processes \ {p} : Stays(q)
  BY DEF CacheInv, TypeOK, OpenToRemove, Go, Stays
<1> QED
  BY <1>1, <1>2, <1>3, StepOf, CacheAlone DEF OpenToRemove

\* What is done to the standard library's folder is done to no fetched one.
LEMMA StandardAlone ==
    ASSUME CacheInv, UNCHANGED <<urls, serves, gave>>,
           \A h \in Fetchable : Kept(h) <=> Kept(h)',
           \A h \in Fetchable : Kept(h) => folders'[h] = folders[h]
    PROVE  Holds' /\ Grows
BY DEF CacheInv, Holds, Grows, Kept

\* A process other than p, and p too, is left where it is.
LEMMA AllStay ==
    ASSUME CacheInv, TypeOK', Holds', Grows, \A q \in Processes : Stays(q) PROVE CacheInv'
BY OthersKnow DEF CacheInv

\* A file of the damaged copy deleted keeps the invariant (cache::remove).
LEMMA RemovePartInv ==
    ASSUME CacheInv, NEW p \in Processes, NEW x \in Parts, RemovePart(p, x)
    PROVE  CacheInv'
<1> DEFINE rest == [y \in DOMAIN folders[Standard] \ {x} |-> folders[Standard][y]]
<1>1. /\ Kept(Standard) /\ Put(Standard, rest)
      /\ UNCHANGED <<urls, opened, processVars, serves, gave, lone>>
  BY DEF RemovePart, Has
<1>2. /\ DOMAIN folders[Standard] \subseteq Parts
      /\ folders[Standard] \in [DOMAIN folders[Standard] -> BOOLEAN]
  BY <1>1 DEF CacheInv, TypeOK, Kept
<1>3. DOMAIN rest \subseteq Parts /\ rest \in [DOMAIN rest -> BOOLEAN]
  BY <1>2
<1> HIDE DEF rest
<1>4. DOMAIN folders' = DOMAIN folders /\ \A h \in DOMAIN folders :
         folders'[h] = IF h = Standard THEN rest ELSE folders[h]
  BY <1>1 DEF Put, Kept
<1>5. Holds' /\ Grows
  BY <1>1, <1>4, StandardAlone DEF Kept
<1>6. TypeOK'
  BY <1>1, <1>3, <1>4 DEF CacheInv, TypeOK, processVars
<1> QED
  BY <1>1, <1>5, <1>6, AllStay DEF Stays, processVars

\* A file of the copy written over keeps the invariant.
LEMMA WriteOverInv ==
    ASSUME CacheInv, NEW x \in Parts, WriteOver(x)
    PROVE  CacheInv'
<1> DEFINE over == [folders[Standard] EXCEPT ![x] = FALSE]
<1>1. /\ Kept(Standard) /\ Put(Standard, over) /\ lone' = None
      /\ UNCHANGED <<urls, opened, processVars, serves, gave>>
  BY DEF WriteOver, Has
<1>2. /\ DOMAIN folders[Standard] \subseteq Parts
      /\ folders[Standard] \in [DOMAIN folders[Standard] -> BOOLEAN]
  BY <1>1 DEF CacheInv, TypeOK, Kept
<1>3. DOMAIN over \subseteq Parts /\ over \in [DOMAIN over -> BOOLEAN]
  BY <1>2
<1> HIDE DEF over
<1>4. DOMAIN folders' = DOMAIN folders /\ \A h \in DOMAIN folders :
         folders'[h] = IF h = Standard THEN over ELSE folders[h]
  BY <1>1 DEF Put, Kept
<1>5. Holds' /\ Grows
  BY <1>1, <1>4, StandardAlone DEF Kept
<1>6. TypeOK'
  BY <1>1, <1>3, <1>4 DEF CacheInv, TypeOK, processVars
<1> QED
  BY <1>1, <1>5, <1>6, AllStay DEF Stays, processVars

\* The folder deleted, or found written again, keeps the invariant
\* (cache::remove).
LEMMA RemoveFolderInv ==
    ASSUME CacheInv, NEW p \in Processes, RemoveFolder(p)
    PROVE  CacheInv'
<1>1. /\ at[p] = "empty" /\ url[p] = None /\ want[p] = Standard /\ hash[p] = Standard /\ ~missed[p]
      /\ UNCHANGED <<urls, serves, gave, lone>>
  BY DEF CacheInv, Knows, RemoveFolder
<1>2. CASE Kept(Standard) /\ DOMAIN folders[Standard] # {}
  <2>1. End(p) /\ UNCHANGED <<folders, opened>>
    BY <1>2 DEF RemoveFolder
  <2> QED
    BY <1>1, <2>1, EndKnows, StepOf, CacheAlone DEF CacheInv, TypeOK
<1>3. CASE ~(Kept(Standard) /\ DOMAIN folders[Standard] # {})
  <2>1. /\ folders' = [h \in DOMAIN folders \ {Standard} |-> folders[h]]
        /\ opened' = {} /\ Go(p, "store") /\ UNCHANGED <<want, url, hash, left, missed>>
    BY <1>3 DEF RemoveFolder
  <2>2. DOMAIN folders' = DOMAIN folders \ {Standard} /\ \A h \in DOMAIN folders' : folders'[h] = folders[h]
    BY <2>1
  <2>3. Holds' /\ Grows
    BY <1>1, <2>2, StandardAlone DEF Kept
  <2>4. TypeOK'
    BY <1>1, <2>1, <2>2 DEF CacheInv, TypeOK, Go, Places
  <2>5. Knows(p)'
    BY <1>1, <2>1 DEF CacheInv, TypeOK, Go, Knows
  <2>6. \A q \in Processes \ {p} : Stays(q)
    BY <2>1 DEF CacheInv, TypeOK, Go, Stays
  <2> QED
    BY <2>3, <2>4, <2>5, <2>6, StepOf
<1> QED
  BY <1>2, <1>3

\* A build that reads a fetched library misses none of its files.
LEMMA ReadsAll ==
    ASSUME CacheInv, NEW p \in Processes, at[p] \in {"read", "done"}, want[p] # Standard
    PROVE  /\ want[p] \in Fetchable /\ <<url[p], want[p]>> \in urls /\ ~missed[p]
           /\ \A x \in Parts : Has(want[p], x)
<1>1. want[p] \in Fetchable /\ <<url[p], want[p]>> \in urls /\ ~missed[p]
  BY DEF CacheInv, Knows
<1>2. <<url[p], want[p]>>[2] \in Fetchable /\ Kept(<<url[p], want[p]>>[2])
  BY <1>1 DEF CacheInv, Holds
<1> QED
  BY <1>1, <1>2 DEF CacheInv, Holds, Has, AllWritten

\* A file read keeps the invariant.
LEMMA ReadPartInv ==
    ASSUME CacheInv, NEW p \in Processes, NEW x \in Parts, ReadPart(p, x)
    PROVE  CacheInv'
<1>1. /\ at[p] = "read" /\ left' = [left EXCEPT ![p] = @ \ {x}]
      /\ missed' = [missed EXCEPT ![p] = @ \/ ~Has(want[p], x)]
      /\ at' \in {[at EXCEPT ![p] = "done"], [at EXCEPT ![p] = "read"]}
      /\ UNCHANGED <<cacheVars, want, url, hash, serves, gave, lone>>
  BY DEF ReadPart, Go
<1>2. missed' \in [Processes -> BOOLEAN]
  BY <1>1 DEF CacheInv, TypeOK
<1>3. TypeOK'
  BY <1>1, <1>2 DEF CacheInv, TypeOK, Places, cacheVars
<1>4. want[p] # Standard => ~missed'[p]
  BY <1>1, ReadsAll DEF CacheInv, TypeOK
<1>5. Knows(p)'
  BY <1>1, <1>4, ReadsAll DEF CacheInv, TypeOK, Knows, cacheVars
<1>6. \A q \in Processes \ {p} : Stays(q)
  BY <1>1 DEF CacheInv, TypeOK, Stays
<1> QED
  BY <1>1, <1>3, <1>5, <1>6, StepOf, CacheAlone DEF cacheVars

\* A process stopped anywhere keeps the invariant.
LEMMA StopInv ==
    ASSUME CacheInv, NEW p \in Processes, Stop(p)
    PROVE  CacheInv'
<1>1. End(p) /\ opened' = opened \ {p} /\ UNCHANGED <<folders, urls, serves, gave, lone>>
  BY DEF Stop
<1> QED
  BY <1>1, EndKnows, StepOf, CacheAlone DEF CacheInv, TypeOK

\* A URL that serves another library keeps the invariant.
LEMMA ServeAnotherInv ==
    ASSUME CacheInv, NEW u \in Urls, NEW h \in Fetchable, ServeAnother(u, h)
    PROVE  CacheInv'
<1>1. /\ serves' = [serves EXCEPT ![u] = h] /\ gave' = gave \cup {<<u, h>>}
      /\ UNCHANGED <<cacheVars, processVars, lone>>
  BY DEF ServeAnother
<1>2. TypeOK'
  BY <1>1 DEF CacheInv, TypeOK, cacheVars, processVars
<1>3. Holds' /\ Grows
  BY <1>1 DEF CacheInv, TypeOK, Holds, Grows, Kept, cacheVars
<1> QED
  BY <1>1, <1>2, <1>3, AllStay DEF Stays, processVars

\* Every step keeps the invariant.
LEMMA NextInv == CacheInv /\ [Next]_vars => CacheInv'
<1> SUFFICES ASSUME CacheInv, [Next]_vars PROVE CacheInv'
  OBVIOUS
<1>1. ASSUME NEW p \in Processes, Step(p) PROVE CacheInv'
  BY <1>1, ResolveInv, SaveInv, DownloadInv, LookInCacheInv, MoveInv, LookAgainInv, RecordInv,
     InstallInv, HashPartInv, OpenToRemoveInv, RemovePartInv, RemoveFolderInv, ReadPartInv, StopInv
     DEF Step
<1>2. CASE UNCHANGED vars
  <2>1. Holds' /\ Grows
    BY <1>2, CacheAlone DEF vars, cacheVars
  <2> QED
    BY <1>2, <2>1, AllStay DEF CacheInv, TypeOK, Stays, vars, cacheVars, processVars
<1> QED
  BY <1>1, <1>2, ServeAnotherInv, WriteOverInv DEF Next

\* The invariant holds in every reachable state.
LEMMA CacheInvHolds == Spec => []CacheInv
BY InitInv, NextInv, PTL DEF Spec

\* In every reachable state, every variable holds what the code's types allow.
THEOREM CacheTypesHold == Spec => []TypeOK
<1>1. CacheInv => TypeOK
  BY DEF CacheInv
<1> QED
  BY <1>1, CacheInvHolds, PTL

\* A pair the cache answers for is one the URL gave, of a library that is
\* there whole, whatever process stopped wherever (is_cached, fetch_with).
THEOREM TrustedPairsHold == Spec => []TrustedPairsAreWhole
<1>1. CacheInv => TrustedPairsAreWhole
  <2> SUFFICES ASSUME CacheInv, NEW u \in Urls, NEW h \in Fetchable, <<u, h>> \in urls
               PROVE  Whole(h) /\ <<u, h>> \in gave
    BY DEF TrustedPairsAreWhole
  <2>1. <<u, h>>[2] = h
    OBVIOUS
  <2> QED
    BY <2>1 DEF CacheInv, Holds, Whole
<1> QED
  BY <1>1, CacheInvHolds, PTL

-----------------------------------------------------------------------------
(* The standard library's copy, mended by an install beside no other.      *)

\* An install that is alone has put away what it found wrong: at the store
\* nothing is kept, what it hashed is right, and what it reads is whole.
Mends(p) ==
    /\ at[p] \in {"store", "staged"} => ~Kept(Standard)
    /\ at[p] # "lost"
    /\ at[p] = "hash" =>
          /\ left[p] # {}
          /\ \A x \in Parts \ left[p] : Has(Standard, x) /\ folders[Standard][x]
    /\ at[p] = "read" => Whole(Standard)

\* No other process installs beside it, and only an install has the folder
\* open to empty it.
Alone ==
    /\ \A q \in opened : at[q] = "empty"
    /\ lone # None => \A q \in Processes : Installing(q) => q = lone
    /\ \A p \in Processes : lone = p /\ want[p] = Standard => Mends(p)

\* The standard library's folder is as it was.
StandardStays == /\ Kept(Standard)' <=> Kept(Standard)
                 /\ Kept(Standard) => folders'[Standard] = folders[Standard]

\* The first process to install is none.
LEMMA InitAlone == Init => Alone
BY DEF Init, Alone, Installing

\* A step of one process that begins no install touches the standard library
\* only if it installs, and then it is the one alone, or none is.
LEMMA AloneStep ==
    ASSUME CacheInv, Alone, NEW p \in Processes,
           lone' = lone, Installing(p)' => Installing(p), StandardStays \/ Installing(p),
           opened' \subseteq opened \cup {p}, p \in opened' => at'[p] = "empty",
           \A q \in Processes \ {p} : Stays(q) /\ left'[q] = left[q],
           lone = p /\ want'[p] = Standard => Mends(p)'
    PROVE  Alone'
<1>1. \A q \in opened' : at'[q] = "empty"
  BY DEF Alone, Stays, CacheInv, TypeOK
<1>2. lone' # None => \A q \in Processes : Installing(q)' => q = lone'
  BY DEF Alone, Stays, Installing
<1>3. ASSUME NEW q \in Processes, q # p, lone' = q, want'[q] = Standard PROVE Mends(q)'
  <2>1. Mends(q) /\ Stays(q) /\ left'[q] = left[q]
    BY <1>3 DEF Alone, Stays
  <2>2. lone # None
    BY <1>3
  <2>3. StandardStays
    BY <1>3, <2>2 DEF Alone
  <2> QED
    BY <2>1, <2>3 DEF Mends, Stays, StandardStays, Has, Whole, Kept
<1> QED
  BY <1>1, <1>2, <1>3 DEF Alone

\* A process that wants no standard library changes nothing of it.
LEMMA AloneElsewhere ==
    ASSUME CacheInv, Alone, NEW p \in Processes, want[p] # Standard, want'[p] # Standard,
           lone' = lone, opened' = opened, at[p] # "empty", StandardStays,
           \A q \in Processes \ {p} : Stays(q) /\ left'[q] = left[q]
    PROVE  Alone'
<1>1. p \notin opened /\ ~Installing(p)'
  BY DEF Alone, Installing
<1> QED
  BY <1>1, AloneStep

\* Builds of fetched libraries (locate, fetch_with).
LEMMA FetchAlone ==
    ASSUME CacheInv, Alone, NEW p \in Processes,
           \/ \E u \in Urls, h \in Fetchable : Resolve(p, u, h)
           \/ \E u \in Urls : Save(p, u)
           \/ Download(p) \/ Record(p)
    PROVE  Alone'
<1>1. want[p] # Standard /\ at[p] # "empty" /\ lone' = lone /\ opened' = opened /\ folders' = folders
  BY DEF CacheInv, Knows, Resolve, Save, Download, Record, cacheVars
<1>2. \A q \in Processes \ {p} : Stays(q) /\ left'[q] = left[q]
  BY DEF CacheInv, TypeOK, Stays, Resolve, Save, Download, Record, Go, End
<1>3. want'[p] # Standard
  BY <1>1 DEF CacheInv, TypeOK, Resolve, Save, Download, Record, End
<1> QED
  BY <1>1, <1>2, <1>3, AloneElsewhere DEF StandardStays, Kept

\* The look in the cache, and the one after a rename that failed: alone, an
\* install finds nothing, and loses no rename (store).
LEMMA LookAlone ==
    ASSUME CacheInv, Alone, NEW p \in Processes, LookInCache(p) \/ LookAgain(p)
    PROVE  Alone'
<1>1. /\ at[p] \in {"store", "lost"} /\ lone' = lone /\ opened' = opened /\ folders' = folders
      /\ want[p] = Standard => hash[p] = Standard
  BY DEF CacheInv, Knows, LookInCache, LookAgain, cacheVars
<1>2. \A q \in Processes \ {p} : Stays(q) /\ left'[q] = left[q]
  BY DEF CacheInv, TypeOK, Stays, LookInCache, LookAgain, Stored, Go, End
<1>3. p \notin opened'
  BY <1>1 DEF Alone
<1>4. want'[p] = Standard => want[p] = Standard
  BY DEF CacheInv, TypeOK, LookInCache, LookAgain, End
<1>5. Installing(p)' => Installing(p)
  BY <1>1, <1>4 DEF Installing
<1>6. ASSUME lone = p, want'[p] = Standard PROVE Mends(p)'
  <2>1. Mends(p) /\ hash[p] = Standard
    BY <1>1, <1>4, <1>6 DEF Alone
  <2>2. at[p] = "store" /\ ~Kept(Standard)
    BY <1>1, <2>1 DEF Mends
  <2>3. Go(p, "staged")
    BY <2>1, <2>2 DEF LookInCache, LookAgain
  <2>4. at'[p] = "staged"
    BY <2>3 DEF CacheInv, TypeOK, Go
  <2> QED
    BY <1>1, <2>2, <2>4 DEF Mends, Kept
<1> QED
  BY <1>1, <1>2, <1>3, <1>5, <1>6, AloneStep DEF StandardStays, Kept

\* Moved to its place by one alone, the library is whole (store).
LEMMA MoveAlone ==
    ASSUME CacheInv, Alone, NEW p \in Processes, Move(p) PROVE Alone'
<1>1. /\ at[p] = "staged" /\ lone' = lone /\ want' = want
      /\ opened' \in {opened, {}}
      /\ \/ want[p] = Standard /\ hash[p] = Standard /\ url[p] = None
         \/ want[p] # Standard /\ hash[p] # Standard
  BY DEF CacheInv, Knows, Move
<1>2. \A q \in Processes \ {p} : Stays(q) /\ left'[q] = left[q]
  BY DEF CacheInv, TypeOK, Stays, Move, Stored, Go
<1>3. p \notin opened'
  BY <1>1 DEF Alone
<1>4. Installing(p)' => Installing(p)
  BY <1>1 DEF Installing
<1>5. StandardStays \/ Installing(p)
  <2>1. CASE want[p] = Standard
    BY <1>1, <2>1 DEF Installing
  <2>2. CASE want[p] # Standard
    BY <1>1, <2>2 DEF Move, Put, StandardStays, Kept
  <2> QED
    BY <2>1, <2>2
<1>6. ASSUME lone = p, want'[p] = Standard PROVE Mends(p)'
  <2>1. hash[p] = Standard /\ url[p] = None /\ ~Kept(Standard)
    BY <1>1, <1>6 DEF Alone, Mends
  <2>2. Put(Standard, AllWritten) /\ Stored(p)
    BY <2>1 DEF Move
  <2>3. at'[p] = "read"
    BY <2>1, <2>2 DEF CacheInv, TypeOK, Stored, Go
  <2>4. Whole(Standard)'
    BY <2>2 DEF Put, Whole, Kept, AllWritten
  <2> QED
    BY <2>3, <2>4 DEF Mends
<1> QED
  BY <1>1, <1>2, <1>3, <1>4, <1>5, <1>6, AloneStep

\* An install begins alone when no other has begun and not ended (install).
LEMMA InstallAlone ==
    ASSUME CacheInv, Alone, NEW p \in Processes, Install(p) PROVE Alone'
<1>1. /\ at[p] = "idle" /\ UNCHANGED <<folders, opened>>
      /\ lone' = IF \E q \in Processes : Installing(q) THEN None ELSE p
      /\ want' = [want EXCEPT ![p] = Standard]
  BY DEF Install, Begin, cacheVars
<1>2. \A q \in Processes \ {p} : Stays(q) /\ left'[q] = left[q]
  BY DEF CacheInv, TypeOK, Stays, Install, Begin, Go
<1>3. \A q \in opened' : at'[q] = "empty"
  BY <1>1, <1>2 DEF Alone, Stays, CacheInv, TypeOK
<1>4. CASE lone' = None
  BY <1>3, <1>4 DEF Alone
<1>5. CASE lone' # None
  <2>1. lone' = p /\ \A q \in Processes : ~Installing(q)
    BY <1>1, <1>5
  <2>2. \A q \in Processes : Installing(q)' => q = p
    BY <1>2, <2>1 DEF Stays, Installing
  <2>3. \/ Kept(Standard) /\ at'[p] = "hash" /\ left'[p] = Parts
        \/ ~Kept(Standard) /\ at'[p] = "store"
    BY DEF CacheInv, TypeOK, Install, Go
  <2>4. Mends(p)'
    BY <1>1, <2>3 DEF Mends, Kept
  <2> QED
    BY <1>3, <2>1, <2>2, <2>4 DEF Alone
<1> QED
  BY <1>4, <1>5

\* The last file hashed right, the copy is whole (cache::read, of install).
LEMMA HashPartAlone ==
    ASSUME CacheInv, Alone, NEW p \in Processes, NEW x \in Parts, HashPart(p, x) PROVE Alone'
<1>1. /\ at[p] = "hash" /\ want[p] = Standard /\ x \in left[p]
      /\ UNCHANGED <<folders, opened, want, lone>>
  BY DEF CacheInv, Knows, HashPart, cacheVars
<1>2. \A q \in Processes \ {p} : Stays(q) /\ left'[q] = left[q]
  BY DEF CacheInv, TypeOK, Stays, HashPart, Go
<1>3. p \notin opened' /\ Installing(p)
  BY <1>1 DEF Alone, Installing
<1>4. ASSUME lone = p PROVE Mends(p)'
  <2>1. \A y \in Parts \ left[p] : Has(Standard, y) /\ folders[Standard][y]
    BY <1>1, <1>4 DEF Alone, Mends
  <2>2. CASE ~(Has(Standard, x) /\ folders[Standard][x])
    <3>1. at'[p] = "remove"
      BY <2>2 DEF HashPart, Go, CacheInv, TypeOK
    <3> QED
      BY <3>1 DEF Mends
  <2>3. CASE Has(Standard, x) /\ folders[Standard][x] /\ left[p] # {x}
    <3>1. at'[p] = "hash" /\ left'[p] = left[p] \ {x}
      BY <1>1, <2>3 DEF HashPart, CacheInv, TypeOK
    <3>2. left'[p] # {}
      BY <1>1, <2>3, <3>1
    <3>3. \A y \in Parts \ left'[p] : Has(Standard, y)' /\ folders'[Standard][y]
      BY <1>1, <2>1, <2>3, <3>1 DEF Has, Kept
    <3> QED
      BY <3>1, <3>2, <3>3 DEF Mends
  <2>4. CASE Has(Standard, x) /\ folders[Standard][x] /\ left[p] = {x}
    <3>1. at'[p] = "read"
      BY <2>4 DEF HashPart, Go, CacheInv, TypeOK
    <3>2. \A y \in Parts : Has(Standard, y) /\ folders[Standard][y]
      BY <2>1, <2>4
    <3>3. /\ Kept(Standard) /\ DOMAIN folders[Standard] \subseteq Parts
          /\ folders[Standard] \in [DOMAIN folders[Standard] -> BOOLEAN]
      BY <2>4 DEF Has, Kept, CacheInv, TypeOK
    <3>4. Whole(Standard)
      BY <3>2, <3>3 DEF Whole, AllWritten, Has
    <3> QED
      BY <1>1, <3>1, <3>4 DEF Mends, Whole, Kept
  <2> QED
    BY <2>2, <2>3, <2>4
<1> QED
  BY <1>1, <1>2, <1>3, <1>4, AloneStep DEF StandardStays, Kept

\* The damaged copy is opened, emptied and put away (cache::remove).
LEMMA RemoveAlone ==
    ASSUME CacheInv, Alone, NEW p \in Processes,
           OpenToRemove(p) \/ (\E x \in Parts : RemovePart(p, x)) \/ RemoveFolder(p)
    PROVE  Alone'
<1>1. /\ at[p] \in {"remove", "empty"} /\ want[p] = Standard /\ lone' = lone
      /\ opened' \subseteq opened \cup {p}
  BY DEF CacheInv, Knows, OpenToRemove, RemovePart, RemoveFolder
<1>2. \A q \in Processes \ {p} : Stays(q) /\ left'[q] = left[q]
  <2>1. CASE UNCHANGED processVars
    BY <2>1 DEF Stays, processVars
  <2>2. CASE \E place : Go(p, place) /\ UNCHANGED <<want, url, hash, left, missed>>
    BY <2>2 DEF CacheInv, TypeOK, Stays, Go
  <2>3. CASE End(p)
    BY <2>3 DEF CacheInv, TypeOK, Stays, Go, End
  <2>4. CASE OpenToRemove(p)
    BY <2>2, <2>4 DEF OpenToRemove
  <2>5. CASE \E x \in Parts : RemovePart(p, x)
    BY <2>1, <2>5 DEF RemovePart
  <2>6. CASE RemoveFolder(p)
    BY <2>2, <2>3, <2>6 DEF RemoveFolder
  <2> QED
    BY <2>4, <2>5, <2>6
<1>3. Installing(p)
  BY <1>1 DEF Installing
<1>4. CASE OpenToRemove(p)
  <2>1. \/ Kept(Standard) /\ at'[p] = "empty"
        \/ ~Kept(Standard) /\ at'[p] = "store" /\ opened' = opened /\ at[p] = "remove"
    BY <1>4 DEF OpenToRemove, Go, CacheInv, TypeOK
  <2>2. p \in opened' => at'[p] = "empty"
    BY <2>1 DEF Alone
  <2>3. Mends(p)'
    BY <1>4, <2>1 DEF OpenToRemove, Mends, Kept
  <2> QED
    BY <1>1, <1>2, <1>3, <2>2, <2>3, AloneStep
<1>5. CASE \E x \in Parts : RemovePart(p, x)
  <2>1. at'[p] = "empty"
    BY <1>5 DEF RemovePart, processVars
  <2>2. Mends(p)'
    BY <2>1 DEF Mends
  <2> QED
    BY <1>1, <1>2, <1>3, <2>1, <2>2, AloneStep
<1>6. CASE RemoveFolder(p)
  <2>1. CASE End(p) /\ UNCHANGED <<folders, opened>> /\ Kept(Standard) /\ DOMAIN folders[Standard] # {}
    <3>1. p \notin opened
      BY <1>6, <2>1 DEF RemoveFolder
    <3>2. want'[p] = None
      BY <2>1 DEF End, CacheInv, TypeOK
    <3> QED
      BY <1>1, <1>2, <1>3, <2>1, <3>1, <3>2, AloneStep
  <2>2. CASE /\ folders' = [h \in DOMAIN folders \ {Standard} |-> folders[h]]
             /\ opened' = {} /\ Go(p, "store")
    <3>1. ~Kept(Standard)' /\ at'[p] = "store"
      BY <2>2 DEF Kept, Go, CacheInv, TypeOK
    <3>2. Mends(p)'
      BY <3>1 DEF Mends
    <3> QED
      BY <1>1, <1>2, <1>3, <2>2, <3>2, AloneStep
  <2> QED
    BY <1>6, <2>1, <2>2 DEF RemoveFolder
<1> QED
  BY <1>4, <1>5, <1>6

\* A process that reads, or stops.
LEMMA ReadAlone ==
    ASSUME CacheInv, Alone, NEW p \in Processes, NEW x \in Parts, ReadPart(p, x) PROVE Alone'
<1>1. /\ at[p] = "read" /\ at'[p] \in {"read", "done"}
      /\ UNCHANGED <<folders, opened, want, lone>>
  BY DEF ReadPart, Go, cacheVars, CacheInv, TypeOK
<1>2. \A q \in Processes \ {p} : Stays(q) /\ left'[q] = left[q]
  BY DEF CacheInv, TypeOK, Stays, ReadPart, Go
<1>3. p \notin opened' /\ ~Installing(p)'
  BY <1>1 DEF Alone, Installing
<1>4. lone = p /\ want'[p] = Standard => Mends(p)'
  BY <1>1 DEF Alone, Mends, Whole, Kept
<1> QED
  BY <1>1, <1>2, <1>3, <1>4, AloneStep DEF StandardStays, Kept

\* A process that stops leaves the folder as it is, and installs no more.
LEMMA StopAlone ==
    ASSUME CacheInv, Alone, NEW p \in Processes, Stop(p) PROVE Alone'
<1>1. End(p) /\ opened' = opened \ {p} /\ folders' = folders /\ lone' = lone
  BY DEF Stop
<1>2. want'[p] = None /\ \A q \in Processes \ {p} : Stays(q) /\ left'[q] = left[q]
  BY <1>1 DEF End, Go, CacheInv, TypeOK, Stays
<1>3. ~Installing(p)'
  BY <1>2 DEF Installing
<1> QED
  BY <1>1, <1>2, <1>3, AloneStep DEF StandardStays, Kept

\* Every step keeps an install alone that was.
LEMMA NextAlone == CacheInv /\ Alone /\ [Next]_vars => Alone'
<1> SUFFICES ASSUME CacheInv, Alone, [Next]_vars PROVE Alone'
  OBVIOUS
<1>1. ASSUME NEW p \in Processes, Step(p) PROVE Alone'
  BY <1>1, FetchAlone, LookAlone, MoveAlone, InstallAlone, HashPartAlone, RemoveAlone, ReadAlone,
     StopAlone DEF Step
<1>2. ASSUME NEW x \in Parts, WriteOver(x) PROVE Alone'
  BY <1>2 DEF WriteOver, Alone, processVars
<1>3. CASE UNCHANGED vars \/ \E u \in Urls, h \in Fetchable : ServeAnother(u, h)
  BY <1>3 DEF vars, ServeAnother, cacheVars, processVars, Alone, Mends, Installing, Has, Whole, Kept
<1> QED
  BY <1>1, <1>2, <1>3 DEF Next

\* In every reachable state, an install beside no other leaves the standard
\* library as rk was built with, whatever was written over it and wherever
\* the installs before it stopped (install, cache::remove).
THEOREM LoneInstallsHeal == Spec => []LoneInstallHeals
<1>1. Init => CacheInv /\ Alone
  BY InitInv, InitAlone
<1>2. CacheInv /\ Alone /\ [Next]_vars => CacheInv' /\ Alone'
  BY NextInv, NextAlone
<1>3. Alone => LoneInstallHeals
  BY DEF Alone, Mends, LoneInstallHeals
<1> QED
  BY <1>1, <1>2, <1>3, PTL DEF Spec

-----------------------------------------------------------------------------
(* The cache implements LibraryStore.                                      *)

\* What LibraryStore's variables are here.
kept  == [h \in DOMAIN folders \ {Standard} |-> folders[h]]
taken == [p \in Processes |->
            IF at[p] # "done" \/ want[p] = Standard THEN None
            ELSE IF missed[p] THEN [x \in {} |-> TRUE] ELSE AllWritten]

\* What a build has read of a fetched library is all of it.
LEMMA TakenWhole ==
    CacheInv => taken = [p \in Processes |->
                            IF at[p] # "done" \/ want[p] = Standard THEN None ELSE AllWritten]
BY ReadsAll DEF taken

\* A step that leaves the fetched folders, the pairs and the builds that are
\* done alone is no step of LibraryStore's.
LEMMA Stutters ==
    ASSUME CacheInv, CacheInv', UNCHANGED urls,
           \A h \in Hashes \ {Standard} : (Kept(h) <=> Kept(h)') /\ (Kept(h) => folders'[h] = folders[h]),
           \A p \in Processes : (at[p] = "done" /\ want[p] # Standard)
                                  <=> (at'[p] = "done" /\ want'[p] # Standard)
    PROVE  UNCHANGED <<kept, urls, taken>>
<1>1. DOMAIN folders \ {Standard} = DOMAIN folders' \ {Standard}
  BY DEF CacheInv, TypeOK, Kept
<1>2. kept' = kept
  BY <1>1 DEF CacheInv, TypeOK, Kept, kept
<1>3. taken = [p \in Processes |->
                 IF at[p] # "done" \/ want[p] = Standard THEN None ELSE AllWritten]
  BY TakenWhole
<1>4. taken' = [p \in Processes |->
                 IF at'[p] # "done" \/ want'[p] = Standard THEN None ELSE AllWritten]
  BY DEF CacheInv, Knows, taken
<1>5. taken' = taken
  BY <1>3, <1>4
<1> QED
  BY <1>2, <1>5

\* A library moved to its place is one LibraryStore keeps, or a step on the
\* standard library's folder.
LEMMA MoveRefines ==
    ASSUME CacheInv, CacheInv', NEW p \in Processes, Move(p)
    PROVE  [Store!Next]_(Store!vars)
<1>1. hash[p] \in Hashes /\ at[p] = "staged" /\ UNCHANGED <<urls, want>>
  BY DEF CacheInv, TypeOK, Knows, Move
<1>2. \A q \in Processes : (at[q] = "done" /\ want[q] # Standard)
                             <=> (at'[q] = "done" /\ want'[q] # Standard)
  BY <1>1 DEF CacheInv, TypeOK, Move, Stored, Go
<1>3. CASE ~Kept(hash[p]) /\ hash[p] # Standard
  <2>1. Put(hash[p], AllWritten)
    BY <1>3 DEF Move
  <2>2. DOMAIN folders' = DOMAIN folders \cup {hash[p]}
    BY <2>1 DEF Put
  <2>3. taken' = taken
    <3>1. taken = [q \in Processes |->
                     IF at[q] # "done" \/ want[q] = Standard THEN None ELSE AllWritten]
      BY TakenWhole
    <3>2. taken' = [q \in Processes |->
                     IF at'[q] # "done" \/ want'[q] = Standard THEN None ELSE AllWritten]
      BY DEF CacheInv, Knows, taken
    <3> QED
      BY <1>2, <3>1, <3>2
  <2>4. DOMAIN kept = DOMAIN folders \ {Standard}
    BY DEF kept
  <2>5. kept' = [g \in DOMAIN kept \cup {hash[p]} |-> AllWritten]
    <3>1. DOMAIN folders' \ {Standard} = DOMAIN kept \cup {hash[p]}
      BY <1>3, <2>2, <2>4
    <3>2. \A g \in DOMAIN folders' \ {Standard} : folders'[g] = AllWritten
      BY DEF CacheInv, TypeOK, Holds, Kept
    <3> QED
      BY <3>1, <3>2 DEF kept
  <2>6. PICK h \in Fetchable : h = hash[p]
    BY <1>1, <1>3
  <2>7. Store!Keep(h)
    BY <1>1, <1>3, <2>3, <2>4, <2>5, <2>6 DEF Store!Keep, Kept, kept, taken
  <2>8. Store!Next
    BY <2>7 DEF Store!Next
  <2> QED
    BY <2>8
<1>4. CASE Kept(hash[p]) \/ hash[p] = Standard
  <2>1. \A h \in Hashes \ {Standard} : (Kept(h) <=> Kept(h)') /\ (Kept(h) => folders'[h] = folders[h])
    <3>1. CASE UNCHANGED folders
      BY <3>1 DEF Kept
    <3>2. CASE Put(hash[p], AllWritten)
      BY <1>1, <1>4, <3>2 DEF Put, Kept, CacheInv, Holds
    <3> QED
      BY <3>1, <3>2 DEF Move
  <2>2. UNCHANGED <<kept, urls, taken>>
    BY <1>1, <1>2, <2>1, Stutters
  <2> QED
    BY <2>2 DEF Store!vars, kept, taken
<1> QED
  BY <1>3, <1>4

\* A URL noted is LibraryStore's trust, of a library it keeps.
LEMMA RecordRefines ==
    ASSUME CacheInv, CacheInv', NEW p \in Processes, Record(p)
    PROVE  [Store!Next]_(Store!vars)
<1>1. at[p] = "record" /\ url[p] \in Urls /\ hash[p] \in Fetchable /\ Kept(hash[p])
  BY DEF CacheInv, Knows, Record
<1>2. folders' = folders /\ urls' = urls \cup {<<url[p], hash[p]>>}
  BY DEF Record
<1>3. \A q \in Processes : (at[q] = "done" /\ want[q] # Standard)
                             <=> (at'[q] = "done" /\ want'[q] # Standard)
  BY <1>1 DEF CacheInv, TypeOK, Record, End, Go
<1>4. taken' = taken
  <2>1. taken = [q \in Processes |->
                   IF at[q] # "done" \/ want[q] = Standard THEN None ELSE AllWritten]
    BY TakenWhole
  <2>2. taken' = [q \in Processes |->
                   IF at'[q] # "done" \/ want'[q] = Standard THEN None ELSE AllWritten]
    BY DEF CacheInv, Knows, taken
  <2> QED
    BY <1>3, <2>1, <2>2
<1>5. kept' = kept
  BY <1>2 DEF kept
<1>6. PICK u \in Urls, h \in Fetchable : u = url[p] /\ h = hash[p]
  BY <1>1
<1>7. Store!Trust(u, h)
  BY <1>1, <1>2, <1>4, <1>5, <1>6 DEF Store!Trust, Kept, kept, taken
<1> QED
  BY <1>7 DEF Store!Next

\* The last file of a fetched library read is the whole of it taken.
LEMMA ReadPartRefines ==
    ASSUME CacheInv, CacheInv', NEW p \in Processes, NEW x \in Parts, ReadPart(p, x)
    PROVE  [Store!Next]_(Store!vars)
<1>1. /\ at[p] = "read" /\ UNCHANGED <<folders, urls, want>>
      /\ at' = [at EXCEPT ![p] = IF left[p] = {x} THEN "done" ELSE "read"]
  BY DEF ReadPart, Go, cacheVars
<1>2. taken = [q \in Processes |->
                 IF at[q] # "done" \/ want[q] = Standard THEN None ELSE AllWritten]
  BY TakenWhole
<1>3. taken' = [q \in Processes |->
                 IF at'[q] # "done" \/ want'[q] = Standard THEN None ELSE AllWritten]
  BY DEF CacheInv, Knows, taken
<1>4. kept' = kept
  BY <1>1 DEF kept
<1>5. CASE want[p] # Standard /\ left[p] = {x}
  <2>1. want[p] \in Fetchable /\ <<url[p], want[p]>> \in urls
    BY <1>1, <1>5, ReadsAll
  <2>2. url[p] \in Urls
    BY <2>1 DEF CacheInv, TypeOK
  <2>3. PICK u \in Urls, h \in Fetchable : u = url[p] /\ h = want[p]
    BY <2>1, <2>2
  <2>4. at' = [at EXCEPT ![p] = "done"] /\ at \in [Processes -> Places]
    BY <1>1, <1>5 DEF CacheInv, TypeOK
  <2>5. taken' = [taken EXCEPT ![p] = AllWritten]
    BY <1>1, <1>2, <1>3, <1>5, <2>4
  <2>6. taken[p] = None
    BY <1>1, <1>2
  <2>7. Store!Take(p, u, h)
    BY <1>1, <1>4, <2>1, <2>3, <2>5, <2>6 DEF Store!Take, kept, taken
  <2> QED
    BY <2>7 DEF Store!Next
<1>6. CASE ~(want[p] # Standard /\ left[p] = {x})
  <2>1. taken' = taken
    BY <1>1, <1>2, <1>3, <1>6 DEF CacheInv, TypeOK
  <2> QED
    BY <1>1, <1>4, <2>1 DEF Store!vars, kept, taken
<1> QED
  BY <1>5, <1>6

\* A build that stops lets go of what it has read.
LEMMA StopRefines ==
    ASSUME CacheInv, CacheInv', NEW p \in Processes, Stop(p)
    PROVE  [Store!Next]_(Store!vars)
<1>1. /\ at' = [at EXCEPT ![p] = "idle"] /\ want' = [want EXCEPT ![p] = None]
      /\ UNCHANGED <<folders, urls>>
  BY DEF Stop, End, Go
<1>2. taken = [q \in Processes |->
                 IF at[q] # "done" \/ want[q] = Standard THEN None ELSE AllWritten]
  BY TakenWhole
<1>3. taken' = [q \in Processes |->
                 IF at'[q] # "done" \/ want'[q] = Standard THEN None ELSE AllWritten]
  BY DEF CacheInv, Knows, taken
<1>4. kept' = kept
  BY <1>1 DEF kept
<1>5. taken' = [taken EXCEPT ![p] = None]
  BY <1>1, <1>2, <1>3 DEF CacheInv, TypeOK
<1>6. CASE taken[p] # None
  <2>1. Store!End(p)
    BY <1>1, <1>4, <1>5, <1>6 DEF Store!End, kept, taken
  <2> QED
    BY <2>1 DEF Store!Next
<1>7. CASE taken[p] = None
  <2>1. taken' = taken
    BY <1>2, <1>5, <1>7
  <2> QED
    BY <1>1, <1>4, <2>1 DEF Store!vars, kept, taken
<1> QED
  BY <1>6, <1>7

\* A step of one process that is not done, or of none, and leaves the fetched
\* folders and the pairs alone, is a stutter.
LEMMA QuietRefines ==
    ASSUME CacheInv, CacheInv', UNCHANGED urls,
           \A h \in Hashes \ {Standard} : (Kept(h) <=> Kept(h)') /\ (Kept(h) => folders'[h] = folders[h]),
           \/ UNCHANGED <<at, want>>
           \/ \E p \in Processes : /\ at[p] # "done" /\ at'[p] # "done"
                                   /\ \A q \in Processes \ {p} : at'[q] = at[q] /\ want'[q] = want[q]
    PROVE  [Store!Next]_(Store!vars)
<1>1. UNCHANGED <<kept, urls, taken>>
  BY Stutters
<1> QED
  BY <1>1 DEF Store!vars, kept, taken

\* The steps of a process up to its reading, but for those above, leave the
\* fetched folders alone.
LEMMA ProcessRefines ==
    ASSUME CacheInv, CacheInv', NEW p \in Processes,
           \/ \E u \in Urls, h \in Fetchable : Resolve(p, u, h)
           \/ \E u \in Urls : Save(p, u)
           \/ Download(p) \/ LookInCache(p) \/ LookAgain(p) \/ Install(p) \/ OpenToRemove(p)
           \/ \E x \in Parts : HashPart(p, x)
    PROVE  [Store!Next]_(Store!vars)
<1>1. UNCHANGED <<folders, urls>>
  BY DEF Resolve, Save, Download, LookInCache, LookAgain, Install, OpenToRemove, HashPart, cacheVars
<1>2. /\ at[p] # "done" /\ at'[p] # "done"
      /\ \A q \in Processes \ {p} : at'[q] = at[q] /\ want'[q] = want[q]
  BY DEF CacheInv, TypeOK, Resolve, Save, Download, LookInCache, LookAgain, Install, Begin,
         OpenToRemove, HashPart, Stored, End, Go
<1>3. \A h \in Hashes \ {Standard} : (Kept(h) <=> Kept(h)') /\ (Kept(h) => folders'[h] = folders[h])
  BY <1>1 DEF Kept
<1> QED
  BY <1>1, <1>2, <1>3, QuietRefines

\* What is done to the standard library's folder is no step of LibraryStore's.
LEMMA StandardRefines ==
    ASSUME CacheInv, CacheInv',
           \/ \E x \in Parts : WriteOver(x)
           \/ \E p \in Processes, x \in Parts : RemovePart(p, x)
           \/ \E p \in Processes : RemoveFolder(p)
    PROVE  [Store!Next]_(Store!vars)
<1>1. CASE \E x \in Parts : WriteOver(x)
  <2>1. \A h \in Hashes \ {Standard} : (Kept(h) <=> Kept(h)') /\ (Kept(h) => folders'[h] = folders[h])
    BY <1>1 DEF WriteOver, Has, Put, Kept
  <2> QED
    BY <1>1, <2>1, QuietRefines DEF WriteOver, processVars
<1>2. CASE \E p \in Processes, x \in Parts : RemovePart(p, x)
  <2>1. \A h \in Hashes \ {Standard} : (Kept(h) <=> Kept(h)') /\ (Kept(h) => folders'[h] = folders[h])
    BY <1>2 DEF RemovePart, Has, Put, Kept
  <2> QED
    BY <1>2, <2>1, QuietRefines DEF RemovePart, processVars
<1>3. CASE \E p \in Processes : RemoveFolder(p)
  <2>1. PICK p \in Processes : RemoveFolder(p)
    BY <1>3
  <2>2. \A h \in Hashes \ {Standard} : (Kept(h) <=> Kept(h)') /\ (Kept(h) => folders'[h] = folders[h])
    BY <2>1 DEF RemoveFolder, Kept
  <2>3. /\ at[p] # "done" /\ at'[p] # "done" /\ UNCHANGED urls
        /\ \A q \in Processes \ {p} : at'[q] = at[q] /\ want'[q] = want[q]
    BY <2>1 DEF CacheInv, TypeOK, RemoveFolder, End, Go
  <2> QED
    BY <2>2, <2>3, QuietRefines
<1> QED
  BY <1>1, <1>2, <1>3

\* Every step is one of LibraryStore's, or none.
LEMMA NextRefines == CacheInv /\ CacheInv' /\ [Next]_vars => [Store!Next]_(Store!vars)
<1> SUFFICES ASSUME CacheInv, CacheInv', [Next]_vars PROVE [Store!Next]_(Store!vars)
  OBVIOUS
<1>1. CASE \E p \in Processes : Step(p)
  BY <1>1, ProcessRefines, MoveRefines, RecordRefines, ReadPartRefines, StopRefines,
     StandardRefines DEF Step
<1>2. CASE \E u \in Urls, h \in Fetchable : ServeAnother(u, h)
  <2>1. UNCHANGED <<folders, urls, at, want>>
    BY <1>2 DEF ServeAnother, cacheVars, processVars
  <2>2. \A h \in Hashes \ {Standard} : (Kept(h) <=> Kept(h)') /\ (Kept(h) => folders'[h] = folders[h])
    BY <2>1 DEF Kept
  <2> QED
    BY <2>1, <2>2, QuietRefines
<1>3. CASE \E x \in Parts : WriteOver(x)
  BY <1>3, StandardRefines
<1>4. CASE UNCHANGED vars
  BY <1>4 DEF vars, cacheVars, processVars, Store!vars
<1> QED
  BY <1>1, <1>2, <1>3, <1>4 DEF Next

\* rk's cache of fetched libraries is LibraryStore's: a library is there whole
\* or not at all, is never replaced, and is read whole (cache::store).
THEOREM CacheIsAStore == Spec => FetchedLibrariesAreKept
<1>1. Init => Store!Init
  <2> SUFFICES ASSUME Init PROVE Store!Init
    OBVIOUS
  <2>1. [h \in DOMAIN folders \ {Standard} |-> folders[h]] = [h \in {} |-> AllWritten]
    BY DEF Init
  <2>2. \A p \in Processes : at[p] = "idle"
    BY DEF Init
  <2> QED
    BY <2>1, <2>2 DEF Init, Store!Init
<1> QED
  BY <1>1, NextRefines, CacheInvHolds, PTL DEF Spec, FetchedLibrariesAreKept, Store!Spec

-----------------------------------------------------------------------------
(* What follows from LibraryStore's steps.                                 *)

\* A fetched library is in the cache for good, as it was put there, and so is
\* each pair of a URL and a hash: no process that installs, removes, stops or
\* is late with what it fetched itself takes a library away or replaces it
\* (cache::store, cache::remove, record_url).
THEOREM FetchedLibrariesStay ==
    Spec => [][/\ \A h \in Fetchable : Kept(h) => Kept(h)' /\ folders'[h] = folders[h]
               /\ urls \subseteq urls']_vars
<1> DEFINE Stay == /\ \A h \in Fetchable : Kept(h) => Kept(h)' /\ folders'[h] = folders[h]
                   /\ urls \subseteq urls'
<1>1. CacheInv /\ CacheInv' /\ [Next]_vars => [Stay]_vars
  <2> SUFFICES ASSUME CacheInv, CacheInv', [Next]_vars PROVE Stay
    OBVIOUS
  <2>1. [Store!Next]_(Store!vars)
    BY NextRefines
  <2>2. DOMAIN kept \subseteq DOMAIN kept' /\ urls \subseteq urls'
    <3>1. CASE \E h \in Fetchable : Store!Keep(h)
      BY <3>1 DEF Store!Keep, kept
    <3>2. CASE \E u \in Urls, h \in Fetchable : Store!Trust(u, h)
      BY <3>2 DEF Store!Trust, kept
    <3>3. CASE \/ \E p \in Processes, u \in Urls, h \in Fetchable : Store!Take(p, u, h)
               \/ \E p \in Processes : Store!End(p)
      BY <3>3 DEF Store!Take, Store!End, kept
    <3>4. CASE UNCHANGED Store!vars
      BY <3>4 DEF Store!vars, kept
    <3> QED
      BY <2>1, <3>1, <3>2, <3>3, <3>4 DEF Store!Next
  <2>3. ASSUME NEW h \in Fetchable, Kept(h) PROVE Kept(h)'
    <3>1. h \in DOMAIN kept
      BY <2>3 DEF kept, Kept, Fetchable
    <3>2. h \in DOMAIN kept'
      BY <2>2, <3>1
    <3> QED
      BY <3>2 DEF kept, Kept
  <2>4. ASSUME NEW h \in Fetchable, Kept(h) PROVE folders'[h] = folders[h]
    <3>1. folders[h] = AllWritten
      BY <2>4 DEF CacheInv, Holds
    <3>2. folders'[h] = AllWritten
      BY <2>3, <2>4 DEF CacheInv, Holds, AllWritten
    <3> QED
      BY <3>1, <3>2
  <2> QED
    BY <2>2, <2>3, <2>4
<1> QED
  BY <1>1, CacheInvHolds, PTL DEF Spec

\* A build that has read a fetched library has read all of it, and the library
\* is the one its URL is trusted to give, still whole in the cache: only the
\* standard library, which install replaces, is ever read in part.
THEOREM BuildsReadFetchedWhole ==
    Spec => [](\A p \in Processes : at[p] = "done" /\ want[p] # Standard =>
                  /\ ~missed[p]
                  /\ IsCached(want[p], url[p]) /\ Whole(want[p])
                  /\ <<url[p], want[p]>> \in gave)
<1>1. CacheInv => \A p \in Processes : at[p] = "done" /\ want[p] # Standard =>
                     /\ ~missed[p]
                     /\ IsCached(want[p], url[p]) /\ Whole(want[p])
                     /\ <<url[p], want[p]>> \in gave
  <2> SUFFICES ASSUME CacheInv, NEW p \in Processes, at[p] = "done", want[p] # Standard
               PROVE  /\ ~missed[p]
                      /\ IsCached(want[p], url[p]) /\ Whole(want[p])
                      /\ <<url[p], want[p]>> \in gave
    OBVIOUS
  <2>1. want[p] \in Fetchable /\ <<url[p], want[p]>> \in urls /\ ~missed[p]
    BY DEF CacheInv, Knows
  <2>2. Kept(want[p]) /\ <<url[p], want[p]>> \in gave
    BY <2>1 DEF CacheInv, Holds
  <2>3. folders[want[p]] = AllWritten
    BY <2>1, <2>2 DEF CacheInv, Holds
  <2> QED
    BY <2>1, <2>2, <2>3 DEF IsCached, Whole
<1> QED
  BY <1>1, CacheInvHolds, PTL
=============================================================================
