------------------------ MODULE WorkspaceSync_proofs ------------------------
(***************************************************************************)
(* Proofs about WorkspaceSync: types; that the workspace's files and the   *)
(* libraries' stay apart whatever the editor, the watcher and the          *)
(* configuration do; that the server ends up with the disk's files and     *)
(* with the editor's texts; and whose library a file is.                   *)
(***************************************************************************)
EXTENDS WorkspaceSync, FiniteSetTheorems, WellFoundedInduction, TLAPS

USE DEF ConfigFile

-----------------------------------------------------------------------------
(* Types.                                                                  *)

\* What the loader finds is on the disk, and below the folder asked for
\* (find_files_except).
LEMMA FoundFiles ==
    ASSUME NEW STATE dir, NEW STATE except, NEW STATE f, f \in FindFiles(dir, except)
    PROVE  /\ f \in Files
           /\ disk[f] # Gone
           /\ Below(dir, f)
           /\ Between(dir, f) \cap projects = {}
BY DEF FindFiles

\* What load_workspace gives the workspace: files found and no library's, or
\* drafts held before, each with a text.
LEMMA LoadedWorkspaceTypes ==
    ASSUME TypeOK, NEW STATE libFiles, NEW STATE d, d \in DOMAIN LoadedWorkspace(libFiles)
    PROVE  /\ d \in Docs
           /\ \/ d \in Drafts
              \/ d \in FindFiles(Root, {}) \ DOMAIN libFiles
           /\ LoadedWorkspace(libFiles)[d] \in Texts \cup {Garbled}
<1>1. d \in (FindFiles(Root, {}) \ DOMAIN libFiles) \cup (Drafts \cap DOMAIN workspace)
  BY DEF LoadedWorkspace
<1>2. CASE Held(d)
  BY <1>1, <1>2, FoundFiles DEF LoadedWorkspace, TypeOK, Docs, Held
<1>3. CASE ~Held(d)
  <2>1. d \in FindFiles(Root, {}) \ DOMAIN libFiles
    BY <1>1, <1>3 DEF Held
  <2>2. d \in Files /\ disk[d] \in Texts
    BY <2>1, FoundFiles DEF TypeOK
  <2> QED
    BY <1>1, <1>3, <2>1, <2>2 DEF LoadedWorkspace, Docs
<1> QED
  BY <1>2, <1>3

\* The files load_libraries gives a library are files.
LEMMA LoadedLibraryTypes ==
    ASSUME NEW STATE libs
    PROVE  DOMAIN LoadedLibraryFiles(libs) \subseteq Files
<1> DEFINE finds(i) == FindFiles(libs[i], {Root} \cup {libs[j] : j \in DOMAIN libs \ {i}})
<1>1. \A i : finds(i) \subseteq Files
  BY DEF FindFiles
<1>2. DOMAIN LoadedLibraryFiles(libs) = UNION {finds(i) : i \in DOMAIN libs}
  BY DEF LoadedLibraryFiles
<1> HIDE DEF finds
<1> QED
  BY <1>1, <1>2

\* Each of the places that resolve has its number among them: the least has
\* one, and the last as many as there are (resolve_all).
LEMMA PlacesAreNumbered ==
    /\ Cardinality(ResolvedPlaces) \in Nat
    /\ \A n \in 1..Cardinality(ResolvedPlaces) :
          \E i \in ResolvedPlaces : Cardinality({j \in ResolvedPlaces : j <= i}) = n
<1> DEFINE K == Cardinality(ResolvedPlaces)
           upTo(i) == {j \in ResolvedPlaces : j <= i}
           number == [i \in ResolvedPlaces |-> Cardinality(upTo(i))]
<1>1. ResolvedPlaces \subseteq Nat /\ IsFiniteSet(ResolvedPlaces) /\ K \in Nat
  <2>1. DOMAIN LibraryOrder = 1..Len(LibraryOrder) /\ Len(LibraryOrder) \in Nat
    BY FoldersAssumption
  <2>2. IsFiniteSet(DOMAIN LibraryOrder)
    BY <2>1, FS_Interval
  <2> QED
    BY <2>1, <2>2, FS_Subset, FS_CardinalityType DEF ResolvedPlaces
<1>2. \A i \in ResolvedPlaces : IsFiniteSet(upTo(i)) /\ Cardinality(upTo(i)) \in 1..K
  <2> SUFFICES ASSUME NEW i \in ResolvedPlaces
               PROVE  IsFiniteSet(upTo(i)) /\ Cardinality(upTo(i)) \in 1..K
    OBVIOUS
  <2>1. upTo(i) \in SUBSET ResolvedPlaces /\ i \in upTo(i)
    BY <1>1
  <2> HIDE DEF upTo
  <2>2. IsFiniteSet(upTo(i)) /\ Cardinality(upTo(i)) <= K
    BY <1>1, <2>1, FS_Subset
  <2>3. Cardinality(upTo(i)) \in Nat /\ Cardinality(upTo(i)) # 0
    BY <2>1, <2>2, FS_CardinalityType, FS_EmptySet
  <2> QED
    BY <1>1, <2>2, <2>3
<1>3. ASSUME NEW i \in ResolvedPlaces, NEW j \in ResolvedPlaces, i < j
      PROVE  Cardinality(upTo(i)) # Cardinality(upTo(j))
  <2>1. i \in Nat /\ j \in Nat /\ \A k \in ResolvedPlaces : k \in Nat /\ (k <= i => k <= j)
    BY <1>1, <1>3
  <2>2. j <= j /\ ~(j <= i)
    BY <1>3, <2>1
  <2>3. upTo(i) \in SUBSET upTo(j) /\ j \in upTo(j) /\ j \notin upTo(i)
    BY <2>1, <2>2
  <2> HIDE DEF upTo
  <2> QED
    BY <1>2, <2>3, FS_Subset
<1> HIDE DEF upTo
<1>4. number \in Injection(ResolvedPlaces, 1..K)
  <2>1. \A i, j \in ResolvedPlaces : i # j => i < j \/ j < i
    BY <1>1
  <2> QED
    BY <1>2, <1>3, <2>1 DEF Injection, IsInjective
<1>5. IsFiniteSet(1..K) /\ Cardinality(1..K) = K
  <2>1. 1 \in Int /\ K \in Int
    BY <1>1
  <2>2. IsFiniteSet(1..K) /\ Cardinality(1..K) = IF 1 > K THEN 0 ELSE K - 1 + 1
    BY <2>1, FS_Interval
  <2> QED
    BY <1>1, <2>2
<1>6. number \in Surjection(ResolvedPlaces, 1..K)
  BY <1>4, <1>5, FS_Injection
<1>7. \A n \in 1..K : \E i \in ResolvedPlaces : Cardinality(upTo(i)) = n
  BY <1>6 DEF Surjection
<1> QED
  BY <1>1, <1>7 DEF upTo

\* The libraries are a list of the folders config.toml and .env name.
LEMMA ResolvedTypes == ResolvedLibraries \in Seq(LibraryFolders)
<1> DEFINE place(n) == CHOOSE i \in ResolvedPlaces : Cardinality({j \in ResolvedPlaces : j <= i}) = n
<1>1. \A n \in 1..Cardinality(ResolvedPlaces) : place(n) \in ResolvedPlaces
  BY PlacesAreNumbered
<1>2. \A i \in ResolvedPlaces : LibraryOrder[i] \in LibraryFolders
  BY DEF ResolvedPlaces, LibraryFolders
<1>3. ResolvedLibraries = [n \in 1..Cardinality(ResolvedPlaces) |-> LibraryOrder[place(n)]]
  BY DEF ResolvedLibraries
<1> HIDE DEF place
<1>4. \A n \in 1..Cardinality(ResolvedPlaces) : LibraryOrder[place(n)] \in LibraryFolders
  BY <1>1, <1>2
<1>5. Cardinality(ResolvedPlaces) \in Nat
  BY PlacesAreNumbered
<1>6. ASSUME NEW m \in Nat, NEW s, s \in [1..m -> LibraryFolders] PROVE s \in Seq(LibraryFolders)
  BY <1>6
<1>7. ResolvedLibraries \in [1..Cardinality(ResolvedPlaces) -> LibraryFolders]
  BY <1>3, <1>4
<1> QED
  BY <1>5, <1>6, <1>7

\* A configuration read again keeps the types.
LEMMA RefreshTypes ==
    ASSUME TypeOK, RefreshConfiguration
    PROVE  /\ DOMAIN workspace' \subseteq Docs
           /\ \A d \in DOMAIN workspace' : workspace'[d] \in Texts \cup {Garbled}
           /\ DOMAIN libraryFiles' \subseteq Files
           /\ libraries' \in Seq(LibraryFolders)
           /\ squiggles' \in BOOLEAN
<1>1. DOMAIN libraryFiles' \subseteq Files
  BY LoadedLibraryTypes DEF RefreshConfiguration
<1>2. /\ DOMAIN workspace' \subseteq Docs
      /\ \A d \in DOMAIN workspace' : workspace'[d] \in Texts \cup {Garbled}
  BY LoadedWorkspaceTypes DEF RefreshConfiguration
<1>3. squiggles' \in BOOLEAN
  BY DEF RefreshConfiguration, TypeOK, ConfigurationErrors
<1>4. libraries' \in Seq(LibraryFolders)
  BY ResolvedTypes DEF RefreshConfiguration
<1> QED
  BY <1>1, <1>2, <1>3, <1>4

\* The first state has the types.
LEMMA InitTypes == Init => TypeOK
<1> SUFFICES ASSUME Init PROVE TypeOK
  OBVIOUS
<1>1. \A f \in FindFiles(Root, {}) : f \in Files /\ disk[f] \in Texts
  BY FoundFiles DEF Init
<1>2. /\ DOMAIN workspace \subseteq Docs
      /\ \A d \in DOMAIN workspace : workspace[d] \in Texts \cup {Garbled}
  BY <1>1 DEF Init, Docs
<1>3. DOMAIN libraryFiles \subseteq Files /\ libraries \in Seq(LibraryFolders)
  BY LoadedLibraryTypes, ResolvedTypes DEF Init
<1>4. squiggles \in BOOLEAN
  BY DEF Init, ConfigurationErrors
<1>5. /\ projects \subseteq Folders
      /\ manifest \in Manifest
      /\ standard \subseteq LibraryFolders
  BY FoldersAssumption DEF Init
<1>6. events \in Seq(Event) /\ inbox \in Seq(Message)
  BY DEF Init
<1>7. DOMAIN batch = {}
  BY DEF Init
<1>8. /\ disk \in [Files -> Texts \cup {Gone}]
      /\ buffer \in [Docs -> Texts \cup {Closed}]
      /\ busy \in BOOLEAN /\ failed \in BOOLEAN
      /\ unseen \in BOOLEAN
      /\ parted \subseteq Docs
  BY DEF Init
<1> QED
  BY <1>2, <1>3, <1>4, <1>5, <1>6, <1>7, <1>8 DEF TypeOK

\* The disk's steps keep the types.
LEMMA DiskTypes == TypeOK /\ DiskStep => TypeOK'
<1> SUFFICES ASSUME TypeOK, DiskStep PROVE TypeOK'
  OBVIOUS
<1>1. ASSUME NEW f \in Files, NEW t \in Texts, WriteFile(f, t) PROVE TypeOK'
  BY <1>1 DEF WriteFile, Seen, TypeOK, Event, FileEvent, serverVars, historyVars
<1>2. ASSUME NEW f \in Files, DeleteFile(f) PROVE TypeOK'
  BY <1>2 DEF DeleteFile, Seen, TypeOK, Event, FileEvent, serverVars, historyVars
<1>3. ASSUME NEW g \in Folders, MoveProject(g) PROVE TypeOK'
  BY <1>3 DEF MoveProject, TypeOK, editorVars, serverVars
<1>4. ASSUME NEW m \in Manifests, WriteManifest(m) PROVE TypeOK'
  BY <1>4, FoldersAssumption DEF WriteManifest, Seen, TypeOK, Event, serverVars, historyVars
<1>5. ASSUME NEW s \in Standards, WriteDotenv(s) PROVE TypeOK'
  BY <1>5, FoldersAssumption DEF WriteDotenv, TypeOK, editorVars, serverVars
<1> QED
  BY <1>1, <1>2, <1>3, <1>4, <1>5 DEF DiskStep

\* The editor's steps and the watcher's delivery keep the types.
LEMMA EditorTypes == TypeOK /\ (EditorStep \/ Deliver) => TypeOK'
<1> SUFFICES ASSUME TypeOK, EditorStep \/ Deliver PROVE TypeOK'
  OBVIOUS
<1>1. ASSUME NEW d \in Docs, NEW t \in Texts, OpenDocument(d, t) PROVE TypeOK'
  <2>1. [type |-> "open", doc |-> d, text |-> t] \in Message
    BY DEF Message
  <2> QED
    BY <1>1, <2>1 DEF OpenDocument, Send, TypeOK, diskVars, serverVars, historyVars
<1>2. ASSUME NEW d \in Docs, NEW t \in Texts, NEW whole \in BOOLEAN, EditDocument(d, t, whole)
      PROVE  TypeOK'
  <2>1. buffer[d] \in Texts
    BY <1>2 DEF EditDocument, TypeOK
  <2>2. [type |-> "edit", doc |-> d, whole |-> whole, base |-> buffer[d], text |-> t] \in Message
    BY <2>1 DEF Message
  <2> QED
    BY <1>2, <2>2 DEF EditDocument, Send, TypeOK, diskVars, serverVars, historyVars
<1>3. ASSUME NEW d \in Docs, CloseDocument(d) PROVE TypeOK'
  BY <1>3 DEF CloseDocument, TypeOK, diskVars, serverVars, historyVars
<1>4. ASSUME NEW d \in Docs, SaveDocument(d) PROVE TypeOK'
  BY <1>4 DEF SaveDocument, Seen, TypeOK, Event, FileEvent, serverVars, historyVars
<1>5. ASSUME NEW n \in 1..MaxEvents, SendWatched(n) PROVE TypeOK'
  <2>1. SubSeq(events, 1, n) \in Seq(Event) /\ SubSeq(events, n + 1, Len(events)) \in Seq(Event)
    BY <1>5 DEF SendWatched, TypeOK
  <2>2. [type |-> "watched", changes |-> SubSeq(events, 1, n)] \in Message
    BY <2>1 DEF Message
  <2> QED
    BY <1>5, <2>1, <2>2 DEF SendWatched, TypeOK, diskVars, serverVars, historyVars
<1> QED
  BY <1>1, <1>2, <1>3, <1>4, <1>5 DEF EditorStep, Deliver

\* Putting a text of the types at a document of the types keeps them.
LEMMA PutTypes ==
    ASSUME TypeOK, NEW STATE d, d \in Docs, NEW STATE t, t \in Texts \cup {Garbled}, Put(d, t)
    PROVE  /\ DOMAIN workspace' = DOMAIN workspace \cup {d}
           /\ DOMAIN workspace' \subseteq Docs
           /\ \A x \in DOMAIN workspace' : workspace'[x] \in Texts \cup {Garbled}
BY DEF Put, TypeOK

\* The oldest notification, and those after it.
LEMMA Received ==
    ASSUME TypeOK, NEW type, Receive(type)
    PROVE  /\ Head(inbox) \in Message /\ Head(inbox).type = type
           /\ inbox' \in Seq(Message)
BY DEF Receive, TypeOK

\* A document opened keeps the types, whether it is added or not
\* (DidOpen).
LEMMA OpenTypes == TypeOK /\ HandleOpen => TypeOK'
<1> SUFFICES ASSUME TypeOK, HandleOpen PROVE TypeOK'
  OBVIOUS
<1> DEFINE d == Head(inbox).doc
           t == Head(inbox).text
<1>1. d \in Docs /\ t \in Texts /\ inbox' \in Seq(Message)
  BY Received DEF HandleOpen, Message
<1>2. /\ DOMAIN workspace' \subseteq Docs
      /\ \A x \in DOMAIN workspace' : workspace'[x] \in Texts \cup {Garbled}
  <2>1. CASE Put(d, t)
    BY <1>1, <2>1, PutTypes
  <2>2. CASE UNCHANGED workspace
    BY <2>2 DEF TypeOK
  <2> QED
    BY <2>1, <2>2 DEF HandleOpen
<1>3. parted' \subseteq Docs
  BY <1>1 DEF HandleOpen, TypeOK
<1> QED
  BY <1>1, <1>2, <1>3 DEF HandleOpen, TypeOK, diskVars

\* An edit keeps the types, whatever it makes of the text (DidChange).
LEMMA EditTypes == TypeOK /\ HandleEdit => TypeOK'
<1> SUFFICES ASSUME TypeOK, HandleEdit PROVE TypeOK'
  OBVIOUS
<1> DEFINE m == Head(inbox)
<1>1. m.doc \in Docs /\ m.text \in Texts /\ inbox' \in Seq(Message)
  BY Received DEF HandleEdit, Message
<1>2. /\ DOMAIN workspace' \subseteq Docs
      /\ \A x \in DOMAIN workspace' : workspace'[x] \in Texts \cup {Garbled}
  <2>1. ASSUME Held(m.doc), NEW t \in Edited(m), Put(m.doc, t)
        PROVE  <1>2!1 /\ <1>2!2
    <3>1. t \in Texts \cup {Garbled}
      BY <1>1, <2>1 DEF Edited, Held, TypeOK
    <3> QED
      BY <1>1, <2>1, <3>1, PutTypes
  <2>2. CASE UNCHANGED workspace
    BY <2>2 DEF TypeOK
  <2> QED
    BY <2>1, <2>2 DEF HandleEdit, EditsReach
<1>3. parted' \subseteq Docs
  BY DEF HandleEdit, TypeOK
<1> QED
  BY <1>1, <1>2, <1>3 DEF HandleEdit, TypeOK, diskVars

\* The start of a batch keeps the types: the changes retained are of files
\* (DidChangeWatchedFiles, the configuration and the retained events).
LEMMA StartTypes == TypeOK /\ StartBatch => TypeOK'
<1> SUFFICES ASSUME TypeOK, StartBatch PROVE TypeOK'
  OBVIOUS
<1> DEFINE changes == Head(inbox).changes
<1>1. changes \in Seq(Event) /\ inbox' \in Seq(Message)
  BY Received DEF StartBatch, Message
<1>2. /\ DOMAIN workspace' \subseteq Docs
      /\ \A d \in DOMAIN workspace' : workspace'[d] \in Texts \cup {Garbled}
      /\ DOMAIN libraryFiles' \subseteq Files
      /\ libraries' \in Seq(LibraryFolders)
      /\ squiggles' \in BOOLEAN
      /\ unseen' \in BOOLEAN
      /\ parted' \subseteq Docs
  <2>1. CASE HasConfig(changes)
    <3>1. RefreshConfiguration
      BY <2>1 DEF StartBatch
    <3>2. /\ unseen' = FALSE
          /\ parted' = parted \cup {d \in DOMAIN workspace' \ DOMAIN workspace : buffer[d] # Closed}
      BY <2>1 DEF StartBatch
    <3> QED
      BY <3>1, <3>2, RefreshTypes DEF TypeOK
  <2>2. CASE ~HasConfig(changes)
    BY <2>2 DEF StartBatch, TypeOK, historyVars
  <2> QED
    BY <2>1, <2>2
<1>3. /\ DOMAIN batch' \subseteq Nat
      /\ \A i \in DOMAIN batch' : batch'[i] \in FileEvent
  <2>1. batch' = [i \in Retained(changes, DOMAIN libraryFiles') |-> changes[i]]
    BY DEF StartBatch
  <2>2. \A i \in Retained(changes, DOMAIN libraryFiles') :
           i \in Nat /\ changes[i] \in Event /\ changes[i].path # ConfigFile
    BY <1>1 DEF Retained
  <2> QED
    BY <2>1, <2>2 DEF Event
<1>4. busy' \in BOOLEAN /\ failed' \in BOOLEAN
  BY DEF StartBatch
<1>5. UNCHANGED <<disk, projects, manifest, standard, buffer, events>>
  BY DEF StartBatch, diskVars
<1> QED
  BY <1>1, <1>2, <1>3, <1>4, <1>5 DEF TypeOK

\* A change of a batch applied keeps the types (FileEvents::watched).
LEMMA ApplyTypes == ASSUME TypeOK, NEW i, ApplyChange(i) PROVE TypeOK'
<1> DEFINE f == batch[i].path
<1>1. i \in DOMAIN batch /\ f \in Files
  BY DEF ApplyChange, IsNext, TypeOK, FileEvent
<1>2. DOMAIN batch' \subseteq Nat /\ \A j \in DOMAIN batch' : batch'[j] \in FileEvent
  <2>1. batch' = Rest(i)
    BY DEF ApplyChange
  <2> QED
    BY <2>1 DEF Rest, TypeOK
<1>3. /\ DOMAIN workspace' \subseteq Docs
      /\ \A x \in DOMAIN workspace' : workspace'[x] \in Texts \cup {Garbled}
  <2>1. CASE disk[f] # Gone /\ Put(f, disk[f])
    <3>1. f \in Docs /\ disk[f] \in Texts \cup {Garbled}
      BY <1>1, <2>1 DEF Docs, TypeOK
    <3> QED
      BY <2>1, <3>1, PutTypes
  <2>2. CASE Drop(f)
    BY <2>2 DEF Drop, TypeOK
  <2>3. CASE UNCHANGED workspace
    BY <2>3 DEF TypeOK
  <2> QED
    BY <2>1, <2>2, <2>3 DEF ApplyChange
<1>4. failed' \in BOOLEAN /\ parted' \subseteq Docs
  BY <1>1 DEF ApplyChange, TypeOK, Docs
<1>5. UNCHANGED <<disk, projects, manifest, standard, buffer, events, inbox, squiggles,
                  libraries, libraryFiles, busy, unseen>>
  BY DEF ApplyChange, diskVars, editorVars
<1> QED
  BY <1>2, <1>3, <1>4, <1>5 DEF TypeOK

\* The end of a batch keeps the types (DidChangeWatchedFiles).
LEMMA FinishTypes == TypeOK /\ FinishBatch => TypeOK'
BY DEF FinishBatch, TypeOK, diskVars, editorVars

\* In every reachable state, every variable holds what the code's types allow.
THEOREM TypesHold == Spec => []TypeOK
<1>1. Init => TypeOK
  BY InitTypes
<1>2. TypeOK /\ [Next]_vars => TypeOK'
  <2> SUFFICES ASSUME TypeOK, [Next]_vars PROVE TypeOK'
    OBVIOUS
  <2>1. CASE DiskStep
    BY <2>1, DiskTypes
  <2>2. CASE EditorStep \/ Deliver
    BY <2>2, EditorTypes
  <2>3. CASE ServerStep
    BY <2>3, OpenTypes, EditTypes, StartTypes, ApplyTypes, FinishTypes DEF ServerStep
  <2>4. CASE UNCHANGED vars
    BY <2>4 DEF TypeOK, vars, diskVars, editorVars, serverVars, historyVars
  <2> QED
    BY <2>1, <2>2, <2>3, <2>4 DEF Next
<1> QED
  BY <1>1, <1>2, PTL DEF Spec

-----------------------------------------------------------------------------
(* Whose a file is.  That each side keeps to its files is not inductive by *)
(* itself: a batch adds the files it was found to create without asking    *)
(* again, so what was found has to last until their turn.                  *)

Apart == LibraryFilesAreNotTheWorkspaces /\ ForeignFilesAreLeftOut /\ BatchIsVetted

\* A file the workspace may hold.
Own(f) == /\ f \notin DOMAIN libraryFiles
          /\ f \in Files => /\ Below(Root, f)
                            /\ unseen \/ Between(Root, f) \cap projects = {}

\* The two invariants of the files held are one fact of each file.
LEMMA HeldAreOwn ==
    (LibraryFilesAreNotTheWorkspaces /\ ForeignFilesAreLeftOut) <=> \A d \in DOMAIN workspace : Own(d)
BY DEF LibraryFilesAreNotTheWorkspaces, ForeignFilesAreLeftOut, Own

\* What the server loads before its first notification is apart
\* (open_workspace).
LEMMA InitApart == Init => Apart
<1> SUFFICES ASSUME Init PROVE Apart
  OBVIOUS
<1>1. \A d \in DOMAIN workspace : d \in FindFiles(Root, {}) /\ d \notin DOMAIN libraryFiles
  BY DEF Init
<1>2. \A d \in DOMAIN workspace : Own(d)
  BY <1>1, FoundFiles DEF Own
<1>3. DOMAIN batch = {}
  BY DEF Init
<1> QED
  BY <1>2, <1>3, HeldAreOwn DEF Apart, BatchIsVetted

\* A step that leaves the server alone, and is seen when it moves a project.
LEMMA OutsideApart ==
    ASSUME Apart, UNCHANGED <<workspace, libraryFiles, batch>>,
           unseen' \/ UNCHANGED <<projects, unseen>>
    PROVE  Apart'
BY DEF Apart, LibraryFilesAreNotTheWorkspaces, ForeignFilesAreLeftOut, BatchIsVetted

\* Files written on the disk change nothing the server holds.
LEMMA DiskApart == Apart /\ DiskStep => Apart'
<1> SUFFICES ASSUME Apart, DiskStep PROVE Apart'
  OBVIOUS
<1>1. UNCHANGED <<workspace, libraryFiles, batch>>
  BY DEF DiskStep, WriteFile, DeleteFile, MoveProject, WriteManifest, WriteDotenv, serverVars
<1>2. unseen' \/ UNCHANGED <<projects, unseen>>
  BY DEF DiskStep, WriteFile, DeleteFile, MoveProject, WriteManifest, WriteDotenv, historyVars
<1> QED
  BY <1>1, <1>2, OutsideApart

\* What the editor sends changes nothing before it is handled.
LEMMA EditorApart == Apart /\ (EditorStep \/ Deliver) => Apart'
<1> SUFFICES ASSUME Apart, EditorStep \/ Deliver PROVE Apart'
  OBVIOUS
<1>1. UNCHANGED <<workspace, libraryFiles, batch, projects, unseen>>
  BY DEF EditorStep, Deliver, OpenDocument, EditDocument, CloseDocument, SaveDocument,
         SendWatched, diskVars, serverVars, historyVars
<1> QED
  BY <1>1, OutsideApart

\* A document opened is added only when it is the workspace's
\* (is_workspace_document).
LEMMA OpenApart == TypeOK /\ Apart /\ HandleOpen => Apart'
<1> SUFFICES ASSUME TypeOK, Apart, HandleOpen PROVE Apart'
  OBVIOUS
<1> DEFINE d == Head(inbox).doc
<1>1. UNCHANGED <<libraryFiles, batch, projects, unseen>>
  BY DEF HandleOpen, diskVars
<1>2. \A x \in DOMAIN workspace' : x \in DOMAIN workspace \/ (x = d /\ IsWorkspaceDocument(d))
  BY DEF HandleOpen, Put
<1>3. d \in Docs
  BY Received DEF HandleOpen, Message
<1>4. IsWorkspaceDocument(d) => Own(d)
  BY <1>3, DocsAssumption DEF IsWorkspaceDocument, IsWorkspaceFile, Takes, Own, Docs, TypeOK
<1>5. \A x \in DOMAIN workspace' : Own(x)'
  BY <1>1, <1>2, <1>4, HeldAreOwn DEF Own, Apart
<1>6. BatchIsVetted'
  BY <1>1 DEF Apart, BatchIsVetted
<1> QED
  BY <1>5, <1>6, HeldAreOwn DEF Apart, LibraryFilesAreNotTheWorkspaces, ForeignFilesAreLeftOut, Own

\* An edit adds no document (FileEvents::change).
LEMMA EditApart == TypeOK /\ Apart /\ HandleEdit => Apart'
<1> SUFFICES ASSUME TypeOK, Apart, HandleEdit PROVE Apart'
  OBVIOUS
<1>1. UNCHANGED <<libraryFiles, batch, projects, unseen>>
  BY DEF HandleEdit, diskVars
<1>2. DOMAIN workspace' = DOMAIN workspace
  BY DEF HandleEdit, EditsReach, Held, Put
<1> QED
  BY <1>1, <1>2 DEF Apart, LibraryFilesAreNotTheWorkspaces, ForeignFilesAreLeftOut, BatchIsVetted

\* A configuration read again loads the workspace around the libraries it
\* loaded, and vets the batch by them (refresh_configuration).
LEMMA StartApart == TypeOK /\ Apart /\ StartBatch => Apart'
<1> SUFFICES ASSUME TypeOK, Apart, StartBatch PROVE Apart'
  OBVIOUS
<1> DEFINE changes == Head(inbox).changes
<1>1. UNCHANGED <<disk, projects>>
  BY DEF StartBatch, diskVars
<1>2. \A d \in DOMAIN workspace' : Own(d)'
  <2>1. CASE HasConfig(changes)
    <3>1. RefreshConfiguration
      BY <2>1 DEF StartBatch
    <3>2. workspace' = LoadedWorkspace(libraryFiles') /\ DOMAIN libraryFiles' \subseteq Files
      BY <3>1, RefreshTypes DEF RefreshConfiguration
    <3>3. \A d \in DOMAIN workspace' : d \in Drafts \/ d \in FindFiles(Root, {}) \ DOMAIN libraryFiles'
      BY <3>2 DEF LoadedWorkspace
    <3> QED
      BY <1>1, <3>2, <3>3, FoundFiles, DocsAssumption DEF Own
  <2>2. CASE ~HasConfig(changes)
    <3>1. UNCHANGED <<workspace, libraryFiles, unseen>>
      BY <2>2 DEF StartBatch, historyVars
    <3> QED
      BY <1>1, <3>1, HeldAreOwn DEF Apart, Own
  <2> QED
    BY <2>1, <2>2
<1>3. BatchIsVetted'
  <2>1. batch' = [i \in Retained(changes, DOMAIN libraryFiles') |-> changes[i]]
    BY DEF StartBatch
  <2>2. \A i \in DOMAIN batch' : batch'[i].kind = "created" => Takes(batch'[i].path, DOMAIN libraryFiles')
    BY <2>1 DEF Retained
  <2> QED
    BY <1>1, <2>2 DEF BatchIsVetted, Takes
<1> QED
  BY <1>2, <1>3 DEF Apart, LibraryFilesAreNotTheWorkspaces, ForeignFilesAreLeftOut, Own

\* A file a batch adds is one its start vetted (FileEvents::watched).
LEMMA ApplyApart == ASSUME TypeOK, Apart, NEW i, ApplyChange(i) PROVE Apart'
<1> DEFINE f == batch[i].path
<1>1. UNCHANGED <<libraryFiles, projects, unseen>>
  BY DEF ApplyChange, diskVars
<1>2. i \in DOMAIN batch
  BY DEF ApplyChange, IsNext
<1>3. \A d \in DOMAIN workspace' : d \in DOMAIN workspace \/ (d = f /\ batch[i].kind = "created")
  BY DEF ApplyChange, Reads, Put, Drop, Held
<1>4. batch[i].kind = "created" => Own(f)
  BY <1>2 DEF Apart, BatchIsVetted, Own
<1>5. \A d \in DOMAIN workspace' : Own(d)'
  BY <1>1, <1>3, <1>4, HeldAreOwn DEF Own, Apart
<1>6. BatchIsVetted'
  <2>1. batch' = Rest(i)
    BY DEF ApplyChange
  <2> QED
    BY <1>1, <2>1 DEF Apart, BatchIsVetted, Rest
<1> QED
  BY <1>5, <1>6 DEF Apart, LibraryFilesAreNotTheWorkspaces, ForeignFilesAreLeftOut, Own

\* The end of a batch changes nothing held.
LEMMA FinishApart == Apart /\ FinishBatch => Apart'
BY OutsideApart DEF FinishBatch, diskVars

\* No file is ever the workspace's and a library's, none is held from outside
\* the workspace folder or from a project inside it, and what a batch has
\* still to create is as it was found to be.
THEOREM FilesStayApart ==
    Spec => [](LibraryFilesAreNotTheWorkspaces /\ ForeignFilesAreLeftOut /\ BatchIsVetted)
<1>1. Init => Apart
  BY InitApart
<1>2. TypeOK /\ Apart /\ [Next]_vars => Apart'
  <2> SUFFICES ASSUME TypeOK, Apart, [Next]_vars PROVE Apart'
    OBVIOUS
  <2>1. CASE DiskStep
    BY <2>1, DiskApart
  <2>2. CASE EditorStep \/ Deliver
    BY <2>2, EditorApart
  <2>3. CASE ServerStep
    BY <2>3, OpenApart, EditApart, StartApart, ApplyApart, FinishApart DEF ServerStep
  <2>4. CASE UNCHANGED vars
    BY <2>4, OutsideApart DEF vars, diskVars, serverVars, historyVars
  <2> QED
    BY <2>1, <2>2, <2>3, <2>4 DEF Next
<1>3. Apart => LibraryFilesAreNotTheWorkspaces /\ ForeignFilesAreLeftOut /\ BatchIsVetted
  BY DEF Apart
<1> QED
  BY <1>1, <1>2, <1>3, TypesHold, PTL DEF Spec

\* None of what is held is from outside the workspace folder or from a project
\* inside it, but while nothing has told the server of that project
\* (loader.rs:73-110, 180-207).
THEOREM ForeignFilesStayOut == Spec => []ForeignFilesAreLeftOut
BY FilesStayApart, PTL

\* What enters is below the workspace folder and, but in a batch vetted
\* before it, in no project on the disk at that time: also while the projects
\* changed and nothing told the server (loader.rs:180-207, 73-110).
THEOREM OnlyOwnEnter == Spec => OnlyOwnFilesEnter
<1> DEFINE Enters(f) == Below(Root, f) /\ (Between(Root, f) \cap projects = {} \/ (busy /\ unseen))
           OwnEnter == \A f \in Files \cap (DOMAIN workspace' \ DOMAIN workspace) : Enters(f)
<1>1. TypeOK /\ Apart /\ [Next]_vars => [OwnEnter]_vars
  <2> SUFFICES ASSUME TypeOK, Apart, Next,
                      NEW f \in Files, f \in DOMAIN workspace', f \notin DOMAIN workspace
               PROVE  Enters(f)
    OBVIOUS
  <2>1. CASE DiskStep \/ EditorStep \/ Deliver \/ FinishBatch
    <3>1. UNCHANGED workspace
      BY <2>1 DEF DiskStep, WriteFile, DeleteFile, MoveProject, WriteManifest, WriteDotenv,
         EditorStep, OpenDocument, EditDocument, CloseDocument, SaveDocument, Deliver,
         SendWatched, FinishBatch, serverVars
    <3> QED
      BY <3>1
  <2>2. CASE HandleOpen
    <3>1. f = Head(inbox).doc /\ IsWorkspaceDocument(f)
      BY <2>2 DEF HandleOpen, Put
    <3> QED
      BY <3>1 DEF IsWorkspaceDocument, IsWorkspaceFile, Takes
  <2>3. CASE HandleEdit
    BY <2>3 DEF HandleEdit, EditsReach, Held, Put
  <2>4. CASE StartBatch
    <3>1. workspace' = LoadedWorkspace(LoadedLibraryFiles(ResolvedLibraries))
      BY <2>4 DEF StartBatch, RefreshConfiguration
    <3>2. f \in FindFiles(Root, {})
      BY <3>1, DocsAssumption DEF LoadedWorkspace
    <3> QED
      BY <3>2, FoundFiles
  <2>5. ASSUME NEW i, ApplyChange(i) PROVE Enters(f)
    <3>1. i \in DOMAIN batch /\ busy /\ f = batch[i].path /\ batch[i].kind = "created"
      BY <2>5 DEF ApplyChange, IsNext, Reads, Put, Drop, Held
    <3> QED
      BY <3>1 DEF Apart, BatchIsVetted
  <2> QED
    BY <2>1, <2>2, <2>3, <2>4, <2>5 DEF Next, ServerStep
<1>2. Spec => []Apart
  BY FilesStayApart, PTL DEF Apart
<1> QED
  BY <1>1, <1>2, TypesHold, PTL DEF Spec, OnlyOwnFilesEnter

\* What a batch has still to create is nobody else's, up to the moment it is
\* created (lib.rs:351-372).
THEOREM BatchesStayVetted == Spec => []BatchIsVetted
BY FilesStayApart, PTL

-----------------------------------------------------------------------------
(* What a step may do to the documents held.                               *)

\* The texts a step changes, and the drafts it lets go.
TextsKept  == \A d \in DOMAIN workspace \cap DOMAIN workspace' : workspace'[d] = workspace[d]
DraftsKept == Drafts \cap DOMAIN workspace \subseteq DOMAIN workspace'

\* Steps of the disk and of the editor, and a batch's end, leave the server's
\* documents alone.
LEMMA QuietSteps ==
    DiskStep \/ EditorStep \/ Deliver \/ FinishBatch \/ UNCHANGED vars => UNCHANGED workspace
BY DEF DiskStep, WriteFile, DeleteFile, MoveProject, WriteManifest, WriteDotenv, EditorStep,
       Deliver, OpenDocument, EditDocument, CloseDocument, SaveDocument, SendWatched,
       FinishBatch, vars, serverVars

\* A document opened keeps the texts and the drafts held (FileEvents::open).
LEMMA OpenKeeps == HandleOpen => TextsKept /\ DraftsKept
BY DEF HandleOpen, Put, Held, TextsKept, DraftsKept

\* An edit changes no text but its document's, and no draft goes
\* (FileEvents::change).
LEMMA EditKeeps ==
    HandleEdit => /\ DraftsKept
                  /\ \A d \in DOMAIN workspace \cap DOMAIN workspace' :
                        workspace'[d] # workspace[d] => d = Head(inbox).doc
BY DEF HandleEdit, Put, DraftsKept

\* A configuration read again keeps the texts and the drafts held
\* (load_workspace).
LEMMA StartKeeps == StartBatch => TextsKept /\ DraftsKept
<1> SUFFICES ASSUME StartBatch PROVE TextsKept /\ DraftsKept
  OBVIOUS
<1>1. CASE HasConfig(Head(inbox).changes)
  <2>1. \E libFiles : workspace' = LoadedWorkspace(libFiles)
    BY <1>1 DEF StartBatch, RefreshConfiguration
  <2> QED
    BY <2>1 DEF LoadedWorkspace, Held, TextsKept, DraftsKept
<1>2. CASE ~HasConfig(Head(inbox).changes)
  BY <1>2 DEF StartBatch, TextsKept, DraftsKept
<1> QED
  BY <1>1, <1>2

\* A change of a batch changes no text but its file's, and no draft goes
\* (FileEvents::watched).
LEMMA ApplyKeeps ==
    ASSUME TypeOK, NEW i, ApplyChange(i)
    PROVE  /\ DraftsKept
           /\ \A d \in DOMAIN workspace \cap DOMAIN workspace' :
                 workspace'[d] # workspace[d] => batch[i] = [kind |-> "changed", path |-> d]
<1> DEFINE f == batch[i].path
<1>1. batch[i] \in FileEvent
  BY DEF ApplyChange, IsNext, TypeOK
<1>2. f \notin Drafts
  BY <1>1, DocsAssumption DEF FileEvent
<1>3. CASE Reads(batch[i]) /\ Put(f, disk[f])
  <2>1. \A d \in DOMAIN workspace : workspace'[d] # workspace[d] => d = f
    BY <1>3 DEF Put
  <2>2. Held(f) => batch[i] = [kind |-> "changed", path |-> f]
    BY <1>1, <1>3 DEF Reads, FileEvent
  <2> QED
    BY <1>3, <2>1, <2>2 DEF Put, Held, DraftsKept
<1>4. CASE Drop(f)
  BY <1>2, <1>4 DEF Drop, DraftsKept
<1>5. CASE UNCHANGED workspace
  BY <1>5 DEF DraftsKept
<1> QED
  BY <1>3, <1>4, <1>5 DEF ApplyChange

\* A held document's text changes by its own edit or its own watched change.
THEOREM TextsChangeByThemselves == Spec => TextsChangeByTheirOwnEvents
<1> DEFINE ByItsOwnEvent == \A d \in DOMAIN workspace \cap DOMAIN workspace' :
                      workspace'[d] # workspace[d] =>
                          \/ ~busy /\ Head(inbox).type = "edit" /\ Head(inbox).doc = d
                          \/ busy /\ \E i \in DOMAIN batch :
                                IsNext(i) /\ batch[i] = [kind |-> "changed", path |-> d]
<1>1. TypeOK /\ [Next]_vars => [ByItsOwnEvent]_vars
  <2> SUFFICES ASSUME TypeOK, [Next]_vars PROVE ByItsOwnEvent
    OBVIOUS
  <2>1. CASE UNCHANGED workspace
    BY <2>1
  <2>2. CASE HandleOpen \/ StartBatch
    BY <2>2, OpenKeeps, StartKeeps DEF TextsKept
  <2>3. CASE HandleEdit
    BY <2>3, EditKeeps DEF HandleEdit, Receive
  <2>4. ASSUME NEW i, ApplyChange(i) PROVE ByItsOwnEvent
    <3>1. busy /\ i \in DOMAIN batch /\ IsNext(i)
      BY <2>4 DEF ApplyChange, IsNext
    <3> QED
      BY <2>4, <3>1, ApplyKeeps
  <2> QED
    BY <2>1, <2>2, <2>3, <2>4, QuietSteps DEF Next, ServerStep
<1> QED
  BY <1>1, TypesHold, PTL DEF Spec, TextsChangeByTheirOwnEvents

\* A document with no file stays once it is held.
THEOREM DraftsStayHeld == Spec => DraftsStay
<1>1. TypeOK /\ [Next]_vars => [DraftsKept]_vars
  <2> SUFFICES ASSUME TypeOK, [Next]_vars PROVE DraftsKept
    OBVIOUS
  <2>1. CASE UNCHANGED workspace
    BY <2>1 DEF DraftsKept
  <2>2. CASE HandleOpen \/ HandleEdit \/ StartBatch
    BY <2>2, OpenKeeps, EditKeeps, StartKeeps
  <2>3. ASSUME NEW i, ApplyChange(i) PROVE DraftsKept
    BY <2>3, ApplyKeeps
  <2> QED
    BY <2>1, <2>2, <2>3, QuietSteps DEF Next, ServerStep
<1> QED
  BY <1>1, TypesHold, PTL DEF Spec, DraftsStay, DraftsKept
-----------------------------------------------------------------------------
(* What the changes on their way will do to a file.  A file is told of by  *)
(* the changes of the batch being applied, then by those of the            *)
(* notifications, oldest first, then by those the watcher has not sent:    *)
(* each of the three is a function from places, later ones at greater      *)
(* places.                                                                 *)

Is(e, kind, f) == e.kind = kind /\ e.path = f

\* One of the changes is of this kind.
Has(s, kind, f) == \E i \in DOMAIN s : Is(s[i], kind, f)

\* One of the changes creates the file, and none after it deletes it.
Restores(s, f) ==
    \E i \in DOMAIN s : /\ Is(s[i], "created", f)
                        /\ \A j \in DOMAIN s : j > i => ~Is(s[j], "deleted", f)

\* The same of the notifications.
Changes(m) == IF m.type = "watched" THEN m.changes ELSE <<>>

BoxHas(box, kind, f) == \E m \in DOMAIN box : Has(Changes(box[m]), kind, f)

BoxRestores(box, f) ==
    \E m \in DOMAIN box : /\ Restores(Changes(box[m]), f)
                          /\ \A k \in DOMAIN box : k > m => ~Has(Changes(box[k]), "deleted", f)

\* And of the changes no batch has begun with, and of all that are pending.
UnhandledHas(kind, f) == BoxHas(inbox, kind, f) \/ Has(events, kind, f)
UnhandledRestores(f)  == \/ Restores(events, f)
                         \/ ~Has(events, "deleted", f) /\ BoxRestores(inbox, f)
PendingHas(kind, f)   == Has(batch, kind, f) \/ UnhandledHas(kind, f)
PendingRestores(f)    == \/ UnhandledRestores(f)
                         \/ ~UnhandledHas("deleted", f) /\ Restores(batch, f)

\* The files the editor does not open are the disk's and the watcher's only.
Unopened == Files \ Openable
EditorsOwn ==
    /\ \A d \in Docs \ Openable : buffer[d] = Closed
    /\ \A m \in DOMAIN inbox : inbox[m].type # "watched" => inbox[m].doc \in Openable
BatchIsBusy == ~busy => DOMAIN batch = {}

\* A file that is there after it was deleted is created again by a change
\* no batch has begun with.
RestoredOnDisk(f) == disk[f] # Gone /\ UnhandledHas("deleted", f) => UnhandledRestores(f)

\* What the server holds wrongly of a file, a pending change will set right.
WillBeDropped(f) == Held(f) /\ disk[f] = Gone => PendingHas("deleted", f)
WillBeRead(f) == Held(f) /\ workspace[f] # disk[f] =>
                     PendingHas("deleted", f) \/ PendingHas("changed", f)
WillBeTaken(f) == /\ ~unseen /\ IsWorkspaceFile(f)
                  /\ ~Held(f) \/ PendingHas("deleted", f)
                  => PendingRestores(f)

CatchesUp == /\ EditorsOwn /\ BatchIsBusy
             /\ \A f \in Unopened : /\ RestoredOnDisk(f) /\ WillBeDropped(f)
                                    /\ WillBeRead(f) /\ WillBeTaken(f)

-----------------------------------------------------------------------------
(* The three lists, and the moves between them.                            *)

\* A change the watcher sees comes after every other.
LEMMA SeenLast ==
    ASSUME NEW S, NEW s \in Seq(S), NEW e, NEW f
    PROVE  /\ \A kind : Has(Append(s, e), kind, f) <=> Has(s, kind, f) \/ Is(e, kind, f)
           /\ Restores(Append(s, e), f) <=>
                 Is(e, "created", f) \/ (Restores(s, f) /\ ~Is(e, "deleted", f))
<1> DEFINE t == Append(s, e)
<1>1. /\ DOMAIN t = DOMAIN s \cup {Len(s) + 1}
      /\ t[Len(s) + 1] = e
      /\ \A i \in DOMAIN s : t[i] = s[i] /\ i < Len(s) + 1 /\ i \in Nat
  OBVIOUS
<1>2. Len(s) + 1 \in Nat /\ ~(Len(s) + 1 < Len(s) + 1)
  OBVIOUS
<1> HIDE DEF t
<1>3. \A kind : Has(t, kind, f) <=> Has(s, kind, f) \/ Is(e, kind, f)
  BY <1>1 DEF Has
<1>4. ASSUME Restores(t, f) PROVE Is(e, "created", f) \/ (Restores(s, f) /\ ~Is(e, "deleted", f))
  <2>1. PICK i \in DOMAIN t : /\ Is(t[i], "created", f)
                              /\ \A j \in DOMAIN t : j > i => ~Is(t[j], "deleted", f)
    BY <1>4 DEF Restores
  <2>2. CASE i \in DOMAIN s
    BY <1>1, <1>2, <2>1, <2>2 DEF Restores
  <2> QED
    BY <1>1, <2>1, <2>2
<1>5. ASSUME Is(e, "created", f) \/ (Restores(s, f) /\ ~Is(e, "deleted", f)) PROVE Restores(t, f)
  <2>1. CASE Is(e, "created", f)
    <3>1. \A j \in DOMAIN t : ~(j > Len(s) + 1)
      BY <1>1, <1>2
    <3> QED
      BY <1>1, <2>1, <3>1 DEF Restores
  <2>2. CASE Restores(s, f) /\ ~Is(e, "deleted", f)
    BY <1>1, <1>2, <2>2 DEF Restores
  <2> QED
    BY <1>5, <2>1, <2>2
<1> QED
  BY <1>3, <1>4, <1>5 DEF t

\* A list cut in two is its older part and then the younger.
LEMMA CutInTwo ==
    ASSUME NEW S, NEW s \in Seq(S), NEW n \in 1..Len(s), NEW f
    PROVE  LET p == SubSeq(s, 1, n)
               q == SubSeq(s, n + 1, Len(s))
           IN  /\ \A kind : Has(s, kind, f) <=> Has(p, kind, f) \/ Has(q, kind, f)
               /\ Restores(s, f) <=>
                     Restores(q, f) \/ (~Has(q, "deleted", f) /\ Restores(p, f))
<1> DEFINE p == SubSeq(s, 1, n)
           q == SubSeq(s, n + 1, Len(s))
<1>1. /\ DOMAIN s = 1..Len(s) /\ Len(s) \in Nat /\ n \in Nat /\ n <= Len(s)
      /\ DOMAIN p = 1..n /\ \A i \in 1..n : p[i] = s[i]
  OBVIOUS
<1>2. DOMAIN q = 1..(Len(s) - n) /\ \A i \in 1..(Len(s) - n) : q[i] = s[n + i]
  OBVIOUS
<1> HIDE DEF p, q
<1>3. \A i \in 1..Len(s) : i > n => i - n \in 1..(Len(s) - n) /\ q[i - n] = s[i]
  <2> TAKE i \in 1..Len(s)
  <2> HAVE i > n
  <2>1. i - n \in 1..(Len(s) - n) /\ n + (i - n) = i
    BY <1>1
  <2> QED
    BY <1>2, <2>1
<1>4. \A kind : Has(s, kind, f) <=> Has(p, kind, f) \/ Has(q, kind, f)
  <2> SUFFICES ASSUME NEW kind PROVE Has(s, kind, f) <=> Has(p, kind, f) \/ Has(q, kind, f)
    OBVIOUS
  <2>1. ASSUME Has(s, kind, f) PROVE Has(p, kind, f) \/ Has(q, kind, f)
    <3>1. PICK i \in 1..Len(s) : Is(s[i], kind, f)
      BY <1>1, <2>1 DEF Has
    <3>2. CASE i <= n
      BY <1>1, <3>1, <3>2 DEF Has
    <3>3. CASE i > n
      BY <1>2, <1>3, <3>1, <3>3 DEF Has
    <3> QED
      BY <1>1, <3>2, <3>3
  <2>2. ASSUME Has(p, kind, f) PROVE Has(s, kind, f)
    <3>1. PICK i \in 1..n : Is(p[i], kind, f)
      BY <1>1, <2>2 DEF Has
    <3> QED
      BY <1>1, <3>1 DEF Has
  <2>3. ASSUME Has(q, kind, f) PROVE Has(s, kind, f)
    <3>1. PICK i \in 1..(Len(s) - n) : Is(q[i], kind, f)
      BY <1>2, <2>3 DEF Has
    <3>2. n + i \in 1..Len(s)
      BY <1>1
    <3> QED
      BY <1>1, <1>2, <3>1, <3>2 DEF Has
  <2> QED
    BY <2>1, <2>2, <2>3
<1>5. ASSUME Restores(s, f)
      PROVE  Restores(q, f) \/ (~Has(q, "deleted", f) /\ Restores(p, f))
  <2>1. PICK i \in 1..Len(s) : /\ Is(s[i], "created", f)
                               /\ \A j \in 1..Len(s) : j > i => ~Is(s[j], "deleted", f)
    BY <1>1, <1>5 DEF Restores
  <2>2. CASE i > n
    <3>1. \A j \in 1..(Len(s) - n) : j > i - n => n + j \in 1..Len(s) /\ n + j > i
      BY <1>1
    <3>2. \A j \in DOMAIN q : j > i - n => ~Is(q[j], "deleted", f)
      BY <1>2, <2>1, <3>1
    <3> QED
      BY <1>2, <1>3, <2>1, <2>2, <3>2 DEF Restores
  <2>3. CASE i <= n
    <3>1. \A j \in 1..(Len(s) - n) : n + j \in 1..Len(s) /\ n + j > i
      BY <1>1, <2>3
    <3>2. ~Has(q, "deleted", f)
      BY <1>2, <2>1, <3>1 DEF Has
    <3>3. Restores(p, f)
      BY <1>1, <2>1, <2>3 DEF Restores
    <3> QED
      BY <3>2, <3>3
  <2> QED
    BY <1>1, <2>2, <2>3
<1>6. ASSUME Restores(q, f) PROVE Restores(s, f)
  <2>1. PICK i \in 1..(Len(s) - n) : /\ Is(q[i], "created", f)
                                     /\ \A j \in 1..(Len(s) - n) : j > i => ~Is(q[j], "deleted", f)
    BY <1>2, <1>6 DEF Restores
  <2>2. n + i \in 1..Len(s) /\ Is(s[n + i], "created", f)
    BY <1>1, <1>2, <2>1
  <2>3. ASSUME NEW j \in 1..Len(s), j > n + i PROVE ~Is(s[j], "deleted", f)
    <3>1. j > n /\ j - n > i
      BY <1>1, <2>3
    <3> QED
      BY <1>3, <2>1, <3>1
  <2> QED
    BY <1>1, <2>2, <2>3 DEF Restores
<1>7. ASSUME ~Has(q, "deleted", f), Restores(p, f) PROVE Restores(s, f)
  <2>1. PICK i \in 1..n : /\ Is(p[i], "created", f)
                          /\ \A j \in 1..n : j > i => ~Is(p[j], "deleted", f)
    BY <1>1, <1>7 DEF Restores
  <2>2. ASSUME NEW j \in 1..Len(s), j > i PROVE ~Is(s[j], "deleted", f)
    <3>1. CASE j <= n
      BY <1>1, <2>1, <2>2, <3>1
    <3>2. CASE j > n
      BY <1>2, <1>3, <1>7, <3>2 DEF Has
    <3> QED
      BY <1>1, <3>1, <3>2
  <2> QED
    BY <1>1, <2>1, <2>2 DEF Restores
<1> QED
  BY <1>4, <1>5, <1>6, <1>7 DEF p, q

\* A notification sent comes after every other.
LEMMA SentLast ==
    ASSUME NEW S, NEW box \in Seq(S), NEW m, NEW f
    PROVE  /\ \A kind : BoxHas(Append(box, m), kind, f) <=>
                            BoxHas(box, kind, f) \/ Has(Changes(m), kind, f)
           /\ BoxRestores(Append(box, m), f) <=>
                 \/ Restores(Changes(m), f)
                 \/ BoxRestores(box, f) /\ ~Has(Changes(m), "deleted", f)
<1> DEFINE t == Append(box, m)
<1>1. /\ DOMAIN t = DOMAIN box \cup {Len(box) + 1}
      /\ t[Len(box) + 1] = m
      /\ \A i \in DOMAIN box : t[i] = box[i] /\ i < Len(box) + 1 /\ i \in Nat
  OBVIOUS
<1>2. Len(box) + 1 \in Nat
  OBVIOUS
<1> HIDE DEF t
<1>3. \A kind : BoxHas(t, kind, f) <=> BoxHas(box, kind, f) \/ Has(Changes(m), kind, f)
  BY <1>1 DEF BoxHas
<1>4. ASSUME BoxRestores(t, f)
      PROVE  Restores(Changes(m), f) \/ (BoxRestores(box, f) /\ ~Has(Changes(m), "deleted", f))
  <2>1. PICK i \in DOMAIN t : /\ Restores(Changes(t[i]), f)
                              /\ \A j \in DOMAIN t : j > i => ~Has(Changes(t[j]), "deleted", f)
    BY <1>4 DEF BoxRestores
  <2>2. CASE i \in DOMAIN box
    BY <1>1, <1>2, <2>1, <2>2 DEF BoxRestores
  <2> QED
    BY <1>1, <2>1, <2>2
<1>5. ASSUME Restores(Changes(m), f) PROVE BoxRestores(t, f)
  <2>1. \A j \in DOMAIN t : ~(j > Len(box) + 1)
    BY <1>1, <1>2
  <2> QED
    BY <1>1, <1>5, <2>1 DEF BoxRestores
<1>6. ASSUME BoxRestores(box, f), ~Has(Changes(m), "deleted", f) PROVE BoxRestores(t, f)
  BY <1>1, <1>2, <1>6 DEF BoxRestores
<1> QED
  BY <1>3, <1>4, <1>5, <1>6 DEF t

\* The oldest notification comes before the rest.
LEMMA OldestFirst ==
    ASSUME NEW S, NEW box \in Seq(S), box # <<>>, NEW f
    PROVE  LET h == Changes(Head(box))
               r == Tail(box)
           IN  /\ \A kind : BoxHas(box, kind, f) <=> Has(h, kind, f) \/ BoxHas(r, kind, f)
               /\ BoxRestores(box, f) <=>
                     BoxRestores(r, f) \/ (~BoxHas(r, "deleted", f) /\ Restores(h, f))
<1> DEFINE h == Changes(Head(box))
           r == Tail(box)
<1>1. /\ DOMAIN box = 1..Len(box) /\ Len(box) \in Nat /\ Len(box) >= 1
      /\ Head(box) = box[1]
      /\ DOMAIN r = 1..(Len(box) - 1) /\ \A i \in 1..(Len(box) - 1) : r[i] = box[i + 1]
  OBVIOUS
<1>2. h = Changes(box[1])
  BY <1>1
<1>3. \A i \in 1..Len(box) : i > 1 => i - 1 \in 1..(Len(box) - 1) /\ r[i - 1] = box[i]
  BY <1>1
<1>4. \A i \in 1..(Len(box) - 1) : i + 1 \in 1..Len(box)
  BY <1>1
<1> HIDE DEF h, r
<1>5. \A kind : BoxHas(box, kind, f) <=> Has(h, kind, f) \/ BoxHas(r, kind, f)
  <2> SUFFICES ASSUME NEW kind
               PROVE  BoxHas(box, kind, f) <=> Has(h, kind, f) \/ BoxHas(r, kind, f)
    OBVIOUS
  <2>1. ASSUME BoxHas(box, kind, f) PROVE Has(h, kind, f) \/ BoxHas(r, kind, f)
    <3>1. PICK i \in 1..Len(box) : Has(Changes(box[i]), kind, f)
      BY <1>1, <2>1 DEF BoxHas
    <3>2. CASE i = 1
      BY <1>2, <3>1, <3>2
    <3>3. CASE i > 1
      BY <1>1, <1>3, <3>1, <3>3 DEF BoxHas
    <3> QED
      BY <1>1, <3>2, <3>3
  <2>2. ASSUME Has(h, kind, f) PROVE BoxHas(box, kind, f)
    BY <1>1, <1>2, <2>2 DEF BoxHas
  <2>3. ASSUME BoxHas(r, kind, f) PROVE BoxHas(box, kind, f)
    BY <1>1, <1>4, <2>3 DEF BoxHas
  <2> QED
    BY <2>1, <2>2, <2>3
<1>6. ASSUME BoxRestores(box, f)
      PROVE  BoxRestores(r, f) \/ (~BoxHas(r, "deleted", f) /\ Restores(h, f))
  <2>1. PICK i \in 1..Len(box) :
            /\ Restores(Changes(box[i]), f)
            /\ \A j \in 1..Len(box) : j > i => ~Has(Changes(box[j]), "deleted", f)
    BY <1>1, <1>6 DEF BoxRestores
  <2>2. CASE i = 1
    <3>1. \A j \in 1..(Len(box) - 1) : ~Has(Changes(r[j]), "deleted", f)
      BY <1>1, <1>4, <2>1, <2>2
    <3> QED
      BY <1>1, <1>2, <2>1, <2>2, <3>1 DEF BoxHas
  <2>3. CASE i > 1
    <3>1. \A j \in 1..(Len(box) - 1) : j > i - 1 => j + 1 > i
      BY <1>1
    <3>2. \A j \in DOMAIN r : j > i - 1 => ~Has(Changes(r[j]), "deleted", f)
      BY <1>1, <1>4, <2>1, <3>1
    <3> QED
      BY <1>1, <1>3, <2>1, <2>3, <3>2 DEF BoxRestores
  <2> QED
    BY <1>1, <2>2, <2>3
<1>7. ASSUME BoxRestores(r, f) PROVE BoxRestores(box, f)
  <2>1. PICK i \in 1..(Len(box) - 1) :
            /\ Restores(Changes(r[i]), f)
            /\ \A j \in 1..(Len(box) - 1) : j > i => ~Has(Changes(r[j]), "deleted", f)
    BY <1>1, <1>7 DEF BoxRestores
  <2>2. ASSUME NEW j \in 1..Len(box), j > i + 1 PROVE ~Has(Changes(box[j]), "deleted", f)
    <3>1. j > 1 /\ j - 1 > i
      BY <1>1, <2>2
    <3> QED
      BY <1>3, <2>1, <3>1
  <2> QED
    BY <1>1, <1>4, <2>1, <2>2 DEF BoxRestores
<1>8. ASSUME ~BoxHas(r, "deleted", f), Restores(h, f) PROVE BoxRestores(box, f)
  <2>1. ASSUME NEW j \in 1..Len(box), j > 1 PROVE ~Has(Changes(box[j]), "deleted", f)
    BY <1>1, <1>3, <1>8, <2>1 DEF BoxHas
  <2> QED
    BY <1>1, <1>2, <1>8, <2>1 DEF BoxRestores
<1> QED
  BY <1>5, <1>6, <1>7, <1>8 DEF h, r

\* No change is of any file in an empty list.
LEMMA NothingPending ==
    ASSUME NEW s, DOMAIN s = {}, NEW f
    PROVE  (\A kind : ~Has(s, kind, f)) /\ ~Restores(s, f)
BY DEF Has, Restores

-----------------------------------------------------------------------------
(* What is pending after each step.                                        *)

\* A change the watcher sees.
LEMMA SeenPending ==
    ASSUME TypeOK, NEW e, events' = Append(events, e), UNCHANGED <<inbox, batch>>, NEW f
    PROVE  /\ \A kind : /\ UnhandledHas(kind, f)' <=> UnhandledHas(kind, f) \/ Is(e, kind, f)
                        /\ PendingHas(kind, f)' <=> PendingHas(kind, f) \/ Is(e, kind, f)
           /\ UnhandledRestores(f)' <=>
                 Is(e, "created", f) \/ (UnhandledRestores(f) /\ ~Is(e, "deleted", f))
           /\ PendingRestores(f)' <=>
                 Is(e, "created", f) \/ (PendingRestores(f) /\ ~Is(e, "deleted", f))
<1>1. events \in Seq(Event)
  BY DEF TypeOK
<1>2. /\ \A kind : Has(events', kind, f) <=> Has(events, kind, f) \/ Is(e, kind, f)
      /\ Restores(events', f) <=>
            Is(e, "created", f) \/ (Restores(events, f) /\ ~Is(e, "deleted", f))
  BY <1>1, SeenLast
<1>3. ~(Is(e, "created", f) /\ Is(e, "deleted", f))
  BY DEF Is
<1>4. \A kind : UnhandledHas(kind, f)' <=> UnhandledHas(kind, f) \/ Is(e, kind, f)
  BY <1>2 DEF UnhandledHas
<1>5. \A kind : PendingHas(kind, f)' <=> PendingHas(kind, f) \/ Is(e, kind, f)
  BY <1>4 DEF PendingHas
<1>6. UnhandledRestores(f)' <=>
         Is(e, "created", f) \/ (UnhandledRestores(f) /\ ~Is(e, "deleted", f))
  BY <1>2, <1>3 DEF UnhandledRestores
<1>7. PendingRestores(f)' <=>
         Is(e, "created", f) \/ (PendingRestores(f) /\ ~Is(e, "deleted", f))
  BY <1>3, <1>4, <1>6 DEF PendingRestores
<1> QED
  BY <1>4, <1>5, <1>6, <1>7

SamePending(f) ==
    /\ \A kind : /\ UnhandledHas(kind, f)' <=> UnhandledHas(kind, f)
                 /\ PendingHas(kind, f)' <=> PendingHas(kind, f)
    /\ UnhandledRestores(f)' <=> UnhandledRestores(f)
    /\ PendingRestores(f)' <=> PendingRestores(f)

\* A notification of the editor's sent.
LEMMA SentPending ==
    ASSUME TypeOK, NEW m, m.type # "watched", inbox' = Append(inbox, m),
           UNCHANGED <<events, batch>>, NEW f
    PROVE  SamePending(f)
<1>1. inbox \in Seq(Message)
  BY DEF TypeOK
<1>2. (\A kind : ~Has(Changes(m), kind, f)) /\ ~Restores(Changes(m), f)
  <2>1. DOMAIN Changes(m) = {}
    BY DEF Changes
  <2> QED
    BY <2>1, NothingPending
<1>3. (\A kind : BoxHas(inbox', kind, f) <=> BoxHas(inbox, kind, f))
      /\ (BoxRestores(inbox', f) <=> BoxRestores(inbox, f))
  BY <1>1, <1>2, SentLast
<1> QED
  BY <1>3 DEF SamePending, UnhandledHas, UnhandledRestores, PendingHas, PendingRestores

\* A notification of the editor's handled.
LEMMA HandledPending ==
    ASSUME TypeOK, NEW type, type # "watched", Receive(type), UNCHANGED <<events, batch>>, NEW f
    PROVE  SamePending(f)
<1>1. inbox \in Seq(Message) /\ inbox # <<>> /\ inbox' = Tail(inbox)
  BY DEF TypeOK, Receive
<1>2. (\A kind : ~Has(Changes(Head(inbox)), kind, f)) /\ ~Restores(Changes(Head(inbox)), f)
  BY NothingPending DEF Changes, Receive
<1>3. (\A kind : BoxHas(inbox', kind, f) <=> BoxHas(inbox, kind, f))
      /\ (BoxRestores(inbox', f) <=> BoxRestores(inbox, f))
  BY <1>1, <1>2, OldestFirst
<1> QED
  BY <1>3 DEF SamePending, UnhandledHas, UnhandledRestores, PendingHas, PendingRestores

\* The watcher's changes sent.
LEMMA DeliveredPending ==
    ASSUME TypeOK, NEW n, SendWatched(n), NEW f
    PROVE  SamePending(f)
<1> DEFINE p == SubSeq(events, 1, n)
           q == SubSeq(events, n + 1, Len(events))
           m == [type |-> "watched", changes |-> p]
<1>1. /\ inbox \in Seq(Message) /\ events \in Seq(Event) /\ n \in 1..Len(events)
      /\ inbox' = Append(inbox, m) /\ events' = q /\ UNCHANGED batch
  BY DEF TypeOK, SendWatched, serverVars
<1>2. Changes(m) = p
  BY DEF Changes
<1>3. /\ \A kind : Has(events, kind, f) <=> Has(p, kind, f) \/ Has(q, kind, f)
      /\ Restores(events, f) <=> Restores(q, f) \/ (~Has(q, "deleted", f) /\ Restores(p, f))
  BY <1>1, CutInTwo
<1>4. /\ \A kind : BoxHas(inbox', kind, f) <=> BoxHas(inbox, kind, f) \/ Has(p, kind, f)
      /\ BoxRestores(inbox', f) <=>
            Restores(p, f) \/ (BoxRestores(inbox, f) /\ ~Has(p, "deleted", f))
  <2> HIDE DEF m, p
  <2> QED
    BY <1>1, <1>2, SentLast
<1> HIDE DEF m, p, q
<1>5. \A kind : UnhandledHas(kind, f)' <=> UnhandledHas(kind, f)
  BY <1>1, <1>3, <1>4 DEF UnhandledHas
<1>6. UnhandledRestores(f)' <=> UnhandledRestores(f)
  BY <1>1, <1>3, <1>4 DEF UnhandledRestores
<1> QED
  BY <1>1, <1>5, <1>6 DEF SamePending, PendingHas, PendingRestores

\* The oldest change of a batch is applied.
LEMMA AppliedPending ==
    ASSUME TypeOK, NEW i, ApplyChange(i), NEW f
    PROVE  /\ \A kind : /\ UnhandledHas(kind, f)' <=> UnhandledHas(kind, f)
                        /\ PendingHas(kind, f) <=> PendingHas(kind, f)' \/ Is(batch[i], kind, f)
           /\ UnhandledRestores(f)' <=> UnhandledRestores(f)
           /\ PendingRestores(f) <=>
                 \/ PendingRestores(f)'
                 \/ ~PendingHas("deleted", f)' /\ Is(batch[i], "created", f)
<1>1. /\ i \in DOMAIN batch /\ DOMAIN batch \subseteq Nat /\ batch' = Rest(i)
      /\ \A j \in DOMAIN batch : j # i => j > i
      /\ UNCHANGED <<inbox, events>>
  BY DEF TypeOK, ApplyChange, IsNext, editorVars
<1>2. DOMAIN batch' = DOMAIN batch \ {i} /\ \A j \in DOMAIN batch' : batch'[j] = batch[j]
  BY <1>1 DEF Rest
<1>3. \A kind : Has(batch, kind, f) <=> Has(batch', kind, f) \/ Is(batch[i], kind, f)
  BY <1>1, <1>2 DEF Has
<1>4. Restores(batch, f) <=>
         Restores(batch', f) \/ (~Has(batch', "deleted", f) /\ Is(batch[i], "created", f))
  <2>1. ASSUME Restores(batch, f)
        PROVE  Restores(batch', f) \/ (~Has(batch', "deleted", f) /\ Is(batch[i], "created", f))
    <3>1. PICK k \in DOMAIN batch : /\ Is(batch[k], "created", f)
                                    /\ \A j \in DOMAIN batch : j > k => ~Is(batch[j], "deleted", f)
      BY <2>1 DEF Restores
    <3>2. CASE k = i
      BY <1>1, <1>2, <3>1, <3>2 DEF Has
    <3>3. CASE k # i
      BY <1>2, <3>1, <3>3 DEF Restores
    <3> QED
      BY <3>2, <3>3
  <2>2. ASSUME Restores(batch', f) PROVE Restores(batch, f)
    <3>1. PICK k \in DOMAIN batch' : /\ Is(batch'[k], "created", f)
                                     /\ \A j \in DOMAIN batch' : j > k => ~Is(batch'[j], "deleted", f)
      BY <2>2 DEF Restores
    <3>2. k \in DOMAIN batch /\ k > i /\ ~(i > k)
      BY <1>1, <1>2, <3>1
    <3> QED
      BY <1>2, <3>1, <3>2 DEF Restores
  <2>3. ASSUME ~Has(batch', "deleted", f), Is(batch[i], "created", f) PROVE Restores(batch, f)
    <3>1. \A j \in DOMAIN batch : j > i => ~Is(batch[j], "deleted", f)
      BY <1>1, <1>2, <2>3 DEF Has
    <3> QED
      BY <1>1, <2>3, <3>1 DEF Restores
  <2> QED
    BY <2>1, <2>2, <2>3
<1>5. \A kind : UnhandledHas(kind, f)' <=> UnhandledHas(kind, f)
  BY <1>1 DEF UnhandledHas
<1>6. UnhandledRestores(f)' <=> UnhandledRestores(f)
  BY <1>1 DEF UnhandledRestores
<1>7. \A kind : PendingHas(kind, f) <=> PendingHas(kind, f)' \/ Is(batch[i], kind, f)
  BY <1>3, <1>5 DEF PendingHas
<1> QED
  BY <1>3, <1>4, <1>5, <1>6, <1>7 DEF PendingHas, PendingRestores

\* A batch begins with the oldest notification: every change of a file that
\* is the workspace's is applied, and of another file only no creation.
LEMMA BegunPending ==
    ASSUME TypeOK, BatchIsBusy, StartBatch, NEW f \in Files
    PROVE  /\ \A kind : kind # "created" =>
                 /\ PendingHas(kind, f)' <=> UnhandledHas(kind, f)
                 /\ UnhandledHas(kind, f)' => UnhandledHas(kind, f)
           /\ \A kind : ~Has(batch, kind, f)
           /\ ~Restores(batch, f)
           /\ UnhandledRestores(f) /\ UnhandledHas("deleted", f)' => UnhandledRestores(f)'
           /\ UnhandledRestores(f) /\ Takes(f, DOMAIN libraryFiles') => PendingRestores(f)'
<1> DEFINE h == Head(inbox).changes
<1>1. /\ inbox \in Seq(Message) /\ inbox # <<>> /\ inbox' = Tail(inbox)
      /\ Changes(Head(inbox)) = h /\ h \in Seq(Event) /\ UNCHANGED events
  BY Received DEF TypeOK, StartBatch, Receive, Changes, Message
<1>2. (\A kind : ~Has(batch, kind, f)) /\ ~Restores(batch, f)
  BY NothingPending DEF BatchIsBusy, StartBatch, Receive
<1>3. /\ DOMAIN batch' = Retained(h, DOMAIN libraryFiles')
      /\ \A i \in DOMAIN batch' : batch'[i] = h[i]
  BY DEF StartBatch
<1>4. \A i \in DOMAIN batch' : i \in DOMAIN h
  BY <1>3 DEF Retained
<1>5. \A i \in DOMAIN h : h[i].path = f /\ (h[i].kind = "created" => Takes(f, DOMAIN libraryFiles'))
                          => i \in DOMAIN batch'
  <2>1. f # ConfigFile
    BY DocsAssumption
  <2> QED
    BY <1>3, <2>1 DEF Retained
<1>6. \A kind : kind # "created" => (Has(batch', kind, f) <=> Has(h, kind, f))
  BY <1>3, <1>4, <1>5 DEF Has, Is
<1>7. ASSUME Restores(h, f), Takes(f, DOMAIN libraryFiles') PROVE Restores(batch', f)
  <2>1. PICK i \in DOMAIN h : /\ Is(h[i], "created", f)
                              /\ \A j \in DOMAIN h : j > i => ~Is(h[j], "deleted", f)
    BY <1>7 DEF Restores
  <2>2. i \in DOMAIN batch'
    BY <1>5, <1>7, <2>1 DEF Is
  <2> QED
    BY <1>3, <1>4, <2>1, <2>2 DEF Restores
<1>8. /\ \A kind : BoxHas(inbox, kind, f) <=> Has(h, kind, f) \/ BoxHas(inbox', kind, f)
      /\ BoxRestores(inbox, f) <=>
            BoxRestores(inbox', f) \/ (~BoxHas(inbox', "deleted", f) /\ Restores(h, f))
  BY <1>1, OldestFirst
<1> HIDE DEF h
<1>9. \A kind : kind # "created" =>
         /\ PendingHas(kind, f)' <=> UnhandledHas(kind, f)
         /\ UnhandledHas(kind, f)' => UnhandledHas(kind, f)
  BY <1>1, <1>6, <1>8 DEF PendingHas, UnhandledHas
<1>10. UnhandledRestores(f) /\ UnhandledHas("deleted", f)' => UnhandledRestores(f)'
  BY <1>1, <1>8 DEF UnhandledHas, UnhandledRestores
<1>11. UnhandledRestores(f) /\ Takes(f, DOMAIN libraryFiles') => PendingRestores(f)'
  BY <1>1, <1>7, <1>8 DEF UnhandledHas, UnhandledRestores, PendingRestores
<1> QED
  BY <1>2, <1>9, <1>10, <1>11

-----------------------------------------------------------------------------
(* Every step keeps what the pending changes will set right.               *)

FileCatchesUp(f) == RestoredOnDisk(f) /\ WillBeDropped(f) /\ WillBeRead(f) /\ WillBeTaken(f)

\* A step after which everything said of the file is as it was.
LEMMA SameCatchesUp ==
    ASSUME NEW f, FileCatchesUp(f), SamePending(f), disk'[f] = disk[f],
           UNCHANGED <<workspace, libraryFiles>>,
           unseen' \/ UNCHANGED <<projects, unseen>>
    PROVE  FileCatchesUp(f)'
<1>1. RestoredOnDisk(f)' /\ WillBeDropped(f)' /\ WillBeRead(f)'
  BY DEF FileCatchesUp, RestoredOnDisk, WillBeDropped, WillBeRead, SamePending, Held
<1>2. WillBeTaken(f)'
  BY DEF FileCatchesUp, WillBeTaken, SamePending, Held, IsWorkspaceFile, Takes
<1> QED
  BY <1>1, <1>2 DEF FileCatchesUp

\* A change the watcher sees, of another file or of none.
LEMMA OtherSeen ==
    ASSUME TypeOK, NEW e, events' = Append(events, e), UNCHANGED <<inbox, batch>>,
           NEW f, e.path # f
    PROVE  SamePending(f)
BY SeenPending DEF SamePending, Is

\* A file written or deleted on the disk.
LEMMA WrittenCatchesUp ==
    ASSUME TypeOK, NEW f \in Files, FileCatchesUp(f),
           NEW e, events' = Append(events, e), e.path = f, UNCHANGED <<inbox, batch>>,
           UNCHANGED <<workspace, libraryFiles, projects, unseen>>,
           \/ disk'[f] = Gone /\ e.kind = "deleted"
           \/ disk[f] # Gone /\ disk'[f] # Gone /\ e.kind = "changed"
           \/ disk[f] = Gone /\ disk'[f] # Gone /\ e.kind = "created"
    PROVE  FileCatchesUp(f)'
<1>1. /\ \A kind : /\ UnhandledHas(kind, f)' <=> UnhandledHas(kind, f) \/ kind = e.kind
                   /\ PendingHas(kind, f)' <=> PendingHas(kind, f) \/ kind = e.kind
      /\ UnhandledRestores(f)' <=>
            e.kind = "created" \/ (UnhandledRestores(f) /\ e.kind # "deleted")
      /\ PendingRestores(f)' <=>
            e.kind = "created" \/ (PendingRestores(f) /\ e.kind # "deleted")
  BY SeenPending DEF Is
<1>2. RestoredOnDisk(f)'
  BY <1>1 DEF FileCatchesUp, RestoredOnDisk
<1>3. WillBeDropped(f)'
  BY <1>1 DEF WillBeDropped
<1>4. WillBeRead(f)'
  <2>1. CASE disk[f] = Gone
    BY <1>1, <2>1 DEF FileCatchesUp, WillBeDropped, WillBeRead, Held
  <2>2. CASE disk[f] # Gone
    BY <1>1, <2>2 DEF WillBeRead
  <2> QED
    BY <2>1, <2>2
<1>5. WillBeTaken(f)'
  BY <1>1 DEF FileCatchesUp, WillBeTaken, Held, IsWorkspaceFile, Takes
<1> QED
  BY <1>2, <1>3, <1>4, <1>5 DEF FileCatchesUp

\* The disk's steps.
LEMMA DiskCatchesUp ==
    ASSUME TypeOK, DiskStep, NEW f \in Files, FileCatchesUp(f)
    PROVE  FileCatchesUp(f)'
<1>1. ASSUME NEW g \in Files, NEW t \in Texts, WriteFile(g, t) PROVE FileCatchesUp(f)'
  <2> DEFINE e == [kind |-> IF disk[g] = Gone THEN "created" ELSE "changed", path |-> g]
  <2>1. /\ events' = Append(events, e) /\ disk' = [disk EXCEPT ![g] = t]
        /\ UNCHANGED <<inbox, batch, workspace, libraryFiles, projects, unseen>>
    BY <1>1 DEF WriteFile, Seen, serverVars, historyVars
  <2>2. CASE g = f
    <3>1. disk'[f] = t /\ t # Gone
      BY <2>1, <2>2, DocsAssumption DEF TypeOK
    <3>2. e.path = f /\ e.kind = IF disk[f] = Gone THEN "created" ELSE "changed"
      BY <2>2
    <3> HIDE DEF e
    <3> QED
      BY <2>1, <3>1, <3>2, WrittenCatchesUp
  <2>3. CASE g # f
    <3>1. disk'[f] = disk[f] /\ e.path # f
      BY <2>1, <2>3 DEF TypeOK
    <3> HIDE DEF e
    <3> QED
      BY <2>1, <3>1, OtherSeen, SameCatchesUp
  <2> QED
    BY <2>2, <2>3
<1>2. ASSUME NEW g \in Files, DeleteFile(g) PROVE FileCatchesUp(f)'
  <2> DEFINE e == [kind |-> "deleted", path |-> g]
  <2>1. /\ events' = Append(events, e) /\ disk' = [disk EXCEPT ![g] = Gone]
        /\ UNCHANGED <<inbox, batch, workspace, libraryFiles, projects, unseen>>
    BY <1>2 DEF DeleteFile, Seen, serverVars, historyVars
  <2>2. CASE g = f
    <3>1. disk'[f] = Gone /\ e.path = f /\ e.kind = "deleted"
      BY <2>1, <2>2 DEF TypeOK
    <3> HIDE DEF e
    <3> QED
      BY <2>1, <3>1, WrittenCatchesUp
  <2>3. CASE g # f
    <3>1. disk'[f] = disk[f] /\ e.path # f
      BY <2>1, <2>3 DEF TypeOK
    <3> HIDE DEF e
    <3> QED
      BY <2>1, <3>1, OtherSeen, SameCatchesUp
  <2> QED
    BY <2>2, <2>3
<1>3. ASSUME NEW g \in Folders, MoveProject(g) PROVE FileCatchesUp(f)'
  <2>1. /\ unseen' /\ UNCHANGED <<disk, events, inbox, batch, workspace, libraryFiles>>
    BY <1>3 DEF MoveProject, editorVars, serverVars
  <2>2. SamePending(f)
    BY <2>1 DEF SamePending, UnhandledHas, UnhandledRestores, PendingHas, PendingRestores
  <2> QED
    BY <2>1, <2>2, SameCatchesUp
<1>4. ASSUME NEW m \in Manifests, WriteManifest(m) PROVE FileCatchesUp(f)'
  <2> DEFINE e == [kind |-> "changed", path |-> ConfigFile]
  <2>1. /\ events' = Append(events, e)
        /\ UNCHANGED <<disk, inbox, batch, workspace, libraryFiles, projects, unseen>>
    BY <1>4 DEF WriteManifest, Seen, serverVars, historyVars
  <2>2. e.path # f
    BY DocsAssumption
  <2> HIDE DEF e
  <2> QED
    BY <2>1, <2>2, OtherSeen, SameCatchesUp
<1>5. ASSUME NEW s \in Standards, WriteDotenv(s) PROVE FileCatchesUp(f)'
  <2>1. /\ unseen' /\ UNCHANGED <<disk, events, inbox, batch, workspace, libraryFiles>>
    BY <1>5 DEF WriteDotenv, editorVars, serverVars
  <2>2. SamePending(f)
    BY <2>1 DEF SamePending, UnhandledHas, UnhandledRestores, PendingHas, PendingRestores
  <2> QED
    BY <2>1, <2>2, SameCatchesUp
<1> QED
  BY <1>1, <1>2, <1>3, <1>4, <1>5 DEF DiskStep

\* The editor's steps: it saves only what it has open.
LEMMA EditorCatchesUp ==
    ASSUME TypeOK, EditorsOwn, EditorStep, NEW f \in Unopened, FileCatchesUp(f)
    PROVE  FileCatchesUp(f)'
<1>1. ASSUME NEW d \in Docs, NEW t \in Texts, OpenDocument(d, t) PROVE FileCatchesUp(f)'
  <2> DEFINE m == [type |-> "open", doc |-> d, text |-> t]
  <2>1. /\ m.type # "watched" /\ inbox' = Append(inbox, m)
        /\ UNCHANGED <<events, batch, disk, workspace, libraryFiles, projects, unseen>>
    BY <1>1 DEF OpenDocument, Send, diskVars, serverVars, historyVars
  <2> HIDE DEF m
  <2> QED
    BY <2>1, SentPending, SameCatchesUp
<1>2. ASSUME NEW d \in Docs, NEW t \in Texts, NEW whole \in BOOLEAN, EditDocument(d, t, whole)
      PROVE  FileCatchesUp(f)'
  <2> DEFINE m == [type |-> "edit", doc |-> d, whole |-> whole, base |-> buffer[d], text |-> t]
  <2>1. /\ m.type # "watched" /\ inbox' = Append(inbox, m)
        /\ UNCHANGED <<events, batch, disk, workspace, libraryFiles, projects, unseen>>
    BY <1>2 DEF EditDocument, Send, diskVars, serverVars, historyVars
  <2> HIDE DEF m
  <2> QED
    BY <2>1, SentPending, SameCatchesUp
<1>3. ASSUME NEW d \in Docs, CloseDocument(d) PROVE FileCatchesUp(f)'
  <2>1. UNCHANGED <<events, inbox, batch, disk, workspace, libraryFiles, projects, unseen>>
    BY <1>3 DEF CloseDocument, diskVars, serverVars, historyVars
  <2>2. SamePending(f)
    BY <2>1 DEF SamePending, UnhandledHas, UnhandledRestores, PendingHas, PendingRestores
  <2> QED
    BY <2>1, <2>2, SameCatchesUp
<1>4. ASSUME NEW d \in Docs, SaveDocument(d) PROVE FileCatchesUp(f)'
  <2> DEFINE e == [kind |-> IF disk[d] = Gone THEN "created" ELSE "changed", path |-> d]
  <2>1. /\ events' = Append(events, e) /\ disk' = [disk EXCEPT ![d] = buffer[d]]
        /\ UNCHANGED <<inbox, batch, workspace, libraryFiles, projects, unseen>>
    BY <1>4 DEF SaveDocument, Seen, serverVars, historyVars
  <2>2. d # f
    BY <1>4 DEF SaveDocument, EditorsOwn, Unopened, Docs
  <2>3. disk'[f] = disk[f] /\ e.path # f
    BY <1>4, <2>1, <2>2 DEF SaveDocument, TypeOK
  <2> HIDE DEF e
  <2> QED
    BY <2>1, <2>3, OtherSeen, SameCatchesUp
<1> QED
  BY <1>1, <1>2, <1>3, <1>4 DEF EditorStep

\* The watcher's changes sent, and the end of a batch.
LEMMA DeliveredCatchesUp ==
    ASSUME TypeOK, BatchIsBusy, Deliver \/ FinishBatch \/ UNCHANGED vars,
           NEW f \in Files, FileCatchesUp(f)
    PROVE  FileCatchesUp(f)'
<1>1. UNCHANGED <<disk, workspace, libraryFiles, projects, unseen>>
  BY DEF Deliver, SendWatched, FinishBatch, diskVars, serverVars, historyVars, vars
<1>2. ASSUME Deliver PROVE SamePending(f)
  BY <1>2, DeliveredPending DEF Deliver
<1>3. ASSUME UNCHANGED <<events, inbox, batch>> PROVE SamePending(f)
  BY <1>3 DEF SamePending, UnhandledHas, UnhandledRestores, PendingHas, PendingRestores
<1>4. FinishBatch \/ UNCHANGED vars => UNCHANGED <<events, inbox, batch>>
  BY DEF FinishBatch, vars, editorVars, serverVars
<1> QED
  BY <1>1, <1>2, <1>3, <1>4, SameCatchesUp

\* A document opened or edited is none of these files (FileEvents::open,
\* FileEvents::change).
LEMMA HandledCatchesUp ==
    ASSUME TypeOK, EditorsOwn, HandleOpen \/ HandleEdit, NEW f \in Unopened, FileCatchesUp(f)
    PROVE  FileCatchesUp(f)'
<1>1. UNCHANGED <<events, batch, disk, libraryFiles, projects, unseen>>
  BY DEF HandleOpen, HandleEdit, diskVars
<1>2. Receive("open") \/ Receive("edit")
  BY DEF HandleOpen, HandleEdit
<1>3. SamePending(f)
  BY <1>1, <1>2, HandledPending
<1>4. Head(inbox).doc # f
  <2>1. inbox \in Seq(Message) /\ inbox # <<>>
    BY <1>2 DEF Receive, TypeOK
  <2>2. Head(inbox) = inbox[1] /\ 1 \in DOMAIN inbox
    BY <2>1
  <2> QED
    BY <1>2, <2>2 DEF EditorsOwn, Unopened, Receive
<1>5. (Held(f)' <=> Held(f)) /\ (Held(f) => workspace'[f] = workspace[f])
  BY <1>4 DEF HandleOpen, HandleEdit, Put, Held
<1> QED
  BY <1>1, <1>3, <1>5 DEF FileCatchesUp, RestoredOnDisk, WillBeDropped, WillBeRead, WillBeTaken,
     SamePending, IsWorkspaceFile, Takes

\* A batch begun (DidChangeWatchedFiles): with the configuration, the files
\* found are held and no others; without, the files are as they were.
LEMMA BegunCatchesUp ==
    ASSUME TypeOK, BatchIsBusy, StartBatch, NEW f \in Files, FileCatchesUp(f)
    PROVE  FileCatchesUp(f)'
<1> DEFINE h == Head(inbox).changes
<1>1. UNCHANGED <<disk, projects, events>>
  BY DEF StartBatch, diskVars
<1>2. /\ PendingHas("deleted", f)' <=> UnhandledHas("deleted", f)
      /\ PendingHas("changed", f)' <=> UnhandledHas("changed", f)
      /\ PendingHas("deleted", f) <=> UnhandledHas("deleted", f)
      /\ PendingHas("changed", f) <=> UnhandledHas("changed", f)
      /\ UnhandledHas("deleted", f)' => UnhandledHas("deleted", f)
      /\ PendingRestores(f) <=> UnhandledRestores(f)
      /\ UnhandledRestores(f) /\ UnhandledHas("deleted", f)' => UnhandledRestores(f)'
      /\ UnhandledRestores(f) /\ Takes(f, DOMAIN libraryFiles') => PendingRestores(f)'
  BY BegunPending DEF PendingHas, PendingRestores
<1>3. RestoredOnDisk(f)'
  BY <1>1, <1>2 DEF FileCatchesUp, RestoredOnDisk
<1>4. IsWorkspaceFile(f)' <=> Takes(f, DOMAIN libraryFiles')
  BY <1>1 DEF IsWorkspaceFile, Takes
<1>5. CASE HasConfig(h)
  <2>1. workspace' = LoadedWorkspace(libraryFiles')
    BY <1>5 DEF StartBatch, RefreshConfiguration
  <2>2. f \notin Drafts
    BY DocsAssumption
  <2>3. /\ Held(f)' <=> Takes(f, DOMAIN libraryFiles')
        /\ Held(f)' => workspace'[f] = IF Held(f) THEN workspace[f] ELSE disk[f]
    BY <2>1, <2>2 DEF LoadedWorkspace, Held, FindFiles, Takes
  <2>4. WillBeDropped(f)' /\ WillBeRead(f)'
    BY <1>1, <1>2, <2>3 DEF FileCatchesUp, WillBeDropped, WillBeRead, Takes
  <2>5. WillBeTaken(f)'
    BY <1>1, <1>2, <1>4, <2>3 DEF FileCatchesUp, WillBeTaken, RestoredOnDisk, Takes
  <2> QED
    BY <1>3, <2>4, <2>5 DEF FileCatchesUp
<1>6. CASE ~HasConfig(h)
  <2>1. UNCHANGED <<workspace, libraryFiles, unseen>>
    BY <1>6 DEF StartBatch, historyVars
  <2>2. WillBeDropped(f)' /\ WillBeRead(f)'
    BY <1>1, <1>2, <2>1 DEF FileCatchesUp, WillBeDropped, WillBeRead, Held
  <2>3. WillBeTaken(f)'
    BY <1>1, <1>2, <1>4, <2>1 DEF FileCatchesUp, WillBeTaken, Held, IsWorkspaceFile
  <2> QED
    BY <1>3, <2>2, <2>3 DEF FileCatchesUp
<1> QED
  BY <1>5, <1>6

\* A change applied (FileEvents::watched).
LEMMA AppliedCatchesUp ==
    ASSUME TypeOK, NEW i, ApplyChange(i), NEW f \in Files, FileCatchesUp(f)
    PROVE  FileCatchesUp(f)'
<1> DEFINE e == batch[i]
<1>1. /\ UNCHANGED <<disk, projects, libraryFiles, unseen>>
      /\ e \in FileEvent
  BY DEF ApplyChange, diskVars, IsNext, TypeOK
<1>2. /\ \A kind : /\ UnhandledHas(kind, f)' <=> UnhandledHas(kind, f)
                   /\ PendingHas(kind, f) <=> PendingHas(kind, f)' \/ Is(e, kind, f)
      /\ UnhandledRestores(f)' <=> UnhandledRestores(f)
      /\ PendingRestores(f) <=>
            PendingRestores(f)' \/ (~PendingHas("deleted", f)' /\ Is(e, "created", f))
  BY AppliedPending
<1>3. RestoredOnDisk(f)'
  BY <1>1, <1>2 DEF FileCatchesUp, RestoredOnDisk
<1>4. CASE e.path # f
  <2>1. (Held(f)' <=> Held(f)) /\ (Held(f) => workspace'[f] = workspace[f])
    BY <1>4 DEF ApplyChange, Put, Drop, Held
  <2> QED
    BY <1>1, <1>2, <1>3, <1>4, <2>1 DEF FileCatchesUp, WillBeDropped, WillBeRead, WillBeTaken,
       Is, IsWorkspaceFile, Takes
<1>5. CASE e.path = f /\ e.kind = "deleted"
  <2>1. ~Held(f)'
    BY <1>5 DEF ApplyChange, Reads, Drop, Held
  <2>2. WillBeTaken(f)'
    BY <1>1, <1>2, <1>5, <2>1 DEF FileCatchesUp, WillBeTaken, Is, IsWorkspaceFile, Takes
  <2> QED
    BY <1>3, <2>1, <2>2 DEF FileCatchesUp, WillBeDropped, WillBeRead
<1>6. CASE e.path = f /\ e.kind = "changed"
  <2>1. Held(f)' <=> Held(f)
    BY <1>6 DEF ApplyChange, Reads, Put, Held
  <2>2. Held(f) /\ disk[f] # Gone => workspace'[f] = disk[f]
    BY <1>6 DEF ApplyChange, Reads, Put, Held
  <2>3. WillBeDropped(f)' /\ WillBeRead(f)'
    BY <1>1, <1>2, <1>6, <2>1, <2>2 DEF FileCatchesUp, WillBeDropped, WillBeRead, Is
  <2>4. WillBeTaken(f)'
    BY <1>1, <1>2, <1>6, <2>1 DEF FileCatchesUp, WillBeTaken, Is, IsWorkspaceFile, Takes
  <2> QED
    BY <1>3, <2>3, <2>4 DEF FileCatchesUp
<1>7. CASE e.path = f /\ e.kind = "created"
  <2>1. CASE Held(f)
    <3>1. Held(f)' /\ workspace'[f] = workspace[f]
      BY <1>7, <2>1 DEF ApplyChange, Reads, Held
    <3> QED
      BY <1>1, <1>2, <1>3, <1>7, <2>1, <3>1 DEF FileCatchesUp, WillBeDropped, WillBeRead,
         WillBeTaken, Is, IsWorkspaceFile, Takes
  <2>2. CASE ~Held(f) /\ disk[f] = Gone
    <3>1. ~Held(f)'
      BY <1>7, <2>2 DEF ApplyChange, Reads, Held
    <3> QED
      BY <1>1, <1>3, <2>2, <3>1 DEF FileCatchesUp, WillBeDropped, WillBeRead, WillBeTaken,
         IsWorkspaceFile, Takes
  <2>3. CASE ~Held(f) /\ disk[f] # Gone
    <3>1. Held(f)' /\ workspace'[f] = disk[f]
      BY <1>7, <2>3 DEF ApplyChange, Reads, Put, Held
    <3> QED
      BY <1>1, <1>2, <1>3, <1>7, <2>3, <3>1 DEF FileCatchesUp, WillBeDropped, WillBeRead,
         WillBeTaken, Is, IsWorkspaceFile, Takes
  <2> QED
    BY <2>1, <2>2, <2>3
<1> QED
  BY <1>1, <1>4, <1>5, <1>6, <1>7 DEF FileEvent

\* The editor opens, edits and saves only what it may open.
LEMMA EditorsOwnKept == TypeOK /\ EditorsOwn /\ [Next]_vars => EditorsOwn'
<1> SUFFICES ASSUME TypeOK, EditorsOwn, [Next]_vars PROVE EditorsOwn'
  OBVIOUS
<1>1. inbox \in Seq(Message)
  BY DEF TypeOK
<1>2. CASE UNCHANGED <<buffer, inbox>>
  BY <1>2 DEF EditorsOwn
<1>3. ASSUME NEW m, inbox' = Append(inbox, m), m.type # "watched" => m.doc \in Openable,
             \A d \in Docs \ Openable : buffer'[d] = buffer[d]
      PROVE  EditorsOwn'
  BY <1>1, <1>3 DEF EditorsOwn
<1>4. ASSUME NEW d \in Docs, NEW t \in Texts, OpenDocument(d, t) PROVE EditorsOwn'
  <2> DEFINE m == [type |-> "open", doc |-> d, text |-> t]
  <2>1. /\ inbox' = Append(inbox, m) /\ d \in Openable /\ m.doc = d
        /\ buffer' = [buffer EXCEPT ![d] = t]
    BY <1>4 DEF OpenDocument, Send
  <2> HIDE DEF m
  <2> QED
    BY <1>3, <2>1 DEF TypeOK
<1>5. ASSUME NEW d \in Docs, NEW t \in Texts, NEW whole \in BOOLEAN, EditDocument(d, t, whole)
      PROVE  EditorsOwn'
  <2> DEFINE m == [type |-> "edit", doc |-> d, whole |-> whole, base |-> buffer[d], text |-> t]
  <2>1. /\ inbox' = Append(inbox, m) /\ d \in Openable /\ m.doc = d
        /\ buffer' = [buffer EXCEPT ![d] = t]
    BY <1>5 DEF EditDocument, Send, EditorsOwn
  <2> HIDE DEF m
  <2> QED
    BY <1>3, <2>1 DEF TypeOK
<1>6. ASSUME NEW d \in Docs, CloseDocument(d) PROVE EditorsOwn'
  BY <1>6 DEF CloseDocument, EditorsOwn, TypeOK
<1>7. ASSUME NEW n, SendWatched(n) PROVE EditorsOwn'
  <2> DEFINE m == [type |-> "watched", changes |-> SubSeq(events, 1, n)]
  <2>1. inbox' = Append(inbox, m) /\ m.type = "watched" /\ UNCHANGED buffer
    BY <1>7 DEF SendWatched
  <2> HIDE DEF m
  <2> QED
    BY <1>3, <2>1
<1>8. ASSUME inbox # <<>>, inbox' = Tail(inbox), UNCHANGED buffer PROVE EditorsOwn'
  <2>1. \A i \in DOMAIN inbox' : i + 1 \in DOMAIN inbox /\ inbox'[i] = inbox[i + 1]
    BY <1>1, <1>8
  <2> QED
    BY <1>8, <2>1 DEF EditorsOwn
<1>9. HandleOpen \/ HandleEdit \/ StartBatch => inbox # <<>> /\ inbox' = Tail(inbox) /\ UNCHANGED buffer
  BY DEF HandleOpen, HandleEdit, StartBatch, Receive
<1>10. DiskStep \/ FinishBatch \/ (\E i \in 1..MaxEvents : ApplyChange(i))
          \/ (\E d \in Docs : SaveDocument(d)) \/ UNCHANGED vars => UNCHANGED <<buffer, inbox>>
  BY DEF DiskStep, WriteFile, DeleteFile, MoveProject, WriteManifest, WriteDotenv, editorVars,
         FinishBatch, ApplyChange, SaveDocument, vars
<1> QED
  BY <1>2, <1>4, <1>5, <1>6, <1>7, <1>8, <1>9, <1>10 DEF Next, EditorStep, Deliver, ServerStep

\* Between two batches there is nothing to apply.
LEMMA BatchIsBusyKept == BatchIsBusy /\ [Next]_vars => BatchIsBusy'
<1> SUFFICES ASSUME BatchIsBusy, [Next]_vars PROVE BatchIsBusy'
  OBVIOUS
<1>1. StartBatch \/ (\E i \in 1..MaxEvents : ApplyChange(i)) => busy'
  BY DEF StartBatch, ApplyChange
<1>2. FinishBatch => DOMAIN batch' = {}
  BY DEF FinishBatch
<1>3. DiskStep \/ EditorStep \/ Deliver \/ HandleOpen \/ HandleEdit \/ UNCHANGED vars
         => UNCHANGED <<busy, batch>>
  BY DEF DiskStep, WriteFile, DeleteFile, MoveProject, WriteManifest, WriteDotenv, EditorStep,
         OpenDocument, EditDocument, CloseDocument, SaveDocument, Deliver, SendWatched,
         HandleOpen, HandleEdit, vars, serverVars
<1> QED
  BY <1>1, <1>2, <1>3 DEF BatchIsBusy, Next, ServerStep

\* The server starts with the files it found, and nothing is pending.
LEMMA InitCatchesUp == Init => CatchesUp
<1> SUFFICES ASSUME Init PROVE CatchesUp
  OBVIOUS
<1>1. EditorsOwn /\ BatchIsBusy
  BY DEF Init, EditorsOwn, BatchIsBusy
<1>2. ASSUME NEW f \in Unopened
      PROVE  RestoredOnDisk(f) /\ WillBeDropped(f) /\ WillBeRead(f) /\ WillBeTaken(f)
  <2>1. \A kind : ~PendingHas(kind, f) /\ ~UnhandledHas(kind, f)
    BY DEF Init, PendingHas, UnhandledHas, BoxHas, Has
  <2>2. /\ Held(f) <=> f \in FindFiles(Root, {}) \ DOMAIN libraryFiles
        /\ Held(f) => workspace[f] = disk[f]
    BY DEF Init, Held
  <2>3. Held(f) <=> IsWorkspaceFile(f)
    BY <2>2 DEF Unopened, FindFiles, IsWorkspaceFile, Takes
  <2> QED
    BY <2>1, <2>2, <2>3 DEF RestoredOnDisk, WillBeDropped, WillBeRead, WillBeTaken,
       IsWorkspaceFile, Takes
<1> QED
  BY <1>1, <1>2 DEF CatchesUp

-----------------------------------------------------------------------------
(* The libraries' files are those of the configuration: until one is seen  *)
(* again, a file recorded under a library is in the folder of one that is  *)
(* configured, so the loader would find it there again if it is still on   *)
(* the disk.                                                               *)

\* A library of the list finds the file, if it is on the disk.
Finds(libs, i, f) ==
    /\ Below(libs[i], f)
    /\ Between(libs[i], f) \cap (projects \cup ({Root} \cup {libs[j] : j \in DOMAIN libs \ {i}})) = {}

\* What load_libraries finds.
LEMMA FoundByALibrary ==
    ASSUME NEW libs, NEW f
    PROVE  f \in DOMAIN LoadedLibraryFiles(libs) <=>
               /\ f \in Files /\ disk[f] # Gone
               /\ \E i \in DOMAIN libs : Finds(libs, i, f)
BY DEF LoadedLibraryFiles, FindFiles, Finds

\* A configuration that changed is still to be read.
ConfigPending == UnhandledHas("changed", ConfigFile)

LibrariesAreRecent ==
    ~unseen /\ ~ConfigPending =>
        \A f \in DOMAIN libraryFiles : \E i \in DOMAIN ResolvedLibraries : Finds(ResolvedLibraries, i, f)

\* A step that neither reads the configuration nor changes what it is of.
LEMMA SameRecent ==
    ASSUME LibrariesAreRecent, UNCHANGED <<libraryFiles, projects, manifest, standard, unseen>>,
           ConfigPending => ConfigPending'
    PROVE  LibrariesAreRecent'
<1>1. ResolvedLibraries' = ResolvedLibraries
  BY DEF ResolvedLibraries, ResolvedPlaces, Resolves
<1>2. \A i, f : Finds(ResolvedLibraries, i, f)' <=> Finds(ResolvedLibraries, i, f)
  BY <1>1 DEF Finds, Below, Between
<1> QED
  BY <1>1, <1>2 DEF LibrariesAreRecent

\* A step that begins a batch with the configuration has a change of it, and
\* one without has none (DidChangeWatchedFiles).
LEMMA BegunRecent == TypeOK /\ LibrariesAreRecent /\ StartBatch => LibrariesAreRecent'
<1> SUFFICES ASSUME TypeOK, LibrariesAreRecent, StartBatch PROVE LibrariesAreRecent'
  OBVIOUS
<1> DEFINE h == Head(inbox).changes
<1>1. UNCHANGED <<disk, projects, manifest, standard, events>>
  BY DEF StartBatch, diskVars
<1>2. CASE HasConfig(h)
  <2>1. libraryFiles' = LoadedLibraryFiles(ResolvedLibraries)
    BY <1>2 DEF StartBatch, RefreshConfiguration
  <2>2. \A f \in DOMAIN libraryFiles' :
            \E i \in DOMAIN ResolvedLibraries : Finds(ResolvedLibraries, i, f)
    BY <2>1, FoundByALibrary
  <2>3. ResolvedLibraries' = ResolvedLibraries
    BY <1>1 DEF ResolvedLibraries, ResolvedPlaces, Resolves
  <2>4. \A i, f : Finds(ResolvedLibraries, i, f)' <=> Finds(ResolvedLibraries, i, f)
    BY <1>1, <2>3 DEF Finds, Below, Between
  <2> QED
    BY <2>2, <2>3, <2>4 DEF LibrariesAreRecent
<1>3. CASE ~HasConfig(h)
  <2>1. UNCHANGED <<libraryFiles, unseen>>
    BY <1>3 DEF StartBatch, historyVars
  <2>2. /\ inbox \in Seq(Message) /\ inbox # <<>> /\ inbox' = Tail(inbox)
        /\ Changes(Head(inbox)) = h
    BY DEF TypeOK, StartBatch, Receive, Changes
  <2>3. BoxHas(inbox, "changed", ConfigFile) <=>
           Has(h, "changed", ConfigFile) \/ BoxHas(inbox', "changed", ConfigFile)
    BY <2>2, OldestFirst
  <2>4. ~Has(h, "changed", ConfigFile)
    BY <1>3 DEF HasConfig, Has, Is
  <2>5. ConfigPending => ConfigPending'
    BY <1>1, <2>3, <2>4 DEF ConfigPending, UnhandledHas
  <2> QED
    BY <1>1, <2>1, <2>5, SameRecent
<1> QED
  BY <1>2, <1>3

\* Every step keeps the libraries' files those of the configuration, or has
\* it seen again (resolve_all, load_libraries).
LEMMA RecentStep == TypeOK /\ LibrariesAreRecent /\ [Next]_vars => LibrariesAreRecent'
<1> SUFFICES ASSUME TypeOK, LibrariesAreRecent, [Next]_vars PROVE LibrariesAreRecent'
  OBVIOUS
<1> DEFINE Rest4 == UNCHANGED <<libraryFiles, projects, manifest, standard, unseen>>
<1>1. ASSUME NEW e, events' = Append(events, e), UNCHANGED inbox
      PROVE  /\ ConfigPending => ConfigPending'
             /\ Is(e, "changed", ConfigFile) => ConfigPending'
  <2>1. Has(events', "changed", ConfigFile) <=>
           Has(events, "changed", ConfigFile) \/ Is(e, "changed", ConfigFile)
    BY <1>1, SeenLast DEF TypeOK
  <2> QED
    BY <1>1, <2>1 DEF ConfigPending, UnhandledHas
<1>2. CASE DiskStep
  <2>1. ASSUME NEW f \in Files, NEW t \in Texts, WriteFile(f, t) PROVE LibrariesAreRecent'
    <3>1. Rest4 /\ UNCHANGED inbox /\ \E e : events' = Append(events, e)
      BY <2>1 DEF WriteFile, Seen, serverVars, historyVars
    <3> QED
      BY <1>1, <3>1, SameRecent
  <2>2. ASSUME NEW f \in Files, DeleteFile(f) PROVE LibrariesAreRecent'
    <3>1. Rest4 /\ UNCHANGED inbox /\ \E e : events' = Append(events, e)
      BY <2>2 DEF DeleteFile, Seen, serverVars, historyVars
    <3> QED
      BY <1>1, <3>1, SameRecent
  <2>3. ASSUME NEW m \in Manifests, WriteManifest(m) PROVE LibrariesAreRecent'
    <3> DEFINE e == [kind |-> "changed", path |-> ConfigFile]
    <3>1. UNCHANGED inbox /\ events' = Append(events, e) /\ Is(e, "changed", ConfigFile)
      BY <2>3 DEF WriteManifest, Seen, Is
    <3> HIDE DEF e
    <3> QED
      BY <1>1, <3>1 DEF LibrariesAreRecent
  <2>4. ASSUME unseen' PROVE LibrariesAreRecent'
    BY <2>4 DEF LibrariesAreRecent
  <2>5. \/ \E f \in Files, t \in Texts : WriteFile(f, t)
        \/ \E f \in Files : DeleteFile(f)
        \/ \E m \in Manifests : WriteManifest(m)
        \/ unseen'
    BY <1>2 DEF DiskStep, MoveProject, WriteDotenv
  <2> QED
    BY <2>1, <2>2, <2>3, <2>4, <2>5
<1>3. CASE EditorStep
  <2>1. ASSUME NEW d \in Docs, SaveDocument(d) PROVE LibrariesAreRecent'
    <3>1. Rest4 /\ UNCHANGED inbox /\ \E e : events' = Append(events, e)
      BY <2>1 DEF SaveDocument, Seen, serverVars, historyVars
    <3> QED
      BY <1>1, <3>1, SameRecent
  <2>2. ASSUME NEW m, m.type # "watched", inbox' = Append(inbox, m),
               UNCHANGED <<events, batch>>, Rest4
        PROVE  LibrariesAreRecent'
    <3>1. SamePending(ConfigFile)
      BY <2>2, SentPending
    <3> QED
      BY <2>2, <3>1, SameRecent DEF SamePending, ConfigPending
  <2>3. ASSUME NEW d \in Docs, NEW t \in Texts, OpenDocument(d, t) PROVE LibrariesAreRecent'
    <3> DEFINE m == [type |-> "open", doc |-> d, text |-> t]
    <3>1. m.type # "watched" /\ inbox' = Append(inbox, m) /\ UNCHANGED <<events, batch>> /\ Rest4
      BY <2>3 DEF OpenDocument, Send, diskVars, serverVars, historyVars
    <3> HIDE DEF m
    <3> QED
      BY <2>2, <3>1
  <2>4. ASSUME NEW d \in Docs, NEW t \in Texts, NEW whole \in BOOLEAN, EditDocument(d, t, whole)
        PROVE  LibrariesAreRecent'
    <3> DEFINE m == [type |-> "edit", doc |-> d, whole |-> whole, base |-> buffer[d], text |-> t]
    <3>1. m.type # "watched" /\ inbox' = Append(inbox, m) /\ UNCHANGED <<events, batch>> /\ Rest4
      BY <2>4 DEF EditDocument, Send, diskVars, serverVars, historyVars
    <3> HIDE DEF m
    <3> QED
      BY <2>2, <3>1
  <2>5. ASSUME NEW d \in Docs, CloseDocument(d) PROVE LibrariesAreRecent'
    <3>1. Rest4 /\ UNCHANGED <<inbox, events>>
      BY <2>5 DEF CloseDocument, diskVars, serverVars, historyVars
    <3> QED
      BY <3>1, SameRecent DEF ConfigPending, UnhandledHas
  <2> QED
    BY <1>3, <2>1, <2>3, <2>4, <2>5 DEF EditorStep
<1>4. ASSUME NEW n, SendWatched(n) PROVE LibrariesAreRecent'
  <2>1. SamePending(ConfigFile)
    BY <1>4, DeliveredPending
  <2>2. Rest4
    BY <1>4 DEF SendWatched, diskVars, serverVars, historyVars
  <2> QED
    BY <2>1, <2>2, SameRecent DEF SamePending, ConfigPending
<1>5. CASE HandleOpen \/ HandleEdit
  <2>1. UNCHANGED <<events, batch>> /\ Rest4 /\ (Receive("open") \/ Receive("edit"))
    BY <1>5 DEF HandleOpen, HandleEdit, diskVars
  <2>2. SamePending(ConfigFile)
    BY <2>1, HandledPending
  <2> QED
    BY <2>1, <2>2, SameRecent DEF SamePending, ConfigPending
<1>6. CASE StartBatch
  BY <1>6, BegunRecent
<1>7. ASSUME UNCHANGED <<events, inbox>>, Rest4 PROVE LibrariesAreRecent'
  BY <1>7, SameRecent DEF ConfigPending, UnhandledHas
<1>8. ASSUME NEW i, ApplyChange(i) PROVE LibrariesAreRecent'
  <2>1. UNCHANGED <<events, inbox>> /\ Rest4
    BY <1>8 DEF ApplyChange, diskVars, editorVars
  <2> QED
    BY <1>7, <2>1
<1>9. CASE FinishBatch \/ UNCHANGED vars
  <2>1. UNCHANGED <<events, inbox>> /\ Rest4
    BY <1>9 DEF FinishBatch, vars, diskVars, editorVars, serverVars, historyVars
  <2> QED
    BY <1>7, <2>1
<1> QED
  BY <1>2, <1>3, <1>4, <1>5, <1>6, <1>8, <1>9 DEF Next, Deliver, ServerStep

\* Once every change the watcher saw is handled, the server holds every file
\* the loader would find, each file it holds has the disk's text, and the
\* files it holds besides are some that came to a library's folder after the
\* libraries were read: whatever was written, deleted and configured while a
\* batch was read (lib.rs:351-372, file_events.rs, loader.rs:180-276).
THEOREM SettledFilesAreFound == Spec => []SettledFilesAreTheDisks
<1>1. Init => CatchesUp
  BY InitCatchesUp
<1>2. TypeOK /\ CatchesUp /\ [Next]_vars => CatchesUp'
  <2> SUFFICES ASSUME TypeOK, CatchesUp, [Next]_vars PROVE CatchesUp'
    OBVIOUS
  <2>1. EditorsOwn' /\ BatchIsBusy'
    BY EditorsOwnKept, BatchIsBusyKept DEF CatchesUp
  <2>2. ASSUME NEW f \in Unopened PROVE FileCatchesUp(f)'
    <3>1. f \in Files /\ FileCatchesUp(f) /\ EditorsOwn /\ BatchIsBusy
      BY DEF CatchesUp, FileCatchesUp, Unopened
    <3>2. CASE DiskStep
      BY <3>1, <3>2, DiskCatchesUp
    <3>3. CASE EditorStep
      BY <3>1, <3>3, EditorCatchesUp
    <3>4. CASE Deliver \/ FinishBatch \/ UNCHANGED vars
      BY <3>1, <3>4, DeliveredCatchesUp
    <3>5. CASE HandleOpen \/ HandleEdit
      BY <3>1, <3>5, HandledCatchesUp
    <3>6. CASE StartBatch
      BY <3>1, <3>6, BegunCatchesUp
    <3>7. ASSUME NEW i, ApplyChange(i) PROVE FileCatchesUp(f)'
      BY <3>1, <3>7, AppliedCatchesUp
    <3> QED
      BY <3>2, <3>3, <3>4, <3>5, <3>6, <3>7 DEF Next, ServerStep
  <2> QED
    BY <2>1, <2>2 DEF CatchesUp, FileCatchesUp
<1>3. CatchesUp /\ Apart /\ LibrariesAreRecent => SettledFilesAreTheDisks
  <2> SUFFICES ASSUME CatchesUp, Apart, LibrariesAreRecent, Settled, ~unseen, NEW f \in Files \ Openable
               PROVE  /\ f \in LoadersFiles => Held(f)
                      /\ Held(f) => f \in LoadersFiles \cup CameToALibrary /\ workspace[f] = disk[f]
    BY DEF SettledFilesAreTheDisks
  <2>1. /\ \A kind : ~PendingHas(kind, f)
        /\ ~PendingRestores(f)
    BY DEF Settled, CatchesUp, BatchIsBusy, PendingHas, PendingRestores, UnhandledHas,
           UnhandledRestores, BoxHas, BoxRestores, Has, Restores
  <2>2. Held(f) => Own(f)
    BY HeldAreOwn DEF Apart, Held
  <2>3. /\ Held(f) <=> IsWorkspaceFile(f)
        /\ Held(f) => workspace[f] = disk[f]
    BY <2>1, <2>2 DEF CatchesUp, Unopened, WillBeDropped, WillBeRead, WillBeTaken, Own,
       IsWorkspaceFile, Takes
  <2>4. ~ConfigPending
    BY DEF Settled, ConfigPending, UnhandledHas, BoxHas, Has
  <2>5. f \in DOMAIN libraryFiles /\ disk[f] # Gone => f \in FilesOfLibraries
    BY <2>4, FoundByALibrary DEF LibrariesAreRecent, FilesOfLibraries
  <2>6. IsWorkspaceFile(f) <=> f \in FindFiles(Root, {}) /\ f \notin DOMAIN libraryFiles
    BY DEF IsWorkspaceFile, Takes, FindFiles
  <2>7. f \in FindFiles(Root, {}) => disk[f] # Gone
    BY DEF FindFiles
  <2> QED
    BY <2>3, <2>5, <2>6, <2>7 DEF LoadersFiles, CameToALibrary
<1>4. Spec => []Apart
  BY FilesStayApart, PTL DEF Apart
<1>5. Init => LibrariesAreRecent
  BY FoundByALibrary DEF Init, LibrariesAreRecent
<1>6. TypeOK /\ LibrariesAreRecent /\ [Next]_vars => LibrariesAreRecent'
  BY RecentStep
<1> QED
  BY <1>1, <1>2, <1>3, <1>4, <1>5, <1>6, TypesHold, PTL DEF Spec

-----------------------------------------------------------------------------
(* What the notifications on their way say of a document.  An edit is      *)
(* computed on the text of the notification before it, and the last one    *)
(* has the editor's text, so a server that starts from the same text ends  *)
(* with the same text.  A document whose opening is still on its way has   *)
(* nothing to keep: it is handled first.                                   *)

Of(m, d) == m.type # "watched" /\ m.doc = d

Silent(box, d) == \A p \in DOMAIN box : ~Of(box[p], d)
NoOpen(box, d) == \A p \in DOMAIN box : Of(box[p], d) => box[p].type # "open"

\* Each edit is computed on the text of the document's notification before it.
Chained(box, d) ==
    \A q, p \in DOMAIN box :
        /\ q < p /\ Of(box[q], d) /\ Of(box[p], d) /\ box[p].type = "edit"
        /\ \A k \in DOMAIN box : q < k /\ k < p => ~Of(box[k], d)
        => box[p].base = box[q].text

\* The document's first notification, if an edit, is computed on this text.
StartsOn(box, d, text) ==
    \A p \in DOMAIN box :
        /\ Of(box[p], d) /\ box[p].type = "edit"
        /\ \A k \in DOMAIN box : k < p => ~Of(box[k], d)
        => box[p].base = text

\* The document's last notification, if any, has this text.
EndsWith(box, d, text) ==
    \A q \in DOMAIN box :
        Of(box[q], d) /\ (\A k \in DOMAIN box : q < k => ~Of(box[k], d)) => box[q].text = text

\* What the server holds of a document that is open and has not parted.
Followed(d) ==
    buffer[d] # Closed /\ NoOpen(inbox, d) /\ Held(d) /\ d \notin parted =>
        /\ StartsOn(inbox, d, workspace[d])
        /\ Silent(inbox, d) => workspace[d] = buffer[d]

EditsFollow(d) == /\ Chained(inbox, d)
                  /\ buffer[d] # Closed => EndsWith(inbox, d, buffer[d])
                  /\ Followed(d)

\* A notification that is not of the document says nothing of it.
LEMMA OtherSent ==
    ASSUME NEW S, NEW box \in Seq(S), NEW m, NEW d, ~Of(m, d)
    PROVE  LET t == Append(box, m) IN
           /\ Silent(t, d) <=> Silent(box, d)
           /\ NoOpen(t, d) <=> NoOpen(box, d)
           /\ Chained(box, d) => Chained(t, d)
           /\ \A text : /\ StartsOn(box, d, text) => StartsOn(t, d, text)
                        /\ EndsWith(box, d, text) => EndsWith(t, d, text)
<1> DEFINE t == Append(box, m)
<1>1. /\ DOMAIN t = DOMAIN box \cup {Len(box) + 1}
      /\ t[Len(box) + 1] = m
      /\ \A i \in DOMAIN box : t[i] = box[i] /\ i < Len(box) + 1 /\ i \in Nat
      /\ Len(box) + 1 \in Nat
  OBVIOUS
<1> HIDE DEF t
<1>2. \A i \in DOMAIN t : Of(t[i], d) => i \in DOMAIN box
  BY <1>1
<1>3. (Silent(t, d) <=> Silent(box, d)) /\ (NoOpen(t, d) <=> NoOpen(box, d))
  BY <1>1, <1>2 DEF Silent, NoOpen
<1>4. Chained(box, d) => Chained(t, d)
  BY <1>1, <1>2 DEF Chained
<1>5. \A text : /\ StartsOn(box, d, text) => StartsOn(t, d, text)
                /\ EndsWith(box, d, text) => EndsWith(t, d, text)
  BY <1>1, <1>2 DEF StartsOn, EndsWith
<1> QED
  BY <1>3, <1>4, <1>5 DEF t

\* A notification of the document comes after its others.
LEMMA ItsOwnSent ==
    ASSUME NEW S, NEW box \in Seq(S), NEW m, NEW d, Of(m, d)
    PROVE  LET t == Append(box, m) IN
           /\ ~Silent(t, d)
           /\ NoOpen(t, d) <=> NoOpen(box, d) /\ m.type # "open"
           /\ Chained(box, d) /\ (m.type = "edit" => EndsWith(box, d, m.base)) => Chained(t, d)
           /\ \A text : StartsOn(box, d, text)
                        /\ (Silent(box, d) /\ m.type = "edit" => m.base = text)
                        => StartsOn(t, d, text)
           /\ EndsWith(t, d, m.text)
<1> DEFINE t == Append(box, m)
           n == Len(box) + 1
<1>1. /\ DOMAIN t = DOMAIN box \cup {n} /\ n \notin DOMAIN box
      /\ t[n] = m
      /\ \A i \in DOMAIN box : t[i] = box[i] /\ i < n /\ i \in Nat /\ ~(n < i)
      /\ n \in Nat /\ ~(n < n)
  OBVIOUS
<1> HIDE DEF t, n
<1>2. ~Silent(t, d) /\ (NoOpen(t, d) <=> NoOpen(box, d) /\ m.type # "open")
  BY <1>1 DEF Silent, NoOpen
<1>3. ASSUME Chained(box, d), m.type = "edit" => EndsWith(box, d, m.base) PROVE Chained(t, d)
  <2> SUFFICES ASSUME NEW q \in DOMAIN t, NEW p \in DOMAIN t,
                      q < p, Of(t[q], d), Of(t[p], d), t[p].type = "edit",
                      \A k \in DOMAIN t : q < k /\ k < p => ~Of(t[k], d)
               PROVE  t[p].base = t[q].text
    BY DEF Chained
  <2>1. q \in DOMAIN box
    BY <1>1
  <2>2. CASE p \in DOMAIN box
    BY <1>1, <1>3, <2>1, <2>2 DEF Chained
  <2>3. CASE p = n
    <3>1. \A k \in DOMAIN box : q < k => ~Of(box[k], d)
      BY <1>1, <2>3
    <3> QED
      BY <1>1, <1>3, <2>1, <2>3, <3>1 DEF EndsWith
  <2> QED
    BY <1>1, <2>2, <2>3
<1>4. ASSUME NEW text, StartsOn(box, d, text), Silent(box, d) /\ m.type = "edit" => m.base = text
      PROVE  StartsOn(t, d, text)
  <2> SUFFICES ASSUME NEW p \in DOMAIN t, Of(t[p], d), t[p].type = "edit",
                      \A k \in DOMAIN t : k < p => ~Of(t[k], d)
               PROVE  t[p].base = text
    BY DEF StartsOn
  <2>1. CASE p \in DOMAIN box
    BY <1>1, <1>4, <2>1 DEF StartsOn
  <2>2. CASE p = n
    <3>1. Silent(box, d)
      BY <1>1, <2>2 DEF Silent
    <3> QED
      BY <1>1, <1>4, <2>2, <3>1
  <2> QED
    BY <1>1, <2>1, <2>2
<1>5. EndsWith(t, d, m.text)
  <2> SUFFICES ASSUME NEW q \in DOMAIN t, Of(t[q], d), \A k \in DOMAIN t : q < k => ~Of(t[k], d)
               PROVE  t[q].text = m.text
    BY DEF EndsWith
  <2> QED
    BY <1>1
<1> QED
  BY <1>2, <1>3, <1>4, <1>5 DEF t

\* The oldest notification taken.
LEMMA OldestTaken ==
    ASSUME NEW S, NEW box \in Seq(S), box # <<>>, NEW d
    PROVE  LET h == Head(box)
               r == Tail(box)
           IN  /\ Chained(box, d) => Chained(r, d)
               /\ \A text : EndsWith(box, d, text) => EndsWith(r, d, text)
               /\ NoOpen(box, d) <=> NoOpen(r, d) /\ (Of(h, d) => h.type # "open")
               /\ ~Of(h, d) =>
                     /\ Silent(box, d) <=> Silent(r, d)
                     /\ \A text : StartsOn(box, d, text) => StartsOn(r, d, text)
               /\ Of(h, d) =>
                     /\ Chained(box, d) => StartsOn(r, d, h.text)
                     /\ \A text : EndsWith(box, d, text) /\ Silent(r, d) => h.text = text
                     /\ \A text : StartsOn(box, d, text) /\ h.type = "edit" => h.base = text
<1> DEFINE h == Head(box)
           r == Tail(box)
<1>1. /\ DOMAIN box = 1..Len(box) /\ Len(box) \in Nat /\ Len(box) >= 1 /\ 1 \in DOMAIN box
      /\ h = box[1]
      /\ DOMAIN r = 1..(Len(box) - 1)
      /\ \A i \in 1..(Len(box) - 1) : r[i] = box[i + 1] /\ i + 1 \in 1..Len(box)
  OBVIOUS
<1> HIDE DEF h, r
<1>2. \A i \in DOMAIN box : i > 1 => i - 1 \in DOMAIN r /\ r[i - 1] = box[i]
  <2> TAKE i \in DOMAIN box
  <2> HAVE i > 1
  <2>1. i - 1 \in 1..(Len(box) - 1) /\ (i - 1) + 1 = i
    BY <1>1
  <2> QED
    BY <1>1, <2>1
<1>3. \A i, k \in DOMAIN r : (i < k <=> i + 1 < k + 1)
  BY <1>1
<1>4. Chained(box, d) => Chained(r, d)
  <2> SUFFICES ASSUME Chained(box, d), NEW q \in DOMAIN r, NEW p \in DOMAIN r,
                      q < p, Of(r[q], d), Of(r[p], d), r[p].type = "edit",
                      \A k \in DOMAIN r : q < k /\ k < p => ~Of(r[k], d)
               PROVE  r[p].base = r[q].text
    BY DEF Chained
  <2>1. ASSUME NEW k \in DOMAIN box, q + 1 < k, k < p + 1 PROVE ~Of(box[k], d)
    <3>1. k > 1 /\ q < k - 1 /\ k - 1 < p
      BY <1>1, <2>1
    <3> QED
      BY <1>2, <2>1, <3>1
  <2> QED
    BY <1>1, <1>3, <2>1 DEF Chained
<1>5. \A text : EndsWith(box, d, text) => EndsWith(r, d, text)
  <2> SUFFICES ASSUME NEW text, EndsWith(box, d, text), NEW q \in DOMAIN r, Of(r[q], d),
                      \A k \in DOMAIN r : q < k => ~Of(r[k], d)
               PROVE  r[q].text = text
    BY DEF EndsWith
  <2>1. ASSUME NEW k \in DOMAIN box, q + 1 < k PROVE ~Of(box[k], d)
    <3>1. k > 1 /\ q < k - 1
      BY <1>1, <2>1
    <3> QED
      BY <1>2, <2>1, <3>1
  <2> QED
    BY <1>1, <2>1 DEF EndsWith
<1>6. NoOpen(box, d) <=> NoOpen(r, d) /\ (Of(h, d) => h.type # "open")
  <2>1. \A i \in DOMAIN box : i = 1 \/ i > 1
    BY <1>1
  <2> QED
    BY <1>1, <1>2, <2>1 DEF NoOpen
<1>7. ASSUME ~Of(h, d)
      PROVE  /\ Silent(box, d) <=> Silent(r, d)
             /\ \A text : StartsOn(box, d, text) => StartsOn(r, d, text)
  <2>1. \A i \in DOMAIN box : i = 1 \/ i > 1
    BY <1>1
  <2>2. Silent(box, d) <=> Silent(r, d)
    BY <1>1, <1>2, <1>7, <2>1 DEF Silent
  <2>3. ASSUME NEW text, StartsOn(box, d, text), NEW p \in DOMAIN r, Of(r[p], d),
               r[p].type = "edit", \A k \in DOMAIN r : k < p => ~Of(r[k], d)
        PROVE  r[p].base = text
    <3>1. ASSUME NEW k \in DOMAIN box, k < p + 1 PROVE ~Of(box[k], d)
      <4>1. CASE k = 1
        BY <1>1, <1>7, <4>1
      <4>2. CASE k > 1
        <5>1. k - 1 < p
          BY <1>1, <3>1, <4>2
        <5> QED
          BY <1>2, <2>3, <4>2, <5>1
      <4> QED
        BY <2>1, <4>1, <4>2
    <3> QED
      BY <1>1, <2>3, <3>1 DEF StartsOn
  <2> QED
    BY <2>2, <2>3 DEF StartsOn
<1>8. ASSUME Of(h, d), Chained(box, d) PROVE StartsOn(r, d, h.text)
  <2> SUFFICES ASSUME NEW p \in DOMAIN r, Of(r[p], d), r[p].type = "edit",
                      \A k \in DOMAIN r : k < p => ~Of(r[k], d)
               PROVE  r[p].base = h.text
    BY DEF StartsOn
  <2>1. ASSUME NEW k \in DOMAIN box, 1 < k, k < p + 1 PROVE ~Of(box[k], d)
    <3>1. k - 1 < p
      BY <1>1, <2>1
    <3> QED
      BY <1>2, <2>1, <3>1
  <2>2. p + 1 \in DOMAIN box /\ 1 < p + 1 /\ box[p + 1] = r[p]
    BY <1>1
  <2> QED
    BY <1>1, <1>8, <2>1, <2>2 DEF Chained
<1>9. ASSUME Of(h, d), NEW text, EndsWith(box, d, text), Silent(r, d) PROVE h.text = text
  <2>1. \A k \in DOMAIN box : 1 < k => ~Of(box[k], d)
    BY <1>1, <1>2, <1>9 DEF Silent
  <2> QED
    BY <1>1, <1>9, <2>1 DEF EndsWith
<1>10. ASSUME Of(h, d), NEW text, StartsOn(box, d, text), h.type = "edit" PROVE h.base = text
  <2>1. \A k \in DOMAIN box : ~(k < 1)
    BY <1>1
  <2> QED
    BY <1>1, <1>10, <2>1 DEF StartsOn
<1> QED
  BY <1>4, <1>5, <1>6, <1>7, <1>8, <1>9, <1>10 DEF h, r

-----------------------------------------------------------------------------
(* Every step keeps it.                                                    *)

\* A step that sends and handles nothing of the document, which the server
\* then holds as before, or not any more, or parted.
LEMMA SameFollows ==
    ASSUME NEW d, EditsFollow(d), inbox' = inbox, buffer'[d] = buffer[d] \/ buffer'[d] = Closed,
           buffer[d] # Closed /\ Held(d)' /\ d \notin parted' =>
               Held(d) /\ d \notin parted /\ workspace'[d] = workspace[d]
    PROVE  EditsFollow(d)'
BY DEF EditsFollow, Followed

\* A notification of something else sent.
LEMMA OtherSentFollows ==
    ASSUME TypeOK, NEW d, EditsFollow(d), NEW m, ~Of(m, d), inbox' = Append(inbox, m),
           buffer'[d] = buffer[d], UNCHANGED <<workspace, parted>>
    PROVE  EditsFollow(d)'
<1>1. inbox \in Seq(Message)
  BY DEF TypeOK
<1>2. /\ Silent(inbox', d) <=> Silent(inbox, d)
      /\ NoOpen(inbox', d) <=> NoOpen(inbox, d)
      /\ Chained(inbox, d) => Chained(inbox', d)
      /\ \A text : /\ StartsOn(inbox, d, text) => StartsOn(inbox', d, text)
                   /\ EndsWith(inbox, d, text) => EndsWith(inbox', d, text)
  BY <1>1, OtherSent
<1> QED
  BY <1>2 DEF EditsFollow, Followed, Held

\* The editor's steps.
LEMMA EditorFollows ==
    ASSUME TypeOK, EditorStep, NEW d \in Docs, EditsFollow(d) PROVE EditsFollow(d)'
<1>1. inbox \in Seq(Message)
  BY DEF TypeOK
<1>2. ASSUME NEW e \in Docs, NEW t \in Texts, OpenDocument(e, t) PROVE EditsFollow(d)'
  <2> DEFINE m == [type |-> "open", doc |-> e, text |-> t]
  <2>1. /\ inbox' = Append(inbox, m) /\ buffer' = [buffer EXCEPT ![e] = t]
        /\ UNCHANGED <<workspace, parted>>
    BY <1>2 DEF OpenDocument, Send, serverVars, historyVars
  <2>2. (Of(m, d) <=> e = d) /\ m.type = "open" /\ m.text = t
    BY DEF Of
  <2> HIDE DEF m
  <2>3. CASE e # d
    BY <2>1, <2>2, <2>3, OtherSentFollows DEF TypeOK
  <2>4. CASE e = d
    <3>1. /\ ~NoOpen(inbox', d) /\ EndsWith(inbox', d, t)
          /\ Chained(inbox, d) => Chained(inbox', d)
      BY <1>1, <2>1, <2>2, <2>4, ItsOwnSent
    <3>2. buffer'[d] = t
      BY <2>1, <2>4 DEF TypeOK
    <3> QED
      BY <3>1, <3>2 DEF EditsFollow, Followed
  <2> QED
    BY <2>3, <2>4
<1>3. ASSUME NEW e \in Docs, NEW t \in Texts, NEW whole \in BOOLEAN, EditDocument(e, t, whole)
      PROVE  EditsFollow(d)'
  <2> DEFINE m == [type |-> "edit", doc |-> e, whole |-> whole, base |-> buffer[e], text |-> t]
  <2>1. /\ inbox' = Append(inbox, m) /\ buffer' = [buffer EXCEPT ![e] = t] /\ buffer[e] # Closed
        /\ UNCHANGED <<workspace, parted>>
    BY <1>3 DEF EditDocument, Send, serverVars, historyVars
  <2>2. (Of(m, d) <=> e = d) /\ m.type = "edit" /\ m.text = t /\ m.base = buffer[e]
    BY DEF Of
  <2> HIDE DEF m
  <2>3. CASE e # d
    BY <2>1, <2>2, <2>3, OtherSentFollows DEF TypeOK
  <2>4. CASE e = d
    <3>1. EndsWith(inbox, d, m.base) /\ Chained(inbox, d)
      BY <2>1, <2>2, <2>4 DEF EditsFollow
    <3>2. /\ ~Silent(inbox', d) /\ EndsWith(inbox', d, t) /\ Chained(inbox', d)
          /\ NoOpen(inbox', d) <=> NoOpen(inbox, d)
          /\ \A text : StartsOn(inbox, d, text) /\ (Silent(inbox, d) => m.base = text)
                       => StartsOn(inbox', d, text)
      BY <1>1, <2>1, <2>2, <2>4, <3>1, ItsOwnSent
    <3>3. buffer'[d] = t
      BY <2>1, <2>4 DEF TypeOK
    <3>4. Followed(d)'
      BY <2>1, <2>2, <2>4, <3>2 DEF EditsFollow, Followed, Held
    <3> QED
      BY <3>2, <3>3, <3>4 DEF EditsFollow
  <2> QED
    BY <2>3, <2>4
<1>4. ASSUME NEW e \in Docs, CloseDocument(e) PROVE EditsFollow(d)'
  <2>1. /\ buffer'[d] = buffer[d] \/ buffer'[d] = Closed
        /\ UNCHANGED <<inbox, workspace, parted>>
    BY <1>4 DEF CloseDocument, TypeOK, serverVars, historyVars
  <2> QED
    BY <2>1, SameFollows DEF Held
<1>5. ASSUME NEW e \in Docs, SaveDocument(e) PROVE EditsFollow(d)'
  <2>1. UNCHANGED <<buffer, inbox, workspace, parted>>
    BY <1>5 DEF SaveDocument, serverVars, historyVars
  <2> QED
    BY <2>1, SameFollows DEF Held
<1> QED
  BY <1>2, <1>3, <1>4, <1>5 DEF EditorStep

\* The oldest notification handled, one that is not the document's.
LEMMA OtherHandledFollows ==
    ASSUME TypeOK, NEW type, Receive(type), UNCHANGED buffer,
           NEW d, EditsFollow(d), ~Of(Head(inbox), d),
           buffer[d] # Closed /\ Held(d)' /\ d \notin parted' =>
               Held(d) /\ d \notin parted /\ workspace'[d] = workspace[d]
    PROVE  EditsFollow(d)'
<1>1. inbox \in Seq(Message) /\ inbox # <<>> /\ inbox' = Tail(inbox)
  BY DEF TypeOK, Receive
<1>2. /\ Chained(inbox, d) => Chained(inbox', d)
      /\ \A text : EndsWith(inbox, d, text) => EndsWith(inbox', d, text)
      /\ NoOpen(inbox, d) <=> NoOpen(inbox', d)
      /\ Silent(inbox, d) <=> Silent(inbox', d)
      /\ \A text : StartsOn(inbox, d, text) => StartsOn(inbox', d, text)
  BY <1>1, OldestTaken
<1> QED
  BY <1>2 DEF EditsFollow, Followed

\* A notification of the document handled.
LEMMA ItsOwnHandledFollows ==
    ASSUME TypeOK, NEW type, Receive(type), UNCHANGED buffer,
           NEW d, EditsFollow(d), Of(Head(inbox), d),
           /\ buffer[d] # Closed /\ Held(d)' /\ d \notin parted'
           /\ NoOpen(inbox, d) \/ Head(inbox).type = "open"
           => workspace'[d] = Head(inbox).text
    PROVE  EditsFollow(d)'
<1> DEFINE h == Head(inbox)
<1>1. inbox \in Seq(Message) /\ inbox # <<>> /\ inbox' = Tail(inbox)
  BY DEF TypeOK, Receive
<1>2. /\ Chained(inbox, d) => Chained(inbox', d) /\ StartsOn(inbox', d, h.text)
      /\ \A text : /\ EndsWith(inbox, d, text) => EndsWith(inbox', d, text)
                   /\ EndsWith(inbox, d, text) /\ Silent(inbox', d) => h.text = text
      /\ NoOpen(inbox, d) <=> NoOpen(inbox', d) /\ h.type # "open"
  BY <1>1, OldestTaken
<1> QED
  BY <1>2 DEF EditsFollow, Followed

\* A document opened (FileEvents::open).
LEMMA OpenFollows ==
    ASSUME TypeOK, HandleOpen, NEW d, EditsFollow(d) PROVE EditsFollow(d)'
<1> DEFINE h == Head(inbox)
<1>1. Receive("open") /\ UNCHANGED buffer /\ h.type = "open"
  BY DEF HandleOpen, Receive
<1>2. CASE ~Of(h, d)
  <2>1. h.doc # d
    BY <1>1, <1>2 DEF Of
  <2>2. Held(d)' /\ d \notin parted' => Held(d) /\ d \notin parted /\ workspace'[d] = workspace[d]
    BY <2>1 DEF HandleOpen, Put, Held
  <2> QED
    BY <1>1, <1>2, <2>2, OtherHandledFollows
<1>3. CASE Of(h, d)
  <2>1. h.doc = d
    BY <1>3 DEF Of
  <2>2. Held(d)' /\ d \notin parted' => workspace'[d] = h.text
    BY <2>1 DEF HandleOpen, Held
  <2> QED
    BY <1>1, <1>3, <2>2, ItsOwnHandledFollows
<1> QED
  BY <1>2, <1>3

\* A document edited (FileEvents::change): an edit by ranges gives the
\* editor's text when the server's is the one it was computed on.
LEMMA EditFollows ==
    ASSUME TypeOK, HandleEdit, NEW d, EditsFollow(d) PROVE EditsFollow(d)'
<1> DEFINE h == Head(inbox)
<1>1. Receive("edit") /\ UNCHANGED buffer /\ h.type = "edit"
  BY DEF HandleEdit, Receive
<1>2. CASE ~Of(h, d)
  <2>1. h.doc # d
    BY <1>1, <1>2 DEF Of
  <2>2. Held(d)' /\ d \notin parted' => Held(d) /\ d \notin parted /\ workspace'[d] = workspace[d]
    BY <2>1 DEF HandleEdit, EditsReach, Put, Held
  <2> QED
    BY <1>1, <1>2, <2>2, OtherHandledFollows
<1>3. CASE Of(h, d)
  <2>1. h.doc = d /\ inbox \in Seq(Message) /\ inbox # <<>>
    BY <1>1, <1>3 DEF Of, TypeOK, Receive
  <2>2. Held(d)' => Held(d)
    BY <2>1 DEF HandleEdit, EditsReach, Put, Held
  <2>3. ASSUME buffer[d] # Closed, Held(d)', d \notin parted', NoOpen(inbox, d)
        PROVE  workspace'[d] = h.text
    <3>1. PICK t \in Edited(h) : Put(d, t)
      BY <2>1, <2>2, <2>3 DEF HandleEdit, EditsReach
    <3>2. parted' = IF h.whole THEN parted \ {d} ELSE parted
      BY <2>1, <2>2, <2>3 DEF HandleEdit, EditsReach
    <3>3. CASE h.whole
      BY <3>1, <3>3 DEF Edited, Put
    <3>4. CASE ~h.whole
      <4>1. StartsOn(inbox, d, workspace[d])
        BY <2>2, <2>3, <3>2, <3>4 DEF EditsFollow, Followed
      <4>2. h.base = workspace[d]
        BY <1>1, <1>3, <2>1, <4>1, OldestTaken
      <4> QED
        BY <2>1, <3>1, <4>2 DEF Edited, Put
    <3> QED
      BY <3>3, <3>4
  <2> QED
    BY <1>1, <1>3, <2>3, ItsOwnHandledFollows
<1> QED
  BY <1>2, <1>3

\* A batch begun: a document the configuration brings in while it is open is
\* counted as parted (load_workspace).
LEMMA BegunFollows ==
    ASSUME TypeOK, StartBatch, NEW d, EditsFollow(d) PROVE EditsFollow(d)'
<1>1. Receive("watched") /\ UNCHANGED buffer /\ ~Of(Head(inbox), d)
  BY DEF StartBatch, Receive, Of
<1>2. TextsKept
  BY StartKeeps
<1>3. ASSUME buffer[d] # Closed, Held(d)', d \notin parted'
      PROVE  Held(d) /\ d \notin parted /\ workspace'[d] = workspace[d]
  <2>1. CASE HasConfig(Head(inbox).changes)
    <3>1. parted' = parted \cup {x \in DOMAIN workspace' \ DOMAIN workspace : buffer[x] # Closed}
      BY <2>1 DEF StartBatch
    <3> QED
      BY <1>2, <1>3, <3>1 DEF Held, TextsKept
  <2>2. CASE ~HasConfig(Head(inbox).changes)
    BY <1>3, <2>2 DEF StartBatch, Held, historyVars
  <2> QED
    BY <2>1, <2>2
<1> QED
  BY <1>1, <1>3, OtherHandledFollows

\* A change applied: a document read from the disk while it is open is
\* counted as parted (FileEvents::watched).
LEMMA AppliedFollows ==
    ASSUME TypeOK, NEW i, ApplyChange(i), NEW d, EditsFollow(d) PROVE EditsFollow(d)'
<1>1. UNCHANGED <<inbox, buffer>>
  BY DEF ApplyChange, editorVars
<1>2. ASSUME buffer[d] # Closed, Held(d)', d \notin parted'
      PROVE  Held(d) /\ d \notin parted /\ workspace'[d] = workspace[d]
  <2>1. CASE d = batch[i].path
    BY <1>2, <2>1 DEF ApplyChange, Drop, Held
  <2>2. CASE d # batch[i].path
    BY <1>2, <2>2 DEF ApplyChange, Put, Drop, Held
  <2> QED
    BY <2>1, <2>2
<1> QED
  BY <1>1, <1>2, SameFollows

\* The steps that say nothing of a document.
LEMMA QuietFollows ==
    ASSUME TypeOK, DiskStep \/ Deliver \/ FinishBatch \/ UNCHANGED vars, NEW d, EditsFollow(d)
    PROVE  EditsFollow(d)'
<1>1. ASSUME NEW n, SendWatched(n) PROVE EditsFollow(d)'
  <2> DEFINE m == [type |-> "watched", changes |-> SubSeq(events, 1, n)]
  <2>1. /\ inbox' = Append(inbox, m) /\ ~Of(m, d)
        /\ UNCHANGED <<buffer, workspace, parted>>
    BY <1>1 DEF SendWatched, Of, serverVars, historyVars
  <2> HIDE DEF m
  <2> QED
    BY <2>1, OtherSentFollows
<1>2. ASSUME DiskStep \/ FinishBatch \/ UNCHANGED vars PROVE EditsFollow(d)'
  <2>1. UNCHANGED <<buffer, inbox, workspace, parted>>
    BY <1>2 DEF DiskStep, WriteFile, DeleteFile, MoveProject, WriteManifest, WriteDotenv, vars,
       FinishBatch, editorVars, serverVars, historyVars
  <2> QED
    BY <2>1, SameFollows DEF Held
<1> QED
  BY <1>1, <1>2 DEF Deliver

\* Once every notification is handled, the server's text of an open document
\* is the editor's, unless the server had another text when it was opened or
\* has read the document from the disk since (FileEvents::open, change,
\* watched; load_workspace).
THEOREM EditorIsFollowed == Spec => []FollowedUnlessParted
<1> DEFINE AllFollow == \A d \in Docs : EditsFollow(d)
<1>1. Init => AllFollow
  BY DEF Init, EditsFollow, Followed, Chained
<1>2. TypeOK /\ AllFollow /\ [Next]_vars => AllFollow'
  <2> SUFFICES ASSUME TypeOK, [Next]_vars, NEW d \in Docs, EditsFollow(d) PROVE EditsFollow(d)'
    OBVIOUS
  <2>1. CASE DiskStep \/ Deliver \/ FinishBatch \/ UNCHANGED vars
    BY <2>1, QuietFollows
  <2>2. CASE EditorStep
    BY <2>2, EditorFollows
  <2>3. CASE HandleOpen
    BY <2>3, OpenFollows
  <2>4. CASE HandleEdit
    BY <2>4, EditFollows
  <2>5. CASE StartBatch
    BY <2>5, BegunFollows
  <2>6. ASSUME NEW i, ApplyChange(i) PROVE EditsFollow(d)'
    BY <2>6, AppliedFollows
  <2> QED
    BY <2>1, <2>2, <2>3, <2>4, <2>5, <2>6 DEF Next, ServerStep
<1>3. TypeOK /\ AllFollow => FollowedUnlessParted
  <2> SUFFICES ASSUME TypeOK, AllFollow, inbox = <<>>, NEW d \in DOMAIN workspace,
                      buffer[d] # Closed, d \notin parted
               PROVE  workspace[d] = buffer[d]
    BY DEF FollowedUnlessParted
  <2>1. NoOpen(inbox, d) /\ Silent(inbox, d)
    BY DEF NoOpen, Silent
  <2> QED
    BY <2>1 DEF EditsFollow, Followed, Held, TypeOK
<1> QED
  BY <1>1, <1>2, <1>3, TypesHold, PTL DEF Spec

-----------------------------------------------------------------------------
(* Whose library a file is.                                                *)

\* A set of natural numbers has a least one.
LEMMA LeastOfASet ==
    ASSUME NEW U \in SUBSET Nat, U # {}
    PROVE  \E x \in U : \A y \in U : x <= y
<1> DEFINE T == {0..u : u \in U}
<1>1. \A u \in U : IsFiniteSet(0..u) /\ 0..u \in SUBSET Nat
  BY FS_Interval
<1>2. T \subseteq FiniteSubsetsOf(Nat)
  BY <1>1, SMT DEF FiniteSubsetsOf
<1>3. IsWellFoundedOn(StrictSubsetOrdering(Nat), FiniteSubsetsOf(Nat)) /\ T # {}
  BY FS_StrictSubsetOrderingWellFounded
<1> HIDE DEF T
<1>4. \E x \in T : \A y \in T : <<y, x>> \notin StrictSubsetOrdering(Nat)
  BY <1>2, <1>3, WFMin
<1>5. PICK m \in U : \A y \in U : <<0..y, 0..m>> \notin StrictSubsetOrdering(Nat)
  BY <1>4 DEF T
<1>6. ASSUME NEW y \in U, y < m PROVE FALSE
  <2>1. 0..y \subseteq 0..m /\ m \in 0..m /\ m \notin 0..y /\ 0..m \in SUBSET Nat
    BY <1>6
  <2>2. 0..y \in SUBSET Nat /\ 0..y # 0..m
    BY <1>1, <2>1
  <2>3. <<0..y, 0..m>> \in StrictSubsetOrdering(Nat)
    BY <2>1, <2>2 DEF StrictSubsetOrdering
  <2> QED
    BY <1>5, <2>3
<1> QED
  BY <1>6

\* The libraries are numbered (resolve_all).
LEMMA LibrariesAreNumbered == \E n \in Nat : DOMAIN ResolvedLibraries = 1..n
<1>1. IsFiniteSet(DOMAIN LibraryOrder)
  BY FoldersAssumption, FS_Interval
<1>2. IsFiniteSet(ResolvedPlaces)
  BY <1>1, FS_Subset DEF ResolvedPlaces
<1>3. Cardinality(ResolvedPlaces) \in Nat
  BY <1>2, FS_CardinalityType
<1> QED
  BY <1>3 DEF ResolvedLibraries

\* A file is given the first library that finds it, and no library that finds
\* it has another below it on the way to the file (load_libraries).
LEMMA LoadedLibraryIsItsOwn ==
    ASSUME NEW libs, NEW n \in Nat, DOMAIN libs = 1..n,
           NEW f \in DOMAIN LoadedLibraryFiles(libs)
    PROVE  LET dir == libs[LoadedLibraryFiles(libs)[f]] IN
           /\ LoadedLibraryFiles(libs)[f] \in DOMAIN libs
           /\ Below(dir, f)
           /\ \A i \in DOMAIN libs : libs[i] \notin Between(dir, f)
<1> DEFINE finds(i) == FindFiles(libs[i], {Root} \cup {libs[j] : j \in DOMAIN libs \ {i}})
           finders == {i \in DOMAIN libs : f \in finds(i)}
           c == CHOOSE i \in DOMAIN libs : f \in finds(i) /\ \A j \in 1..(i - 1) : f \notin finds(j)
<1>1. f \in UNION {finds(i) : i \in DOMAIN libs} /\ LoadedLibraryFiles(libs)[f] = c
  BY DEF LoadedLibraryFiles
<1> HIDE DEF finds
<1>2. finders \in SUBSET Nat /\ finders # {}
  BY <1>1
<1>3. PICK m \in finders : \A y \in finders : m <= y
  BY <1>2, LeastOfASet
<1>4. /\ m \in DOMAIN libs /\ f \in finds(m)
      /\ \A j \in 1..(m - 1) : f \notin finds(j)
  <2>1. ASSUME NEW j \in 1..(m - 1) PROVE j \in DOMAIN libs /\ ~(m <= j)
    BY <1>3
  <2> QED
    BY <1>3, <2>1
<1>5. c \in DOMAIN libs /\ f \in finds(c)
  BY <1>4
<1> HIDE DEF c
<1>6. /\ Below(libs[c], f)
      /\ Between(libs[c], f) \cap ({Root} \cup {libs[j] : j \in DOMAIN libs \ {c}}) = {}
  BY <1>5 DEF finds, FindFiles
<1>7. libs[c] \notin Between(libs[c], f)
  BY DEF Between
<1>8. \A i \in DOMAIN libs : libs[i] \notin Between(libs[c], f)
  BY <1>6, <1>7
<1> QED
  BY <1>1, <1>5, <1>6, <1>8

\* A step that reads no configuration leaves the libraries as they are, and
\* one that does writes both at once (refresh_configuration).
LEMMA LibrariesStep ==
    [Next]_vars => \/ UNCHANGED <<libraries, libraryFiles>>
                   \/ /\ libraries' = ResolvedLibraries
                      /\ libraryFiles' = LoadedLibraryFiles(ResolvedLibraries)
BY DEF Next, DiskStep, WriteFile, DeleteFile, MoveProject, WriteManifest, WriteDotenv, EditorStep,
       OpenDocument, EditDocument, CloseDocument, SaveDocument, Deliver, SendWatched, ServerStep,
       HandleOpen, HandleEdit, StartBatch, RefreshConfiguration, ApplyChange, FinishBatch, vars,
       serverVars

\* The library a file is recorded under is a configured one, and the
\* innermost the file is in (load_libraries, FileSet::library_ids).
THEOREM LibraryFilesAreTheirs == Spec => []EachLibraryFileIsItsLibrarys
<1>1. Init => EachLibraryFileIsItsLibrarys
  BY LibrariesAreNumbered, LoadedLibraryIsItsOwn DEF Init, EachLibraryFileIsItsLibrarys
<1>2. EachLibraryFileIsItsLibrarys /\ [Next]_vars => EachLibraryFileIsItsLibrarys'
  <2> SUFFICES ASSUME EachLibraryFileIsItsLibrarys, [Next]_vars PROVE EachLibraryFileIsItsLibrarys'
    OBVIOUS
  <2>1. CASE UNCHANGED <<libraries, libraryFiles>>
    BY <2>1 DEF EachLibraryFileIsItsLibrarys, Below, Between
  <2>2. CASE /\ libraries' = ResolvedLibraries
             /\ libraryFiles' = LoadedLibraryFiles(ResolvedLibraries)
    BY <2>2, LibrariesAreNumbered, LoadedLibraryIsItsOwn DEF EachLibraryFileIsItsLibrarys
  <2> QED
    BY <2>1, <2>2, LibrariesStep
<1> QED
  BY <1>1, <1>2, PTL DEF Spec

-----------------------------------------------------------------------------
(* The main loop goes on.                                                  *)

\* What the server has still to handle: a notification counts for more than
\* any batch it can begin.
InBatch  == IF busy THEN Cardinality(DOMAIN batch) + 1 ELSE 0
ToHandle == Len(inbox) * (MaxEvents + 2) + InBatch

\* No notification, and no batch, is longer than what the watcher keeps.
Bounded ==
    /\ Len(events) <= MaxEvents
    /\ \A k \in DOMAIN inbox : inbox[k].type = "watched" => Len(inbox[k].changes) <= MaxEvents
    /\ DOMAIN batch \subseteq 1..MaxEvents

\* The steps that send, and those that neither send nor handle.
Quiet    == UNCHANGED <<inbox, batch, busy>> /\ (UNCHANGED events \/ \E e \in Event : Seen(e))
EditorSends ==
    /\ UNCHANGED <<events, batch, busy>>
    /\ \E m \in Message : m.type # "watched" /\ inbox' = Append(inbox, m)

\* What the disk and the editor do is send one notification, or nothing that
\* the server sees.
LEMMA OutsideSteps ==
    TypeOK /\ (DiskStep \/ EditorStep \/ UNCHANGED vars) => Quiet \/ EditorSends
<1> SUFFICES ASSUME TypeOK, DiskStep \/ EditorStep \/ UNCHANGED vars PROVE Quiet \/ EditorSends
  OBVIOUS
<1>1. ASSUME NEW d \in Docs, NEW t \in Texts, OpenDocument(d, t) PROVE EditorSends
  <2>1. [type |-> "open", doc |-> d, text |-> t] \in Message
    BY DEF Message
  <2> QED
    BY <1>1, <2>1 DEF OpenDocument, Send, EditorSends, serverVars
<1>2. ASSUME NEW d \in Docs, NEW t \in Texts, NEW whole \in BOOLEAN, EditDocument(d, t, whole)
      PROVE  EditorSends
  <2>1. buffer[d] \in Texts
    BY <1>2 DEF EditDocument, TypeOK
  <2>2. [type |-> "edit", doc |-> d, whole |-> whole, base |-> buffer[d], text |-> t] \in Message
    BY <2>1 DEF Message
  <2> QED
    BY <1>2, <2>2 DEF EditDocument, Send, EditorSends, serverVars
<1>3. ASSUME NEW d \in Docs, CloseDocument(d) \/ SaveDocument(d) PROVE Quiet
  BY <1>3 DEF CloseDocument, SaveDocument, Quiet, serverVars, Event, FileEvent
<1>4. ASSUME DiskStep PROVE Quiet
  <2>1. ASSUME NEW f \in Files, NEW t \in Texts, WriteFile(f, t) PROVE Quiet
    BY <2>1 DEF WriteFile, Quiet, serverVars, Event, FileEvent
  <2>2. ASSUME NEW f \in Files, DeleteFile(f) PROVE Quiet
    BY <2>2 DEF DeleteFile, Quiet, serverVars, Event, FileEvent
  <2>3. ASSUME NEW g \in Folders, MoveProject(g) PROVE Quiet
    BY <2>3 DEF MoveProject, Quiet, editorVars, serverVars
  <2>4. ASSUME NEW m \in Manifests, WriteManifest(m) PROVE Quiet
    BY <2>4 DEF WriteManifest, Quiet, serverVars, Event
  <2>5. ASSUME NEW s \in Standards, WriteDotenv(s) PROVE Quiet
    BY <2>5 DEF WriteDotenv, Quiet, editorVars, serverVars
  <2> QED
    BY <1>4, <2>1, <2>2, <2>3, <2>4, <2>5 DEF DiskStep
<1>5. ASSUME UNCHANGED vars PROVE Quiet
  BY <1>5 DEF Quiet, vars, editorVars, serverVars
<1> QED
  BY <1>1, <1>2, <1>3, <1>4, <1>5 DEF EditorStep

\* A batch keeps to the places of the notification it comes from.
LEMMA BatchInPlace ==
    ASSUME TypeOK, Bounded, StartBatch
    PROVE  DOMAIN batch' \subseteq 1..MaxEvents
<1> DEFINE changes == Head(inbox).changes
<1>1. inbox # <<>> /\ Head(inbox).type = "watched"
  BY DEF StartBatch, Receive
<1>2. Head(inbox) = inbox[1] /\ 1 \in DOMAIN inbox
  BY <1>1 DEF TypeOK
<1>3. Len(changes) <= MaxEvents
  BY <1>1, <1>2 DEF Bounded
<1>4. changes \in Seq(Event)
  BY Received DEF StartBatch, Message
<1>5. DOMAIN batch' \subseteq DOMAIN changes
  BY DEF StartBatch, Retained
<1> QED
  BY <1>3, <1>4, <1>5, BoundsAssumption

\* What is on its way stays as short.
LEMMA ReceivedBounded ==
    ASSUME TypeOK, Bounded, NEW type, Receive(type)
    PROVE  \A k \in DOMAIN inbox' :
               inbox'[k].type = "watched" => Len(inbox'[k].changes) <= MaxEvents
<1> SUFFICES ASSUME NEW k \in DOMAIN inbox', inbox'[k].type = "watched"
             PROVE  Len(inbox'[k].changes) <= MaxEvents
  OBVIOUS
<1>1. k + 1 \in DOMAIN inbox /\ inbox'[k] = inbox[k + 1]
  BY DEF Receive, TypeOK
<1> QED
  BY <1>1 DEF Bounded

\* Every step keeps the notifications and the batch as short.
LEMMA BoundedKept == TypeOK /\ Bounded /\ [Next]_vars => Bounded'
<1> SUFFICES ASSUME TypeOK, Bounded, [Next]_vars PROVE Bounded'
  OBVIOUS
<1>1. CASE Quiet
  <2>1. Len(events') <= MaxEvents
    BY <1>1, BoundsAssumption DEF Quiet, Seen, TypeOK, Bounded
  <2> QED
    BY <1>1, <2>1 DEF Quiet, Bounded
<1>2. CASE EditorSends
  <2> PICK m \in Message : m.type # "watched" /\ inbox' = Append(inbox, m)
    BY <1>2 DEF EditorSends
  <2>1. \A k \in DOMAIN inbox' : inbox'[k] = m \/ (k \in DOMAIN inbox /\ inbox'[k] = inbox[k])
    BY DEF TypeOK
  <2> QED
    BY <1>2, <2>1 DEF EditorSends, Bounded
<1>3. CASE Deliver
  <2> PICK n \in 1..MaxEvents : SendWatched(n)
    BY <1>3 DEF Deliver
  <2> DEFINE m == [type |-> "watched", changes |-> SubSeq(events, 1, n)]
  <2>1. /\ n \in 1..Len(events) /\ events' = SubSeq(events, n + 1, Len(events))
        /\ inbox' = Append(inbox, m) /\ UNCHANGED batch
    BY DEF SendWatched, serverVars
  <2>2. Len(SubSeq(events, 1, n)) <= MaxEvents /\ Len(events') <= MaxEvents
    BY <2>1, BoundsAssumption DEF TypeOK, Bounded
  <2>3. m.changes = SubSeq(events, 1, n)
    OBVIOUS
  <2> HIDE DEF m
  <2>4. \A k \in DOMAIN inbox' : inbox'[k] = m \/ (k \in DOMAIN inbox /\ inbox'[k] = inbox[k])
    BY <2>1 DEF TypeOK
  <2> QED
    BY <2>1, <2>2, <2>3, <2>4 DEF Bounded
<1>4. CASE HandleOpen \/ HandleEdit
  <2>1. UNCHANGED <<events, batch>> /\ (Receive("open") \/ Receive("edit"))
    BY <1>4 DEF HandleOpen, HandleEdit
  <2> QED
    BY <2>1, ReceivedBounded DEF Bounded
<1>5. CASE StartBatch
  <2>1. UNCHANGED events /\ Receive("watched")
    BY <1>5 DEF StartBatch
  <2> QED
    BY <1>5, <2>1, ReceivedBounded, BatchInPlace DEF Bounded
<1>6. CASE FinishBatch \/ \E i \in 1..MaxEvents : ApplyChange(i)
  <2>1. UNCHANGED <<events, inbox>> /\ DOMAIN batch' \subseteq DOMAIN batch
    BY <1>6 DEF FinishBatch, ApplyChange, editorVars, Rest
  <2> QED
    BY <2>1 DEF Bounded
<1> QED
  BY <1>1, <1>2, <1>3, <1>4, <1>5, <1>6, OutsideSteps DEF Next, ServerStep

\* The sums and products of the steps below.
LEMMA OneHandled ==
    ASSUME NEW n \in Nat, NEW c \in Nat, NEW b \in Nat, n # 0, b < c
    PROVE  /\ n * c \in Nat
           /\ (n - 1) * c + b < n * c
<1>1. (n - 1) * c = n * c - c /\ n * c \in Nat
  OBVIOUS
<1> QED
  BY <1>1

\* What is left to handle is a number, and is 0 only when nothing is left.
LEMMA HandlingCounts ==
    ASSUME TypeOK, Bounded
    PROVE  /\ IsFiniteSet(DOMAIN batch) /\ Cardinality(DOMAIN batch) \in Nat
           /\ Cardinality(DOMAIN batch) <= MaxEvents
           /\ InBatch \in Nat /\ InBatch < MaxEvents + 2
           /\ Len(inbox) \in Nat /\ Len(inbox) * (MaxEvents + 2) \in Nat
           /\ ToHandle \in Nat
           /\ ToHandle = 0 => inbox = <<>> /\ ~busy
<1>1. IsFiniteSet(1..MaxEvents) /\ Cardinality(1..MaxEvents) = MaxEvents
  BY BoundsAssumption, FS_Interval
<1>2. /\ IsFiniteSet(DOMAIN batch) /\ Cardinality(DOMAIN batch) <= MaxEvents
  BY <1>1, FS_Subset DEF Bounded
<1>3. Cardinality(DOMAIN batch) \in Nat
  BY <1>2, FS_CardinalityType
<1>4. InBatch \in Nat /\ InBatch < MaxEvents + 2 /\ (InBatch = 0 => ~busy)
  BY <1>2, <1>3, BoundsAssumption DEF InBatch
<1>5. Len(inbox) \in Nat /\ (Len(inbox) = 0 => inbox = <<>>)
  BY DEF TypeOK
<1>6. \A n, c \in Nat : n * c \in Nat /\ (n # 0 /\ c # 0 => n * c # 0)
  OBVIOUS
<1>7. Len(inbox) * (MaxEvents + 2) \in Nat
      /\ (Len(inbox) * (MaxEvents + 2) = 0 => inbox = <<>>)
  BY <1>5, <1>6, BoundsAssumption
<1> HIDE DEF InBatch
<1> QED
  BY <1>2, <1>3, <1>4, <1>5, <1>7 DEF ToHandle

\* Each step of the server handles something of what was sent.
LEMMA ServerLeavesLess ==
    ASSUME TypeOK, Bounded, BatchIsBusy, Bounded', TypeOK', ServerStep
    PROVE  ToHandle' < ToHandle
<1>1. ASSUME NEW type, Receive(type), InBatch' < MaxEvents + 2, InBatch' \in Nat
      PROVE  ToHandle' < ToHandle
  <2>1. Len(inbox) \in Nat /\ Len(inbox) # 0 /\ Len(inbox') = Len(inbox) - 1 /\ InBatch = 0
    BY <1>1 DEF Receive, TypeOK, InBatch
  <2>2. (Len(inbox) - 1) * (MaxEvents + 2) + InBatch' < Len(inbox) * (MaxEvents + 2)
        /\ Len(inbox) * (MaxEvents + 2) \in Nat
    BY <1>1, <2>1, OneHandled, BoundsAssumption
  <2> QED
    BY <2>1, <2>2 DEF ToHandle
<1>2. CASE HandleOpen \/ HandleEdit
  <2>1. UNCHANGED <<batch, busy>> /\ (Receive("open") \/ Receive("edit"))
    BY <1>2 DEF HandleOpen, HandleEdit
  <2>2. InBatch' = InBatch
    BY <2>1 DEF InBatch
  <2> QED
    BY <1>1, <2>1, <2>2, HandlingCounts
<1>3. CASE StartBatch
  <2>1. DOMAIN batch' \subseteq 1..MaxEvents /\ Receive("watched")
    BY <1>3, BatchInPlace DEF StartBatch
  <2>2. IsFiniteSet(1..MaxEvents) /\ Cardinality(1..MaxEvents) = MaxEvents
    BY BoundsAssumption, FS_Interval
  <2>3. Cardinality(DOMAIN batch') <= MaxEvents /\ Cardinality(DOMAIN batch') \in Nat
    BY <2>1, <2>2, FS_Subset, FS_CardinalityType
  <2>4. InBatch' = Cardinality(DOMAIN batch') + 1
    BY <1>3 DEF StartBatch, InBatch
  <2> QED
    BY <1>1, <2>1, <2>3, <2>4, BoundsAssumption
<1>4. ASSUME UNCHANGED inbox, InBatch' < InBatch, InBatch' \in Nat PROVE ToHandle' < ToHandle
  <2>1. Len(inbox') = Len(inbox)
    BY <1>4
  <2> QED
    BY <1>4, <2>1, HandlingCounts DEF ToHandle
<1>5. CASE FinishBatch
  <2>1. busy /\ ~busy' /\ UNCHANGED inbox
    BY <1>5 DEF FinishBatch, editorVars
  <2>2. InBatch = Cardinality(DOMAIN batch) + 1 /\ InBatch' = 0
    BY <2>1 DEF InBatch
  <2> QED
    BY <1>4, <2>1, <2>2, HandlingCounts
<1>6. ASSUME NEW i \in 1..MaxEvents, ApplyChange(i) PROVE ToHandle' < ToHandle
  <2>1. /\ busy /\ busy' = busy /\ UNCHANGED inbox
        /\ i \in DOMAIN batch /\ DOMAIN batch' = DOMAIN batch \ {i}
    BY <1>6 DEF ApplyChange, IsNext, Rest, editorVars
  <2>2. Cardinality(DOMAIN batch') = Cardinality(DOMAIN batch) - 1
    BY <2>1, HandlingCounts, FS_RemoveElement
  <2>3. InBatch = Cardinality(DOMAIN batch) + 1 /\ InBatch' = Cardinality(DOMAIN batch)
    BY <2>1, <2>2, HandlingCounts DEF InBatch
  <2> QED
    BY <1>4, <2>1, <2>3, HandlingCounts
<1> QED
  BY <1>2, <1>3, <1>5, <1>6 DEF ServerStep

\* What the main loop can always do: end the batch or apply its next change,
\* and between two batches receive the oldest notification.
GoesOn ==
    /\ busy => DOMAIN batch = {} \/ \E i \in 1..MaxEvents : IsNext(i)
    /\ ~busy /\ inbox # <<>> => Head(inbox).type \in {"open", "edit", "watched"}

\* A batch that is not empty has a next change, and a notification is of a kind
\* that has a handler.
LEMMA AlwaysGoesOn == TypeOK /\ Bounded => GoesOn
<1> SUFFICES ASSUME TypeOK, Bounded PROVE GoesOn
  OBVIOUS
<1>1. ASSUME DOMAIN batch # {} PROVE \E i \in 1..MaxEvents : IsNext(i)
  <2>1. DOMAIN batch \in SUBSET Nat
    BY DEF TypeOK
  <2>2. PICK i \in DOMAIN batch : \A j \in DOMAIN batch : i <= j
    BY <1>1, <2>1, LeastOfASet
  <2> QED
    BY <2>2 DEF Bounded, IsNext
<1>2. ASSUME inbox # <<>> PROVE Head(inbox).type \in {"open", "edit", "watched"}
  <2>1. Head(inbox) \in Message
    BY <1>2 DEF TypeOK
  <2> QED
    BY <2>1 DEF Message
<1> QED
  BY <1>1, <1>2 DEF GoesOn

\* Each step of the main loop takes from what was sent to it, a step of any
\* other adds to it only by sending, and while something is left the loop has
\* a step to take: no notification, no order of a batch's changes and no
\* change that fails holds it up.
THEOREM NotificationsAreHandled ==
    Spec => /\ [](ToHandle \in Nat /\ (ToHandle = 0 => inbox = <<>> /\ ~busy) /\ GoesOn)
            /\ [][ServerStep => ToHandle' < ToHandle]_vars
            /\ [][UNCHANGED inbox => ToHandle' < ToHandle \/ ToHandle' = ToHandle]_vars
<1> DEFINE Counted == ToHandle \in Nat /\ (ToHandle = 0 => inbox = <<>> /\ ~busy) /\ GoesOn
           Handles == ServerStep => ToHandle' < ToHandle
           AddsNone == UNCHANGED inbox => ToHandle' < ToHandle \/ ToHandle' = ToHandle
           Inv == TypeOK /\ Bounded /\ BatchIsBusy
<1>1. Init => Bounded /\ BatchIsBusy
  BY BoundsAssumption DEF Init, Bounded, BatchIsBusy
<1>2. Bounded /\ BatchIsBusy /\ TypeOK /\ [Next]_vars => Bounded' /\ BatchIsBusy'
  BY BoundedKept, BatchIsBusyKept
<1>3. Inv => Counted
  BY HandlingCounts, AlwaysGoesOn
<1>4. Inv /\ Inv' /\ [Next]_vars => [Handles]_vars
  BY ServerLeavesLess
<1>5. Inv /\ Inv' /\ [Next]_vars => [AddsNone]_vars
  <2> SUFFICES ASSUME Inv, Inv', [Next]_vars, UNCHANGED inbox
               PROVE  ToHandle' < ToHandle \/ ToHandle' = ToHandle
    OBVIOUS
  <2>1. CASE ServerStep
    BY <2>1, ServerLeavesLess
  <2>2. CASE ~ServerStep
    <3>1. UNCHANGED <<batch, busy>>
      BY <2>2, OutsideSteps DEF Next, Quiet, EditorSends, Deliver, SendWatched, serverVars
    <3>2. ToHandle' = ToHandle
      BY <3>1 DEF ToHandle, InBatch
    <3> QED
      BY <3>2
  <2> QED
    BY <2>1, <2>2
<1> QED
  BY <1>1, <1>2, <1>3, <1>4, <1>5, TypesHold, PTL DEF Spec
=============================================================================
