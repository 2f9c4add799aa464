---------------------------- MODULE WorkspaceSync ----------------------------
(***************************************************************************)
(* The language server's copy of the files: crates/server/src/file_events. *)
(* rs, the notifications of crates/server/src/lib.rs and the loader of     *)
(* crates/db/src/loader.rs, on the file set of crates/db/src/lib.rs.       *)
(*                                                                         *)
(* Three parties hold each file: the disk, the editor (its buffers) and    *)
(* the server (its FileSet).  The server learns of the other two through   *)
(* one ordered stream of notifications; what the disk's watcher saw        *)
(* reaches that stream late and in batches.  The server handles one        *)
(* notification at a time, on its main loop.  A batch of watched changes   *)
(* reads the disk once per change, and the disk moves on in between, so a  *)
(* batch is handled in several steps here.                                 *)
(*                                                                         *)
(* A folder tree is given by Above: the folders a folder is in, itself     *)
(* included.  A text is an abstract value; Garbled is what an edit by      *)
(* ranges makes of a text it was not computed on.                          *)
(***************************************************************************)
EXTENDS Naturals, Sequences, FiniteSets

CONSTANTS
    Files,          \* the .st files a `file:` URL can name
    Drafts,         \* `untitled:` documents: no file is theirs
    Texts,          \* what a file or a buffer can hold
    Garbled,        \* a text no one wrote
    Gone,           \* disk: there is no such file
    Closed,         \* editor: the document is not open
    Folders,
    Root,           \* the workspace folder
    FolderOf,       \* [Files -> Folders]
    Above,          \* [Folders -> SUBSET Folders], each folder in its own
    LibraryOrder,   \* the library folders, in the order they are resolved
    Standards,      \* what .env makes of the standard library: sets of a folder
    Manifests,      \* what the workspace's config.toml goes through
    Projects,       \* folders that always have a config.toml of their own
    Movable,        \* folders whose own config.toml comes and goes
    Written,        \* files other programs write and delete
    Openable,       \* documents the editor opens
    Saves,          \* whether the editor saves
    MaxEvents,      \* bound: changes the watcher saw and has not sent
    MaxInbox        \* bound: notifications sent and not handled

Docs == Files \cup Drafts
ConfigFile == "config.toml"
LibraryFolders == {LibraryOrder[i] : i \in DOMAIN LibraryOrder}
Manifest == [state : {"missing", "invalid", "valid"}, deps : SUBSET LibraryFolders]

ASSUME DocsAssumption ==
    /\ Files \cap Drafts = {}
    /\ ConfigFile \notin Files
    /\ Openable \subseteq Docs
    /\ Written \subseteq Files
    /\ {Gone, Closed, Garbled} \cap Texts = {}

ASSUME FoldersAssumption ==
    /\ Root \in Folders
    /\ FolderOf \in [Files -> Folders]
    /\ Above \in [Folders -> SUBSET Folders]
    /\ \A g \in Folders : g \in Above[g]
    /\ LibraryOrder \in Seq(Folders)
    /\ Standards \subseteq SUBSET LibraryFolders
    /\ Projects \cup Movable \subseteq Folders \ {Root}
    /\ Manifests \subseteq Manifest

ASSUME BoundsAssumption ==
    /\ Saves \in BOOLEAN
    /\ MaxEvents \in Nat
    /\ MaxInbox \in Nat

VARIABLES
    (* the disk *)
    disk,           \* [Files -> Texts \cup {Gone}]
    projects,       \* the folders, other than Root, with a config.toml
    manifest,       \* the config.toml of Root
    standard,       \* the folder .env has the standard library in, or {}
    (* the editor and its watcher *)
    buffer,         \* [Docs -> Texts \cup {Closed}]
    events,         \* what the watcher saw, oldest first
    inbox,          \* notifications on their way, oldest first
    squiggles,      \* whether the editor shows errors in config.toml
    (* the server *)
    libraries,      \* Workspace::libraries
    workspace,      \* FileSet::workspace: a function from the held URLs
    libraryFiles,   \* FileSet::libraries with FileSet::library_ids
    batch,          \* the watched changes to be applied, by their places
    busy,           \* a batch is being applied
    failed,         \* one of its changes failed
    (* history, read by the properties only *)
    unseen,         \* projects or standard changed since they were last read
    parted          \* documents the server has taken from elsewhere

diskVars    == <<disk, projects, manifest, standard>>
editorVars  == <<buffer, events, inbox, squiggles>>
serverVars  == <<libraries, workspace, libraryFiles, batch, busy, failed>>
historyVars == <<unseen, parted>>
vars        == <<diskVars, editorVars, serverVars, historyVars>>

FileEvent  == [kind : {"created", "changed", "deleted"}, path : Files]
Event      == FileEvent \cup [kind : {"changed"}, path : {ConfigFile}]
Message    == [type : {"open"}, doc : Docs, text : Texts]
              \cup [type : {"edit"}, doc : Docs, whole : BOOLEAN, base : Texts, text : Texts]
              \cup [type : {"watched"}, changes : Seq(Event)]

Held(d) == d \in DOMAIN workspace

-----------------------------------------------------------------------------
(* The loader: which files are whose.                                      *)

Below(dir, f) == dir \in Above[FolderOf[f]]

\* The folders on the way from dir down to f, dir itself left out.
Between(dir, f) == {g \in Above[FolderOf[f]] \ {dir} : dir \in Above[g]}

\* A listing older than the disk.
FindFilesListedBefore(dir, except) ==
    {f \in Files : Below(dir, f) /\ Between(dir, f) \cap (projects \cup except) = {}}

\* find_files_except: the sources under dir, but not in a folder with a
\* config.toml of its own, nor in a folder of `except`.
FindFiles(dir, except) ==
    {f \in Files : /\ disk[f] # Gone
                   /\ Below(dir, f)
                   /\ Between(dir, f) \cap (projects \cup except) = {}}

\* Any document the editor names, wherever it is.
TakesAnywhere(f, libFiles) == disk[f] # Gone /\ f \notin libFiles

\* Any document below the workspace folder.
TakesProjects(f, libFiles) == disk[f] # Gone /\ f \notin libFiles /\ Below(Root, f)

\* is_workspace_file, with libFiles the libraries': the path is canonicalized,
\* so the file has to exist.
Takes(f, libFiles) ==
    /\ disk[f] # Gone
    /\ f \notin libFiles
    /\ Below(Root, f)
    /\ Between(Root, f) \cap projects = {}

IsWorkspaceFile(f) == Takes(f, DOMAIN libraryFiles)
IsWorkspaceDocument(d) == d \in Files => IsWorkspaceFile(d)

\* resolve_all: the standard library, then the dependencies of a config.toml
\* that parses, the ones that are folders with a config.toml.
Resolves(l) == \/ l \in standard
               \/ /\ manifest.state = "valid"
                  /\ l \in manifest.deps \cap projects
ResolvedPlaces == {i \in DOMAIN LibraryOrder : Resolves(LibraryOrder[i])}
ResolvedLibraries ==
    [n \in 1..Cardinality(ResolvedPlaces) |->
        LibraryOrder[CHOOSE i \in ResolvedPlaces :
                         Cardinality({j \in ResolvedPlaces : j <= i}) = n]]
ConfigurationErrors == \/ manifest.state = "invalid"
                       \/ manifest.state = "valid" /\ ~(manifest.deps \subseteq projects)

\* load_libraries: each file found is of the first library that finds it.
LoadedLibraryFiles(libs) ==
    LET finds(i) == FindFiles(libs[i], {Root} \cup {libs[j] : j \in DOMAIN libs \ {i}})
    IN  [f \in UNION {finds(i) : i \in DOMAIN libs} |->
            CHOOSE i \in DOMAIN libs : f \in finds(i) /\ \A j \in 1..(i - 1) : f \notin finds(j)]

\* The libraries' files again, as the workspace's own.
LoadedWithLibraries(libFiles) ==
    [d \in FindFiles(Root, {}) \cup (Drafts \cap DOMAIN workspace) |->
        IF Held(d) THEN workspace[d] ELSE disk[d]]

\* Every file read again, as a new file.
LoadedAnew(libFiles) ==
    [d \in (FindFiles(Root, {}) \ DOMAIN libFiles) \cup (Drafts \cap DOMAIN workspace) |->
        IF d \in Drafts THEN workspace[d] ELSE disk[d]]

\* Only what is found on the disk.
LoadedWithoutDrafts(libFiles) ==
    [d \in FindFiles(Root, {}) \ DOMAIN libFiles |->
        IF Held(d) THEN workspace[d] ELSE disk[d]]

\* What open_workspace would find now: the libraries' files, then the
\* workspace's among the rest.
FilesOfLibraries == DOMAIN LoadedLibraryFiles(ResolvedLibraries)
LoadersFiles == FindFiles(Root, {}) \ FilesOfLibraries

\* load_workspace: what is found and no library's.  A file held keeps its
\* text, a file not found any more is let go, a draft stays.
LoadedWorkspace(libFiles) ==
    [d \in (FindFiles(Root, {}) \ DOMAIN libFiles) \cup (Drafts \cap DOMAIN workspace) |->
        IF Held(d) THEN workspace[d] ELSE disk[d]]

\* The places in the list written again only when the list of files changed.
RefreshKeepingPlaces ==
    /\ libraries' = ResolvedLibraries
    /\ libraryFiles' = LET loaded == LoadedLibraryFiles(ResolvedLibraries)
                       IN  IF DOMAIN loaded = DOMAIN libraryFiles THEN libraryFiles ELSE loaded
    /\ workspace' = LoadedWorkspace(libraryFiles')
    /\ squiggles' = IF manifest.state = "missing" THEN squiggles ELSE ConfigurationErrors

\* refresh_configuration: open_workspace, and the errors of config.toml sent
\* to the editor when there is a config.toml.
RefreshConfiguration ==
    /\ libraries' = ResolvedLibraries
    /\ libraryFiles' = LoadedLibraryFiles(ResolvedLibraries)
    /\ workspace' = LoadedWorkspace(LoadedLibraryFiles(ResolvedLibraries))
    /\ squiggles' = IF manifest.state = "missing" THEN squiggles ELSE ConfigurationErrors

-----------------------------------------------------------------------------
(* The server starts on a disk at rest, and reads it before its first      *)
(* notification.                                                           *)

Init ==
    /\ disk \in [Files -> Texts \cup {Gone}]
    /\ projects \in {Projects \cup moved : moved \in SUBSET Movable}
    /\ manifest \in Manifests
    /\ standard \in Standards
    /\ buffer = [d \in Docs |-> Closed]
    /\ events = <<>>
    /\ inbox = <<>>
    /\ squiggles = IF manifest.state = "missing" THEN FALSE ELSE ConfigurationErrors
    /\ libraries = ResolvedLibraries
    /\ libraryFiles = LoadedLibraryFiles(ResolvedLibraries)
    /\ workspace = [f \in FindFiles(Root, {}) \ DOMAIN libraryFiles |-> disk[f]]
    /\ batch = <<>>
    /\ busy = FALSE
    /\ failed = FALSE
    /\ unseen = FALSE
    /\ parted = {}

-----------------------------------------------------------------------------
(* The disk: other programs write it, and the watcher sees each change.    *)

Seen(e) == Len(events) < MaxEvents /\ events' = Append(events, e)

WriteFile(f, t) ==
    /\ f \in Written /\ disk[f] # t
    /\ disk' = [disk EXCEPT ![f] = t]
    /\ Seen([kind |-> IF disk[f] = Gone THEN "created" ELSE "changed", path |-> f])
    /\ UNCHANGED <<projects, manifest, standard, buffer, inbox, squiggles, serverVars, historyVars>>

DeleteFile(f) ==
    /\ f \in Written /\ disk[f] # Gone
    /\ disk' = [disk EXCEPT ![f] = Gone]
    /\ Seen([kind |-> "deleted", path |-> f])
    /\ UNCHANGED <<projects, manifest, standard, buffer, inbox, squiggles, serverVars, historyVars>>

\* The watcher reports this config.toml too; the server acts on Root's alone.
MoveProject(g) ==
    /\ g \in Movable
    /\ projects' = IF g \in projects THEN projects \ {g} ELSE projects \cup {g}
    /\ unseen' = TRUE
    /\ UNCHANGED <<disk, manifest, standard, editorVars, serverVars, parted>>

WriteManifest(m) ==
    /\ m \in Manifests /\ m # manifest
    /\ manifest' = m
    /\ Seen([kind |-> "changed", path |-> ConfigFile])
    /\ UNCHANGED <<disk, projects, standard, buffer, inbox, squiggles, serverVars, historyVars>>

\* Nobody watches .env: it is read with the configuration.
WriteDotenv(s) ==
    /\ s \in Standards /\ s # standard
    /\ standard' = s
    /\ unseen' = TRUE
    /\ UNCHANGED <<disk, projects, manifest, editorVars, serverVars, parted>>

-----------------------------------------------------------------------------
(* The editor.  Closing sends a notification the server ignores.           *)

Send(m) == Len(inbox) < MaxInbox /\ inbox' = Append(inbox, m)

OpenDocument(d, t) ==
    /\ d \in Openable /\ buffer[d] = Closed
    /\ d \in Files => t = disk[d]
    /\ buffer' = [buffer EXCEPT ![d] = t]
    /\ Send([type |-> "open", doc |-> d, text |-> t])
    /\ UNCHANGED <<diskVars, events, squiggles, serverVars, historyVars>>

EditDocument(d, t, whole) ==
    /\ buffer[d] \notin {Closed, t}
    /\ buffer' = [buffer EXCEPT ![d] = t]
    /\ Send([type |-> "edit", doc |-> d, whole |-> whole, base |-> buffer[d], text |-> t])
    /\ UNCHANGED <<diskVars, events, squiggles, serverVars, historyVars>>

CloseDocument(d) ==
    /\ buffer[d] # Closed
    /\ buffer' = [buffer EXCEPT ![d] = Closed]
    /\ UNCHANGED <<diskVars, events, inbox, squiggles, serverVars, historyVars>>

SaveDocument(d) ==
    /\ Saves /\ d \in Files /\ buffer[d] # Closed /\ disk[d] # buffer[d]
    /\ disk' = [disk EXCEPT ![d] = buffer[d]]
    /\ Seen([kind |-> IF disk[d] = Gone THEN "created" ELSE "changed", path |-> d])
    /\ UNCHANGED <<projects, manifest, standard, buffer, inbox, squiggles, serverVars, historyVars>>

\* The oldest n of the changes the watcher saw, in one notification.
\* The one place past MaxInbox is the watcher's: the editor never keeps it
\* from sending.
SendWatched(n) ==
    /\ n \in 1..Len(events)
    /\ Len(inbox) <= MaxInbox
    /\ inbox' = Append(inbox, [type |-> "watched", changes |-> SubSeq(events, 1, n)])
    /\ events' = SubSeq(events, n + 1, Len(events))
    /\ UNCHANGED <<diskVars, buffer, squiggles, serverVars, historyVars>>

-----------------------------------------------------------------------------
(* The server.                                                             *)

Receive(type) == ~busy /\ inbox # <<>> /\ Head(inbox).type = type /\ inbox' = Tail(inbox)

Put(d, t) == workspace' = [x \in DOMAIN workspace \cup {d} |-> IF x = d THEN t ELSE workspace[x]]
Drop(d)   == workspace' = [x \in DOMAIN workspace \ {d} |-> workspace[x]]

\* DidOpen: a document of the workspace the server holds keeps the server's
\* text, one it does not hold is added with the editor's.
HandleOpen ==
    /\ Receive("open")
    /\ LET d == Head(inbox).doc
           t == Head(inbox).text
       IN  /\ IF IsWorkspaceDocument(d) /\ ~Held(d) THEN Put(d, t) ELSE UNCHANGED workspace
           /\ parted' = IF d \in DOMAIN workspace' /\ workspace'[d] # t
                        THEN parted \cup {d} ELSE parted \ {d}
    /\ UNCHANGED <<diskVars, buffer, events, squiggles, libraries, libraryFiles,
                   batch, busy, failed, unseen>>

\* What an edit makes of the server's text: the new text when it is the whole
\* of it or was computed on the same text, otherwise garbage or an error.
Edited(m) == IF m.whole \/ workspace[m.doc] = m.base
             THEN {m.text} ELSE {Garbled, workspace[m.doc]}

\* Only the documents DidOpen would take now.
EditsReachTaken(d) == Held(d) /\ IsWorkspaceDocument(d)

\* A document left out when it was opened stays out, one held is edited
\* whatever became of its file.
EditsReach(d) == Held(d)

HandleEdit ==
    /\ Receive("edit")
    /\ LET m == Head(inbox)
       IN  \/ /\ EditsReach(m.doc)
              /\ \E t \in Edited(m) : Put(m.doc, t)
              /\ parted' = IF m.whole THEN parted \ {m.doc} ELSE parted
           \/ ~EditsReach(m.doc) /\ UNCHANGED <<workspace, parted>>
    /\ UNCHANGED <<diskVars, buffer, events, squiggles, libraries, libraryFiles,
                   batch, busy, failed, unseen>>

\* DidChangeWatchedFiles: the configuration first, when the batch has it, and
\* then the changes, the files created that are not the workspace's left out.
HasConfig(changes) == \E i \in DOMAIN changes : changes[i].path = ConfigFile

\* The configuration alone, when the batch has it.
RetainedConfigOnly(changes, libFiles) ==
    {i \in DOMAIN changes : /\ ~HasConfig(changes)
                            /\ changes[i].kind = "created" => Takes(changes[i].path, libFiles)}

\* Vetted by the libraries' files of before the configuration was read.
RetainedByOldLibraries(changes, libFiles) ==
    {i \in DOMAIN changes : /\ changes[i].path # ConfigFile
                            /\ changes[i].kind = "created" => IsWorkspaceFile(changes[i].path)}

\* The places of the changes that are applied.
Retained(changes, libFiles) ==
    {i \in DOMAIN changes : /\ changes[i].path # ConfigFile
                            /\ changes[i].kind = "created" => Takes(changes[i].path, libFiles)}

StartBatch ==
    /\ Receive("watched")
    /\ LET changes == Head(inbox).changes
       IN  /\ \/ /\ HasConfig(changes)
                 /\ RefreshConfiguration
                 /\ unseen' = FALSE
                 /\ parted' = parted \cup {d \in DOMAIN workspace' \ DOMAIN workspace :
                                              buffer[d] # Closed}
              \/ /\ ~HasConfig(changes)
                 /\ UNCHANGED <<libraries, libraryFiles, workspace, squiggles, historyVars>>
           /\ batch' = [i \in Retained(changes, DOMAIN libraryFiles') |-> changes[i]]
    /\ busy' = TRUE
    /\ failed' = FALSE
    /\ UNCHANGED <<diskVars, buffer, events>>

IsNext(i) == i \in DOMAIN batch /\ \A j \in DOMAIN batch : i <= j
Rest(i)   == [j \in DOMAIN batch \ {i} |-> batch[j]]

\* A created file the server does not hold, or a changed one it holds.
Reads(e) == \/ e.kind = "created" /\ ~Held(e.path)
            \/ e.kind = "changed" /\ Held(e.path)

\* The first change that fails is the batch's last.
ApplyUntilFailure(i) ==
    /\ busy /\ IsNext(i)
    /\ LET f == batch[i].path
       IN  IF Reads(batch[i]) /\ disk[f] = Gone
           THEN batch' = <<>> /\ UNCHANGED workspace
           ELSE /\ batch' = Rest(i)
                /\ \/ Reads(batch[i]) /\ Put(f, disk[f])
                   \/ batch[i].kind = "deleted" /\ Drop(f)
                   \/ ~Reads(batch[i]) /\ batch[i].kind # "deleted" /\ UNCHANGED workspace
    /\ UNCHANGED <<diskVars, editorVars, libraries, libraryFiles, busy, failed, historyVars>>

\* One change of the batch: a file created is read and added, one changed is
\* read again, one deleted is removed, and each other is left as it is.  A
\* file that is not there to be read fails, and the batch goes on.
ApplyChange(i) ==
    /\ busy /\ IsNext(i)
    /\ batch' = Rest(i)
    /\ LET f == batch[i].path
       IN  \/ /\ Reads(batch[i]) /\ disk[f] # Gone
              /\ Put(f, disk[f])
              /\ parted' = IF buffer[f] # Closed /\ workspace' # workspace
                           THEN parted \cup {f} ELSE parted
              /\ UNCHANGED failed
           \/ /\ Reads(batch[i]) /\ disk[f] = Gone
              /\ failed' = TRUE
              /\ UNCHANGED <<workspace, parted>>
           \/ /\ batch[i].kind = "deleted" /\ Held(f)
              /\ Drop(f)
              /\ UNCHANGED <<failed, parted>>
           \/ /\ ~Reads(batch[i]) /\ ~(batch[i].kind = "deleted" /\ Held(f))
              /\ UNCHANGED <<workspace, failed, parted>>
    /\ UNCHANGED <<diskVars, editorVars, libraries, libraryFiles, busy, unseen>>

\* The batch's end: a refresh is asked of the editor unless a change failed.
FinishBatch ==
    /\ busy /\ DOMAIN batch = {}
    /\ busy' = FALSE
    /\ failed' = FALSE
    /\ UNCHANGED <<diskVars, editorVars, libraries, workspace, libraryFiles, batch,
                   unseen, parted>>

-----------------------------------------------------------------------------
DiskStep ==
    \/ \E f \in Files, t \in Texts : WriteFile(f, t)
    \/ \E f \in Files : DeleteFile(f)
    \/ \E g \in Folders : MoveProject(g)
    \/ \E m \in Manifests : WriteManifest(m)
    \/ \E s \in Standards : WriteDotenv(s)

EditorStep ==
    \/ \E d \in Docs, t \in Texts : OpenDocument(d, t)
    \/ \E d \in Docs, t \in Texts, whole \in BOOLEAN : EditDocument(d, t, whole)
    \/ \E d \in Docs : CloseDocument(d)
    \/ \E d \in Docs : SaveDocument(d)

ServerStep == \/ HandleOpen \/ HandleEdit \/ StartBatch \/ FinishBatch
              \/ \E i \in 1..MaxEvents : ApplyChange(i)

Deliver == \E n \in 1..MaxEvents : SendWatched(n)

Next == DiskStep \/ EditorStep \/ Deliver \/ ServerStep

Spec == Init /\ [][Next]_vars

\* The server's main loop and the watcher's delivery run on; the disk and the
\* person at the editor owe nothing.
FairSpec == Spec /\ WF_vars(ServerStep) /\ WF_vars(Deliver)
-----------------------------------------------------------------------------
(* Properties.                                                             *)

\* Every variable holds what the code's types allow.
TypeOK ==
    /\ disk \in [Files -> Texts \cup {Gone}]
    /\ projects \subseteq Folders
    /\ manifest \in Manifest
    /\ standard \subseteq LibraryFolders
    /\ buffer \in [Docs -> Texts \cup {Closed}]
    /\ events \in Seq(Event)
    /\ inbox \in Seq(Message)
    /\ squiggles \in BOOLEAN
    /\ DOMAIN workspace \subseteq Docs
    /\ \A d \in DOMAIN workspace : workspace[d] \in Texts \cup {Garbled}
    /\ libraries \in Seq(LibraryFolders)
    /\ DOMAIN libraryFiles \subseteq Files
    /\ DOMAIN batch \subseteq Nat
    /\ \A i \in DOMAIN batch : batch[i] \in FileEvent
    /\ busy \in BOOLEAN /\ failed \in BOOLEAN
    /\ unseen \in BOOLEAN
    /\ parted \subseteq Docs

\* No file is both the workspace's and a library's, whatever was opened,
\* created and configured in between: a file on both sides declares each of
\* its POUs twice.  open_workspace loads the libraries first for this.
LibraryFilesAreNotTheWorkspaces == DOMAIN workspace \cap DOMAIN libraryFiles = {}

\* A file created, and found to be the workspace's when its batch began, is
\* so when its turn comes: no file is added on a check that went stale.
BatchIsVetted ==
    \A i \in DOMAIN batch :
        batch[i].kind = "created" =>
            /\ batch[i].path \notin DOMAIN libraryFiles
            /\ Below(Root, batch[i].path)
            /\ unseen \/ Between(Root, batch[i].path) \cap projects = {}

\* The library a file is recorded under is one that is configured now, and
\* the innermost the file is in: Workspace::libraries and FileSet::library_ids
\* are written apart, and an id is a place in the list.
EachLibraryFileIsItsLibrarys ==
    \A f \in DOMAIN libraryFiles :
        /\ libraryFiles[f] \in DOMAIN libraries
        /\ LET dir == libraries[libraryFiles[f]]
           IN  /\ Below(dir, f)
               /\ \A i \in DOMAIN libraries : libraries[i] \notin Between(dir, f)

\* No file from outside the workspace folder is ever held, nor one of a
\* project inside it, by whichever of the editor, the watcher and the loader
\* it comes: is_workspace_file and find_files are two codes of one rule.  A
\* project told of by nothing since it came or went is not seen.
ForeignFilesAreLeftOut ==
    \A f \in Files \cap DOMAIN workspace :
        Below(Root, f) /\ (unseen \/ Between(Root, f) \cap projects = {})

\* Even while the server has not seen which projects came and went, a file
\* that enters is below the workspace folder and in no project on the disk at
\* that time: is_workspace_file asks the disk, not what was found before.
\* But for a batch, whose files were vetted when it began.
OnlyOwnFilesEnter ==
    [][\A f \in Files \cap (DOMAIN workspace' \ DOMAIN workspace) :
          Below(Root, f) /\ (Between(Root, f) \cap projects = {} \/ (busy /\ unseen))]_vars

Settled == events = <<>> /\ inbox = <<>> /\ ~busy

\* Files that came to a library's folder since the libraries were read.
CameToALibrary == FilesOfLibraries \ DOMAIN libraryFiles

\* Once every change the watcher saw is handled, the server holds the files
\* the loader would find on the disk, each with the disk's text, and besides
\* them at most some that came to a library's folder: no interleaving of
\* writes, deletions and configurations with the reading of a batch loses a
\* file, keeps one that is gone or keeps an old text.  Files the editor opens
\* are left to FollowedUnlessParted, and a nested config.toml or a .env that
\* changed since they were read is not seen.
SettledFilesAreTheDisks ==
    Settled /\ ~unseen =>
        \A f \in Files \ Openable :
            /\ f \in LoadersFiles => Held(f)
            /\ Held(f) => f \in LoadersFiles \cup CameToALibrary /\ workspace[f] = disk[f]

\* Once every notification is handled, the server's text of an open document
\* is the editor's, but for the documents the server's copy parted from:
\* those opened over another text than the server held, and those the server
\* read from the disk while they were open.
FollowedUnlessParted ==
    inbox = <<>> /\ ~busy =>
        \A d \in DOMAIN workspace :
            buffer[d] # Closed /\ d \notin parted => workspace[d] = buffer[d]

\* The text of a held file changes by an edit of it or by a change the
\* watcher saw in it, and by nothing else: a configuration read again keeps
\* the changes not saved (load_workspace).
TextsChangeByTheirOwnEvents ==
    [][\A d \in DOMAIN workspace \cap DOMAIN workspace' :
          workspace'[d] # workspace[d] =>
              \/ ~busy /\ Head(inbox).type = "edit" /\ Head(inbox).doc = d
              \/ busy /\ \E i \in DOMAIN batch : IsNext(i) /\ batch[i] = [kind |-> "changed", path |-> d]]_vars

\* A document with no file stays, whatever the loader finds on the disk.
DraftsStay == [][Drafts \cap DOMAIN workspace \subseteq DOMAIN workspace']_vars

\* A file that stays on the disk with one text, the workspace's, is taken
\* with that text for good, whatever else changes meanwhile.
FilesAreTaken ==
    \A f \in Written \ Openable, t \in Texts :
        <>[](disk[f] = t /\ IsWorkspaceFile(f) /\ ~unseen)
            => <>[](Held(f) /\ workspace[f] = t)

\* Once every change the watcher saw is handled, the editor shows errors in
\* config.toml only when what is on the disk has some.
StaleSquigglesAreCleared == Settled /\ ~unseen => (squiggles => ConfigurationErrors)
=============================================================================
