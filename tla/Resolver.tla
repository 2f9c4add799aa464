------------------------------ MODULE Resolver ------------------------------
(***************************************************************************)
(* The libraries of a workspace: resolve of crates/db/src/dependencies.rs. *)
(*                                                                         *)
(* The walk reads the [dependencies] of the workspace's config.toml, then  *)
(* of each library it comes to, depth first and in the order of the names. *)
(* A dependency is a folder (path), or a fetched library (url and hash),   *)
(* which the cache holds in a folder of its own.  What keeps one from      *)
(* being located at all - its shape, a folder that is not there, a library *)
(* that cannot be fetched - is one case, "lost".  The recursion of walk    *)
(* and read is a stack; an iteration of walk's loop is one step.           *)
(*                                                                         *)
(* The files do not change while they are read.                            *)
(***************************************************************************)
EXTENDS Naturals, Sequences

CONSTANTS
    Folders,
    Workspace,      \* the folder of the workspace
    Standards,      \* the folder of the standard library, or None
    Names,          \* a set of numbers, for their order
    NameOf,         \* the name in a folder's config.toml; None for no library
    FetchedIn,      \* the fetched library a folder is in, or None
    Projects,       \* what the config.toml files can ask for: [Folders -> Asked]
    MaxDepth,       \* bound: of the stack
    None

Dependencies ==
    [name : Names, kind : {"path", "url"}, dir : Folders] \cup [name : Names, kind : {"lost"}]

Asked == {D \in SUBSET Dependencies : \A d, e \in D : d.name = e.name => d = e}

ASSUME ResolverAssumption ==
    /\ Workspace \in Folders /\ Standards \subseteq Folders \cup {None}
    /\ None \notin Folders \cup Names
    /\ Names \subseteq Nat /\ MaxDepth \in Nat \ {0}
    /\ NameOf \in [Folders -> Names \cup {None}]
    /\ FetchedIn \in [Folders -> Folders \cup {None}]
    /\ FetchedIn[Workspace] = None
    /\ \A asks \in Projects :
          /\ asks \in [Folders -> SUBSET Dependencies]
          /\ \A f \in Folders : asks[f] \in Asked
          /\ \A f \in Folders : \A e \in asks[f] : e.kind = "url" => FetchedIn[e.dir] = e.dir
    /\ \A s \in Standards \ {None} : NameOf[s] # None

VARIABLES
    asks,       \* the dependencies of each folder's config.toml
    standard,   \* the standard library
    stack,      \* the walks, innermost last: whose, what is left of it, and
                \*   the fetched library it is part of
    required,   \* a name, to the folder it was read from
    libraries,  \* the libraries, in the order they are read
    problems    \* the dependencies that are none: who asked, and the name

vars == <<asks, standard, stack, required, libraries, problems>>

-----------------------------------------------------------------------------
(* One dependency, of the innermost walk.                                    *)

Done == stack = <<>>
Top  == stack[Len(stack)]

\* The next one: the one with the first name.
IsNext(e) == ~Done /\ e \in Top.left /\ \A d \in Top.left : e.name <= d.name

\* locate: it is there, and within the fetched library, if any.
Located(e) ==
    /\ e.kind # "lost"
    /\ e.kind = "path" /\ Top.hashed # None => FetchedIn[e.dir] = Top.hashed

\* read: it is another folder, and the library it is asked for as.
Readable(e) == Located(e) /\ e.dir # Workspace /\ NameOf[e.dir] = e.name

\* The library was read before, from that very folder.
SameName(e)    == e.name \in DOMAIN required
ReadAlready(e) == e.name \in DOMAIN required /\ required[e.name] = e.dir

Hashed(e) == IF e.kind = "url" THEN e.dir ELSE Top.hashed

\* The stack when e is behind it.
Passed(e) == [stack EXCEPT ![Len(stack)].left = @ \ {e}]

Problem(e) == problems' = problems \cup {[by |-> Top.dir, name |-> e.name]}

\* The library has its place before its own dependencies are read.
NotRecorded(e) == required
Recorded(e) ==
    [n \in DOMAIN required \cup {e.name} |-> IF n = e.name THEN e.dir ELSE required[n]]

-----------------------------------------------------------------------------
Walk(f, hashed) == [dir |-> f, left |-> asks[f], hashed |-> hashed]

Init ==
    /\ asks \in Projects
    /\ standard \in Standards
    /\ stack = <<Walk(Workspace, None)>>
    /\ required = IF standard = None THEN <<>> ELSE [n \in {NameOf[standard]} |-> standard]
    /\ libraries = IF standard = None THEN <<>> ELSE <<standard>>
    /\ problems = {}

\* No library can be read for it.
Reject(e) ==
    /\ IsNext(e) /\ ~Readable(e)
    /\ Problem(e)
    /\ stack' = Passed(e)
    /\ UNCHANGED <<asks, standard, required, libraries>>

\* A library two others share, or one that leads back to itself.
ShareLibrary(e) ==
    /\ IsNext(e) /\ Readable(e) /\ ReadAlready(e)
    /\ stack' = Passed(e)
    /\ UNCHANGED <<asks, standard, required, libraries, problems>>

\* Required from two places.
RejectSecond(e) ==
    /\ IsNext(e) /\ Readable(e) /\ SameName(e) /\ ~ReadAlready(e)
    /\ Problem(e)
    /\ stack' = Passed(e)
    /\ UNCHANGED <<asks, standard, required, libraries>>

\* A library, and what it depends on.
ReadLibrary(e) ==
    /\ IsNext(e) /\ Readable(e) /\ ~SameName(e)
    /\ Len(stack) < MaxDepth
    /\ required' = Recorded(e)
    /\ libraries' = Append(libraries, e.dir)
    /\ stack' = Append(Passed(e), Walk(e.dir, Hashed(e)))
    /\ UNCHANGED <<asks, standard, problems>>

Return ==
    /\ ~Done /\ Top.left = {}
    /\ stack' = SubSeq(stack, 1, Len(stack) - 1)
    /\ UNCHANGED <<asks, standard, required, libraries, problems>>

Next ==
    \/ \E e \in Dependencies : Reject(e) \/ ShareLibrary(e) \/ RejectSecond(e) \/ ReadLibrary(e)
    \/ Return

Spec == Init /\ [][Next]_vars

\* A function that is called goes on.
FairSpec == Spec /\ WF_vars(Next)

-----------------------------------------------------------------------------
(* What is asked for, whatever the order it is read in.                      *)

\* Those whose dependencies count: the standard library's do not.
Asking(S) == {Workspace} \cup (S \ {standard})

Closed(S) == \A f \in Asking(S) : \A e \in asks[f] : e.kind # "lost" => e.dir \in S

\* The least closed set.
Reached == {f \in Folders : \A S \in SUBSET Folders : Closed(S) => f \in S}

\* e is a library that f may use.
Well(f, e) ==
    /\ e.kind # "lost" /\ e.dir # Workspace /\ NameOf[e.dir] = e.name
    /\ e.kind = "path" /\ FetchedIn[f] # None => FetchedIn[e.dir] = FetchedIn[f]

\* Nothing is wrong, anywhere.
Sound ==
    /\ \A f \in Asking(Reached) : \A e \in asks[f] : Well(f, e)
    /\ \A f, g \in Reached \cup ({standard} \ {None}) : NameOf[f] = NameOf[g] => f = g

\* No folder outside the cache has a path into a fetched library.
PathsStayOut ==
    \A f \in Folders : \A e \in asks[f] :
        e.kind = "path" /\ FetchedIn[f] = None => FetchedIn[e.dir] = None

Read == {libraries[i] : i \in DOMAIN libraries}

TypeOK ==
    /\ asks \in Projects /\ standard \in Standards
    /\ stack \in Seq([dir : Folders, left : SUBSET Dependencies, hashed : Folders \cup {None}])
    /\ DOMAIN required \subseteq Names /\ \A n \in DOMAIN required : required[n] \in Folders
    /\ libraries \in Seq(Folders)
    /\ problems \subseteq [by : Folders, name : Names]

\* The resolution is the graph's and not the walk's: each dependency of the
\* workspace and of a library that was read is either read itself or a
\* problem, nothing is read that nobody asks for, no name is two libraries,
\* and there are problems exactly when something is wrong somewhere, whatever
\* the order, the cycles and the libraries that are shared
\* (dependencies.rs:10-14, 512-529).
ResolvedAsAsked ==
    Done =>
        /\ \A f \in Asking(Read) : \A e \in asks[f] :
               (e.kind # "lost" /\ e.dir \in Read) \/ [by |-> f, name |-> e.name] \in problems
        /\ Read \subseteq Reached \cup {standard}
        /\ \A f, g \in Read : NameOf[f] = NameOf[g] => f = g
        /\ PathsStayOut => (problems = {} <=> Sound)

\* The walk ends, though libraries lead back to one another
\* (dependencies.rs:512-516).
WalkEnds == <>Done
=============================================================================
