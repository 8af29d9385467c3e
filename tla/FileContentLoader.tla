------------------------- MODULE FileContentLoader -------------------------
(***************************************************************************)
(* fileContentLoader: it loads the files of its paths, hands them to the   *)
(* callback, watches the paths and loads everything again on every event,  *)
(* while somebody edits the files.                                         *)
(*                                                                         *)
(* The states of a file are numbered; it exists in the odd ones.  The      *)
(* order in which paths and files are visited (the flags', the             *)
(* directory's) is left open.  Directories stay; a path that is a file may *)
(* vanish.  An entry may be one that os.ReadFile refuses: forbidden, a     *)
(* link to nowhere or to a directory.                                      *)
(***************************************************************************)
EXTENDS Naturals

CONSTANTS
    Files,
    Paths,        \* the paths of the command line
    Dirs,         \* those that are directories
    PathOf,       \* the path a file is found through
    MaxVersion    \* bound: how often a file changes

ASSUME PathsAssumption ==
    /\ Dirs \subseteq Paths
    /\ PathOf \in [Files -> Paths]
    /\ \A f, g \in Files : PathOf[f] = PathOf[g] /\ f # g => PathOf[f] \in Dirs

ASSUME BoundAssumption == MaxVersion \in Nat \ {0}

VARIABLES
    disk,         \* state of each file
    unreadable,   \* files that os.ReadFile refuses if they exist
    paths,        \* r.paths: the paths there were at the start
    pc,           \* where the loader is: "new", "load", "add" (to the watcher),
                  \* "idle" (in select), "failed" (Run has returned an error)
    looping,      \* Run has reached its loop
    todo,         \* paths still to be visited by this load, or to be watched
    unread,       \* files this load has listed and not read
    got,          \* the state this load found each file in
    published,    \* the states the callback was handed last
    watching,     \* paths the watcher watches
    event,        \* the watcher has an event
    begun,        \* state of each file when this load began
    edited        \* last state of each file that came while Run was looping

loadVars  == <<paths, pc, looping, todo, unread, got, published>>
auxVars   == <<begun, edited>>
diskVars  == <<disk, unreadable>>
vars      == <<diskVars, loadVars, watching, event, auxVars>>

Present(f)   == disk[f] % 2 = 1
FilesOf(p)   == {f \in Files : PathOf[f] = p}
PathThere(p) == p \in Dirs \/ \A f \in FilesOf(p) : Present(f)

-----------------------------------------------------------------------------
BeginLoad(ps) ==
    /\ pc' = "load"
    /\ todo' = ps
    /\ unread' = {}
    /\ begun' = disk

\* NewFileContentLoader, and Run's first load.
New ==
    /\ pc = "new"
    /\ paths' = {p \in Paths : PathThere(p)}
    /\ got' = disk
    /\ BeginLoad(paths')
    /\ UNCHANGED <<diskVars, looping, published, watching, event, edited>>

\* At first a load that fails ends Run, from the loop on it is only logged.
LoadFails ==
    /\ pc' = IF looping THEN "idle" ELSE "failed"
    /\ UNCHANGED <<todo, unread, got>>

\* Mutant: the contents are kept from load to load, and what vanished with them.
ListKeepsVanished(p) ==
    /\ pc = "load" /\ p \in todo
    /\ todo' = todo \ {p}
    /\ unread' = unread \cup {f \in FilesOf(p) : Present(f)}
    /\ UNCHANGED got
    /\ UNCHANGED <<diskVars, paths, pc, looping, published, watching, event, auxVars>>

List(p) ==
    /\ pc = "load" /\ p \in todo
    /\ IF PathThere(p)
       THEN /\ todo' = todo \ {p}
            /\ unread' = unread \cup {f \in FilesOf(p) : Present(f)}
            /\ got' = [f \in Files |-> IF f \in FilesOf(p) THEN disk[f] ELSE got[f]]
            /\ UNCHANGED pc
       ELSE LoadFails
    /\ UNCHANGED <<diskVars, paths, looping, published, watching, event, auxVars>>

Read(f) ==
    /\ pc = "load" /\ todo = {} /\ f \in unread
    /\ IF Present(f) /\ f \notin unreadable
       THEN /\ unread' = unread \ {f}
            /\ got' = [got EXCEPT ![f] = disk[f]]
            /\ UNCHANGED <<pc, todo>>
       ELSE LoadFails
    /\ UNCHANGED <<diskVars, paths, looping, published, watching, event, auxVars>>

\* Mutant: the events that came during a load are drained after it.
HandleAndDrain ==
    /\ pc = "load" /\ todo = {} /\ unread = {}
    /\ published' = got
    /\ event' = FALSE
    /\ IF looping
       THEN pc' = "idle" /\ UNCHANGED todo
       ELSE pc' = "add" /\ todo' = paths
    /\ UNCHANGED <<diskVars, paths, looping, unread, got, watching, auxVars>>

\* The callback, which may take its time, is handed what was read.
Handle ==
    /\ pc = "load" /\ todo = {} /\ unread = {}
    /\ published' = got
    /\ IF looping
       THEN pc' = "idle" /\ UNCHANGED todo
       ELSE pc' = "add" /\ todo' = paths
    /\ UNCHANGED <<diskVars, paths, looping, unread, got, watching, event, auxVars>>

\* Mutant: the files of a directory are watched instead of it.
AddFiles(p) ==
    /\ pc = "add" /\ p \in todo
    /\ watching' = watching \cup FilesOf(p)
    /\ todo' = todo \ {p}
    /\ UNCHANGED <<diskVars, paths, pc, looping, unread, got, published, event, auxVars>>

Add(p) ==
    /\ pc = "add" /\ p \in todo
    /\ IF PathThere(p)
       THEN /\ watching' = watching \cup {p}
            /\ todo' = todo \ {p}
            /\ UNCHANGED pc
       ELSE /\ pc' = "failed"
            /\ UNCHANGED <<watching, todo>>
    /\ UNCHANGED <<diskVars, paths, looping, unread, got, published, event, auxVars>>

StartLoop ==
    /\ pc = "add" /\ todo = {}
    /\ pc' = "idle"
    /\ looping' = TRUE
    /\ UNCHANGED <<diskVars, paths, todo, unread, got, published, watching, event, auxVars>>

\* One edit causes several events; each is a load.
TakeEvent ==
    /\ pc = "idle" /\ event
    /\ event' \in BOOLEAN
    /\ BeginLoad(paths)
    /\ UNCHANGED <<diskVars, paths, looping, got, published, watching, edited>>

-----------------------------------------------------------------------------
\* Somebody writes, creates, deletes or replaces a file.  The watch of a path
\* that is a file ends with the file that was watched, also when another is
\* renamed over it.

Edit(f) ==
    /\ pc # "failed"
    /\ \E v \in {disk[f] + 1, disk[f] + 2}, inPlace \in BOOLEAN :
          /\ v <= MaxVersion
          /\ v = disk[f] + 2 => Present(f)
          /\ inPlace => v = disk[f] + 2
          /\ disk' = [disk EXCEPT ![f] = v]
          /\ edited' = IF looping THEN [edited EXCEPT ![f] = v] ELSE edited
          /\ event' = (event \/ PathOf[f] \in watching)
          /\ watching' = IF inPlace \/ PathOf[f] \in Dirs THEN watching
                                                          ELSE watching \ {PathOf[f]}
    /\ UNCHANGED <<unreadable, loadVars, begun>>

\* The mode of a file, the one there is or one to come, is changed, or where the
\* link leads that it is.
Protect(f) ==
    /\ pc # "failed"
    /\ unreadable' = IF f \in unreadable THEN unreadable \ {f} ELSE unreadable \cup {f}
    /\ event' = (event \/ (Present(f) /\ PathOf[f] \in watching))
    /\ UNCHANGED <<disk, loadVars, watching, auxVars>>

-----------------------------------------------------------------------------
Init ==
    /\ disk \in [Files -> {0, 1}]
    /\ unreadable \in SUBSET Files
    /\ paths = {}
    /\ pc = "new"
    /\ looping = FALSE
    /\ todo = {}
    /\ unread = {}
    /\ got = disk
    /\ published = [f \in Files |-> 0]
    /\ watching = {}
    /\ event = FALSE
    /\ begun = disk
    /\ edited = [f \in Files |-> 0]

Loader ==
    \/ New \/ (\E p \in Paths : List(p) \/ Add(p)) \/ (\E f \in Files : Read(f))
    \/ Handle \/ StartLoop \/ TakeEvent

Next == Loader \/ \E f \in Files : Edit(f) \/ Protect(f)

Spec == Init /\ [][Next]_vars

\* The loader is one goroutine.  Nothing is assumed of those who edit.
FairSpec == Spec /\ WF_vars(Loader)

-----------------------------------------------------------------------------
\* Properties.

\* Every variable has the values its Go counterpart can have.
TypeOK ==
    /\ disk \in [Files -> 0 .. MaxVersion]
    /\ unreadable \subseteq Files
    /\ paths \subseteq Paths
    /\ pc \in {"new", "load", "add", "idle", "failed"}
    /\ looping \in BOOLEAN
    /\ todo \subseteq paths
    /\ unread \subseteq {f \in Files : PathOf[f] \in paths}
    /\ got \in [Files -> 0 .. MaxVersion]
    /\ published \in [Files -> 0 .. MaxVersion]
    /\ watching \subseteq paths
    /\ event \in BOOLEAN
    /\ begun \in [Files -> 0 .. MaxVersion]
    /\ edited \in [Files -> 0 .. MaxVersion]

\* What the callback is handed is what this very load has found, never what an
\* older one had: nothing of a load that failed half way is kept.
ContentsAreFresh == [][Handle =>
    \A f \in Files : PathOf[f] \in paths =>
        begun[f] <= published'[f] /\ published'[f] <= disk[f]]_vars

\* An edit that comes while Run is in its loop is loaded, whatever load it comes
\* in the middle of, and when other files vanish under that load's hands, if only
\* in the end every file that is there can be read: also when it came while some
\* other could not, and every load failed (file_content_loader.go:94-96, 134-139).
EditsAreLoaded ==
    <>[](\A f \in unreadable : ~Present(f)) =>
        \A f \in Files, v \in 1 .. MaxVersion :
            (edited[f] >= v /\ PathOf[f] \in paths) ~> published[f] >= v
=============================================================================
