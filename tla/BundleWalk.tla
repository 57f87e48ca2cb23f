------------------------------ MODULE BundleWalk ------------------------------
(***************************************************************************)
(* The walk of the CLI: which files a publish uploads, and under which     *)
(* manifest keys.  It starts from the root file, or from the text of a     *)
(* Text Publish, and visits what the markdown refers to, file by file.     *)
(*                                                                         *)
(* Abstractions: a file's content is the set of its references, and the    *)
(* queue a set taken from in some fixed order: what a visit adds depends   *)
(* on the path alone, so the order changes nothing.  The file system does  *)
(* not change during the walk.                                             *)
(***************************************************************************)
EXTENDS Paths

CONSTANTS
  Worlds,        \* file systems: functions from rooted paths to nodes
  RootFiles,     \* files given to publish
  Texts,         \* contents of text publishes, as sets of references
  Synthetic,     \* index.md, index-1.md, ...: names for a synthesized root
  MaxLinks       \* symlinks one path may go through

(* A reference names its target by names from the referring file's         *)
(* directory (rel) or from / (abs), and may carry a #fragment or a ?query, *)
(* one that says up=1 among them.                                          *)
Refs == [kind : {"rel", "abs", "external"}, path : Seq(Component),
         suffix : {"none", "fragment", "query", "up"}]

HasQuery(ref) == ref.suffix \in {"query", "up"}

Nodes == [type : {"dir", "unreadable", "device"}]
           \cup [type : {"file"}, refs : SUBSET Refs]
           \cup [type : {"link"}, to : Seq(Component)]

Query == "?"              \* for a ?query read as part of a file's name

(* A file system: / is a directory, and so is what holds another node.     *)
IsFileSystem(w) ==
  /\ DOMAIN w \subseteq CleanPaths
  /\ Top \in DOMAIN w /\ w[Top].type = "dir"
  /\ \A path \in DOMAIN w :
       /\ w[path] \in Nodes
       /\ path # Top => Dir(path) \in DOMAIN w /\ w[Dir(path)].type = "dir"

ASSUME WorldsAssumption == \A w \in Worlds : IsFileSystem(w)
ASSUME RootFilesAssumption ==
  \A path \in RootFiles : path \in CleanPaths \ {Top} /\ Dir(path) = Project
ASSUME TextsAssumption ==
  /\ Texts \subseteq SUBSET Refs
  /\ Synthetic \in Seq(Name) /\ Query \in Name
  /\ MaxLinks \in Nat

VARIABLES
  fs,      \* the file system
  source,  \* what publish was given: a file or a text, and -r
  queue,   \* targets found and not visited yet
  visited, \* walker.visited
  files,   \* walker.files: manifest key to the disk path it was read from
  root,    \* Result.RootPath
  phase    \* "start", "crawl", "done"

walkVars == <<fs, source, queue, visited, files, root, phase>>

NoRoot  == Key(0, <<>>)
NoDisk  == <<>>           \* DiskPath of a synthesized root

Sources ==
  [kind : {"file"}, path : RootFiles, recursive : BOOLEAN]
    \cup [kind : {"text"}, refs : Texts, recursive : BOOLEAN]

-----------------------------------------------------------------------------
(* The operating system: following the symlinks of a path.  Links of the   *)
(* worlds point at paths that hold no link themselves.                     *)
Nowhere == [at |-> Top, links |-> 0, found |-> FALSE]

Step(last, name) ==
  LET next == Append(last.at, name) IN
  IF ~last.found \/ next \notin DOMAIN fs THEN Nowhere
  ELSE IF fs[next].type # "link" THEN [last EXCEPT !.at = next]
  ELSE IF last.links < MaxLinks /\ fs[next].to \in DOMAIN fs
  THEN [at |-> fs[next].to, links |-> last.links + 1, found |-> TRUE]
  ELSE Nowhere

Resolve(path) ==
  LET r[n \in 0..Len(path)] ==
        IF n = 0 THEN [at |-> Top, links |-> 0, found |-> TRUE]
        ELSE Step(r[n - 1], path[n])
  IN r[Len(path)]

Exists(path) == Resolve(path).found
NodeAt(path) == fs[Resolve(path).at]
IsType(path, type) == Exists(path) /\ NodeAt(path).type = type

IsMarkdown(path) == Last(path) \in Markdown

(* publish runs in a directory, or is given a file in one.                 *)
Init ==
  /\ fs \in Worlds
  /\ IsType(Project, "dir")
  /\ source \in Sources
  /\ queue = {}
  /\ visited = {}
  /\ files = <<>>
  /\ root = NoRoot
  /\ phase = "start"

(* escapesRoot, against the symlink-resolved project root.                 *)
RootReal == IF Exists(Project) THEN Resolve(Project).at ELSE Project
EscapesRoot(path) == Rel(RootReal, path).up > 0

(* Mutant: the boundary is checked on the path as it is written.           *)
InRootUnresolved(path) == ~EscapesRoot(path)

(* resolveInRoot: the target, resolved, is inside the project root.        *)
InRoot(path) ==
  ~EscapesRoot(IF Exists(path) THEN Resolve(path).at ELSE path)

(* A reference as a path on disk.  A fragment is cut off; a query is not,  *)
(* and names a file no world has.                                          *)
OnDisk(dir, ref) ==
  LET written == IF ref.kind = "abs" THEN Clean(ref.path)
                 ELSE Join(dir, ref.path)
  IN IF HasQuery(ref) THEN Append(written, Query) ELSE written

(* targets: what the references of a file in dir lead to.  One that is     *)
(* only a #fragment leads nowhere.                                         *)
Bare(ref) == ref.path = <<>> /\ ~HasQuery(ref)

Targets(dir, refs) ==
  {t \in {OnDisk(dir, r) :
            r \in {q \in refs : q.kind # "external" /\ ~Bare(q)}} : InRoot(t)}

(* Mutant: a folder is followed without -r too.                            *)
DirTargetsAlways(dir) ==
  {t \in {Append(dir, Last(c)) :
            c \in {p \in DOMAIN fs : p # Top
                     /\ Dir(p) = Resolve(dir).at}} : InRoot(t)}

(* dirTargets: a folder is followed only under -r.                         *)
DirTargets(dir) ==
  IF ~source.recursive THEN {}
  ELSE {t \in {Append(dir, Last(c)) :
                 c \in {p \in DOMAIN fs : p # Top
                          /\ Dir(p) = Resolve(dir).at}} : InRoot(t)}

KeyOf(path) == Rel(Project, path)

(* walker.files[key] = path.                                               *)
Filed(key, path) ==
  [k \in DOMAIN files \cup {key} |-> IF k = key THEN path ELSE files[k]]

(* freeName: the first of index.md, index-1.md, ... that is no key.  The   *)
(* code's names never run out; Synthetic bounds them.                      *)
Free(i) == Key(0, <<Synthetic[i]>>) \notin DOMAIN files
NameLeft == \E i \in 1..Len(Synthetic) : Free(i)
FreeName ==
  Synthetic[CHOOSE i \in 1..Len(Synthetic) :
              Free(i) /\ \A j \in 1..(i - 1) : ~Free(j)]

-----------------------------------------------------------------------------
(* Walk: the root file is read and, if it is markdown, its references are  *)
(* the first targets.                                                      *)
WalkFile ==
  /\ phase = "start" /\ source.kind = "file"
  /\ IsType(source.path, "file")
  /\ root' = KeyOf(source.path)
  /\ files' = Filed(root', source.path)
  /\ queue' = IF IsMarkdown(source.path)
              THEN Targets(Dir(source.path), NodeAt(source.path).refs) ELSE {}
  /\ phase' = "crawl"
  /\ UNCHANGED <<fs, source, visited>>

(* WalkText: the text's references, from the working directory.            *)
WalkText ==
  /\ phase = "start" /\ source.kind = "text"
  /\ queue' = Targets(Project, source.refs)
  /\ phase' = "crawl"
  /\ UNCHANGED <<fs, source, visited, files, root>>

(* What crawl takes into the bundle.                                       *)
Includes(path) ==
  /\ IsType(path, "file")
  /\ IsMarkdown(path) => source.recursive

(* What visiting a path adds to the queue.                                 *)
FoundAt(path) ==
  CASE IsType(path, "dir") -> DirTargets(path)
    [] Includes(path) /\ IsMarkdown(path) ->
         Targets(Dir(path), NodeAt(path).refs)
    [] OTHER -> {}

(* Mutant: a path is visited as often as it is found.                      *)
VisitAgain ==
  /\ phase = "crawl" /\ queue # {}
  /\ LET path == CHOOSE p \in queue : TRUE IN
       /\ visited' = visited \cup {path}
       /\ files' = IF Includes(path) THEN Filed(KeyOf(path), path) ELSE files
       /\ queue' = (queue \ {path}) \cup FoundAt(path)
  /\ UNCHANGED <<fs, source, root, phase>>

(* crawl, one turn of its loop: a path that is missing, unreadable, no     *)
(* regular file, or markdown without -r is left alone.                     *)
Visit ==
  /\ phase = "crawl" /\ queue # {}
  /\ LET path == CHOOSE p \in queue : TRUE IN
       /\ visited' = visited \cup {path}
       /\ files' = IF Includes(path) THEN Filed(KeyOf(path), path) ELSE files
       /\ queue' = (queue \cup FoundAt(path)) \ visited'
  /\ UNCHANGED <<fs, source, root, phase>>

(* The queue is empty; a text's root takes the first name the walk left.   *)
WalkEnds ==
  /\ phase = "crawl" /\ queue = {}
  /\ source.kind = "text" => NameLeft
  /\ IF source.kind = "text"
     THEN /\ root' = Key(0, <<FreeName>>)
          /\ files' = Filed(root', NoDisk)
     ELSE UNCHANGED <<root, files>>
  /\ phase' = "done"
  /\ UNCHANGED <<fs, source, queue, visited>>

Walks ==
  WalkFile \/ WalkText \/ Visit \/ WalkEnds

-----------------------------------------------------------------------------
(* The references of an included file, and the directory they are written  *)
(* from.                                                                   *)
RefsOf(key) ==
  IF files[key] = NoDisk THEN source.refs ELSE NodeAt(files[key]).refs
DirOf(key) == IF files[key] = NoDisk THEN Project ELSE Dir(files[key])

IsInside(path) == Exists(path) /\ IsPrefix(RootReal, Resolve(path).at)

(* No byte from outside the project root is uploaded but those of a root   *)
(* file the user named, whatever ../ chains, absolute paths, folders and   *)
(* symlinks the references go through.                                     *)
NothingFromOutside ==
  \A k \in DOMAIN files \ {root} : IsInside(files[k])

(* Nothing is uploaded that the bundle does not refer to: every file is    *)
(* the root, or a page of the bundle names it or a folder it lies in.      *)
OnlyReferencedIsUploaded ==
  phase = "done" =>
    \A k \in DOMAIN files \ {root} :
      \E page \in DOMAIN files :
        /\ page = root \/ Last(page.tail) \in Markdown
        /\ \E r \in RefsOf(page) :
             LET t == OnDisk(DirOf(page), r) IN
             /\ r.kind # "external" /\ ~Bare(r)
             /\ \/ t = files[k]
                \/ source.recursive /\ IsType(t, "dir") /\ IsPrefix(t, files[k])

(* The walk ends: it does not chase symlinks round a cycle for ever.       *)
WalkTerminates == <>(phase = "done")
=============================================================================
