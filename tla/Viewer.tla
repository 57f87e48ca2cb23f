-------------------------------- MODULE Viewer --------------------------------
(***************************************************************************)
(* How the server reads a published bundle: what a reference in a page     *)
(* becomes, what a URL of the document addresses, and what the page chrome *)
(* around a node shows and links to.  Every operator is a function of the  *)
(* set K of the manifest's keys, as the packages filetree, view and raw    *)
(* are of its map.                                                         *)
(***************************************************************************)
EXTENDS Paths, FiniteSets

CONSTANTS
  IndexNames,  \* indexCandidates: the spellings of readme.md, of index.md
  MaxUp,       \* largest ?up=N answered
  Slug,        \* the document's slug
  ReadAs       \* what a name is read as where it stands in a URL as it is

(* Up to the first # or ?, where the path ends, and with each %XX decoded. *)
(* What is left of a name may be nothing, which counts as "."; names that  *)
(* decode to a "/" are left out.                                           *)
Readings == [name : Component, rest : {"path", "fragment", "query"}]

ASSUME ViewerAssumption ==
  Slug \in Name /\ MaxUp \in Nat /\ ReadAs \in [Name -> Readings]

Plain(name) == ReadAs[name] = [name |-> name, rest |-> "path"]

File(key) == [is |-> "file", key |-> key]
Folder(key) == [is |-> "dir", key |-> key]
NotFound == [is |-> "none"]

IsMarkdownKey(key) == key.tail # <<>> /\ Last(key.tail) \in Markdown

(* isDirKey: some key lies below this one; "." is below none.              *)
IsDirKey(K, key) ==
  Names(key) # <<>> /\ \E k \in K : IsStrictPrefix(Names(key), Names(k))

(* filetree.Classify: an exact key wins over a directory of the same name. *)
Classify(K, key) ==
  IF key \in K THEN File(key)
  ELSE IF key = Key(0, <<>>) \/ IsDirKey(K, key) THEN Folder(key)
  ELSE NotFound

-----------------------------------------------------------------------------
(* URLs below /{slug} or /raw/{slug}: the names of the path, ?up=N, the up *)
(* of a reference's own query, and whether there is a trailing slash or    *)
(* any other query parameter.                                              *)
URL(path, up, junk) ==
  [path |-> path, up |-> up, own |-> 0, slash |-> FALSE, junk |-> junk]

(* Mutant: the names of a key above the root are kept, its depth is not.   *)
PageURLDropsUp(key) == URL(key.tail, 0, FALSE)

(* slugPageURL and nodeHref: as many "../" as are followed by something    *)
(* become ?up=N.  The names are written as they are, with no escaping.     *)
PageURL(key) ==
  IF key.up > 0 /\ key.tail = <<>>
  THEN URL(<<DotDot>>, key.up - 1, FALSE)
  ELSE URL(key.tail, key.up, FALSE)

(* What is read of a link's names: the path goes to the first that ends it *)
(* (what follows, ?up=N included, is then fragment, or junk of the query), *)
(* and of two up the first counts.                                         *)
Read(name) ==
  IF name \in Name THEN ReadAs[name] ELSE [name |-> name, rest |-> "path"]

Parsed(url) ==
  LET ends == {i \in 1..Len(url.path) : Read(url.path[i]).rest # "path"}
      n == IF ends = {} THEN Len(url.path)
           ELSE CHOOSE i \in ends : \A j \in ends : i <= j
      path == [i \in 1..n |-> Read(url.path[i]).name]
      dots == path # <<>> /\ Last(path) \in {Dot, DotDot}
      read == [url EXCEPT !.path = path, !.slash = @ \/ dots]
  IN IF ends = {}
     THEN [read EXCEPT !.up = IF @ > 0 THEN @ ELSE url.own,
                       !.junk = @ \/ (url.up > 0 /\ url.own > 0)]
     ELSE IF Read(url.path[n]).rest = "query"
     THEN [read EXCEPT !.up = url.own, !.junk = TRUE]
     ELSE [read EXCEPT !.up = 0, !.junk = FALSE]

(* A browser takes the dot-segments out of the path before it asks for it; *)
(* a path that climbs above /{slug} is another site's page.                *)
Asked(url) ==
  LET read == Parsed(url)
      path == Clean(<<Slug>> \o read.path)
  IN IF path = <<>> \/ path[1] # Slug THEN URL(<<DotDot>>, 0, FALSE)
     ELSE [read EXCEPT !.path = Tail(path)]

LeavesDocument(url) == url.path = <<DotDot>>

(* Mutant: references are joined to the directory by their names only.     *)
ResolveKeyLogically(page, ref) ==
  IF ref.kind = "abs" THEN Rel(Project, Clean(ref.path))
  ELSE LET from == IF page.tail = <<>> THEN <<>> ELSE Front(page.tail)
       IN Key(page.up, Join(from, ref.path))

(* resolveKey: into the publisher's absolute path space and back.          *)
ResolveKey(page, ref) ==
  IF ref.kind = "abs" THEN Rel(Project, Clean(ref.path))
  ELSE Rel(Project, Join(Project, Front(Names(page)) \o ref.path))

(* pageResolver: what a reference in the page becomes.  "" is left alone,  *)
(* "#part" is not: its path resolves to the page's own folder.             *)
Verbatim == [to |-> "verbatim"]

Rewritten(K, page, ref) ==
  LET key == ResolveKey(page, ref) IN
  IF ref.kind = "external" \/ (ref.path = <<>> /\ ref.suffix = "none") THEN Verbatim
  ELSE IF key \in K /\ ~IsMarkdownKey(key) THEN [to |-> "blob", node |-> File(key)]
  ELSE IF key \in K \/ IsDirKey(K, key)
  THEN [to |-> "page", node |-> Classify(K, key),
        url |-> [PageURL(key) EXCEPT !.junk = ref.suffix = "query",
                                     !.own = IF ref.suffix = "up" THEN 1 ELSE 0]]
  ELSE Verbatim

-----------------------------------------------------------------------------
(* manifest.NestedKey: the key a nested URL addresses, if it is one.       *)
NestedKey(url) == Key(url.up, url.path)
IsNested(url) == url.path # <<>> /\ url.up <= MaxUp

(* View.RenderRoot and View.RenderPath, and render's dispatch.             *)
Viewed(K, rootKey, url) ==
  CASE url.path = <<>>   -> Classify(K, rootKey)
    [] IsNested(url)     -> Classify(K, NestedKey(url))
    [] OTHER             -> NotFound

(* Mutant: /raw/ does not read ?up.                                        *)
RawOfNoUp(K, rootKey, url) ==
  LET key == IF url.path = <<>> THEN rootKey ELSE Key(0, url.path) IN
  IF key \in K THEN File(key) ELSE NotFound

(* raw.Service.open and rawKey: files only.                                *)
RawOf(K, rootKey, url) ==
  LET key == IF url.path = <<>> THEN rootKey ELSE NestedKey(url) IN
  IF key \in K /\ (url.path = <<>> \/ IsNested(url)) THEN File(key) ELSE NotFound

-----------------------------------------------------------------------------
(* BuildTree: the nodes are the keys and every proper prefix of one.       *)
Split(names) ==
  LET Climbs == {n \in 0..Len(names) : \A i \in 1..n : names[i] = DotDot}
      up == CHOOSE n \in Climbs : \A m \in Climbs : m <= n
  IN Key(up, SubSeq(names, up + 1, Len(names)))

Above(key) ==
  {Split(SubSeq(Names(key), 1, n)) : n \in 1..(Len(Names(key)) - 1)}

TreeOf(K) ==
  {File(k) : k \in K} \cup {Folder(d) : d \in UNION {Above(k) : k \in K}}

(* Mutant: the node is looked up by its name.                              *)
CurrentByName(K, key) ==
  {n \in TreeOf(K) : Last(Names(n.key)) = Last(Names(key))}

(* markCurrent: the addressed node, a folder before a file of its name.    *)
Current(K, key) ==
  LET hits == {n \in TreeOf(K) : n.key = key} IN
  IF Folder(key) \in hits THEN {Folder(key)} ELSE hits

(* Breadcrumb: the node and every folder above it.                         *)
Crumbs(K, key) == Above(key) \cup {key}

(* ListDir: the immediate children of a folder.                            *)
Listing(K, dir) ==
  {n \in TreeOf(K) :
     /\ Len(Names(n.key)) = Len(Names(dir)) + 1
     /\ IsPrefix(Names(dir), Names(n.key))}

(* IndexFile: the child shown below a folder's listing.                    *)
IndexFile(K, dir) ==
  LET named(i) == {n \in Listing(K, dir) :
                     n.is = "file" /\ Last(n.key.tail) \in IndexNames[i]}
      first == {i \in 1..Len(IndexNames) :
                  /\ named(i) # {}
                  /\ \A j \in 1..(i - 1) : named(j) = {}}
  IN UNION {named(i) : i \in first}
=============================================================================
