--------------------------- MODULE PublishedBundle ---------------------------
(***************************************************************************)
(* A bundle from the disk it is walked on to the pages it is read as: once *)
(* the walk is done and published, a reader opens the document and follows *)
(* what its pages link to.  Keys are computed twice, by the CLI when it    *)
(* walks and by the server when it rewrites a reference, and addressed a   *)
(* third way, by URL; this module is about the three agreeing.             *)
(***************************************************************************)
EXTENDS BundleWalk, Viewer

VARIABLES
  page,   \* the node the reader has in front of them
  asked   \* the GET in flight, if there is one

vars == <<walkVars, page, asked>>

NoGet == [want |-> "nothing"]

BundleInit == Init /\ page = NotFound /\ asked = NoGet

K == DOMAIN files

Get(url, want) == [url |-> Asked(url), want |-> want, hops |-> 0]

(* The markdown a node's page renders: the file, or a folder's index.      *)
Rendered(node) ==
  CASE node.is = "file" /\ IsMarkdownKey(node.key) -> {node.key}
    [] node.is = "dir"  -> {n.key : n \in IndexFile(K, node.key)}
    [] OTHER            -> {}

(* What can be clicked on a page: its rewritten references, the sidebar,   *)
(* the breadcrumb, and a folder's listing, each with the node it names.    *)
Links(node) ==
  LET here == IF node = NotFound THEN {} ELSE {node.key}
      rewritten == UNION {{Rewritten(K, k, r) : r \in RefsOf(k)} :
                            k \in Rendered(node)}
      named == IF Cardinality(K) > 1 THEN TreeOf(K) ELSE {}
  IN {[url |-> l.url, want |-> l.node] :
        l \in {m \in rewritten : m.to = "page"}}
       \cup {[url |-> PageURL(n.key), want |-> n] :
               n \in {m \in named : here # {}}
                     \cup {Folder(d) : d \in UNION {Above(k) : k \in here}}
                     \cup (IF node.is = "dir" THEN Listing(K, node.key) ELSE {})}

-----------------------------------------------------------------------------
(* GET /{slug}.                                                            *)
OpenDocument ==
  /\ phase = "done" /\ asked = NoGet /\ page = NotFound
  /\ asked' = Get(URL(<<>>, 0, FALSE), File(root))
  /\ UNCHANGED <<walkVars, page>>

(* A link is followed as it stands, or shared and decorated on the way:    *)
(* with a closing slash and a parameter no page looks at.                  *)
Follow(link, decorated) ==
  /\ asked = NoGet
  /\ asked' = Get([link.url EXCEPT !.slash = decorated,
                                   !.junk = @ \/ decorated], link.want)
  /\ UNCHANGED <<walkVars, page>>

(* redirectTrailingSlash: 301 to the same URL without the slash.           *)
RedirectTrailingSlash ==
  /\ asked # NoGet /\ asked.url.slash
  /\ asked' = [asked EXCEPT !.url.slash = FALSE, !.hops = @ + 1]
  /\ UNCHANGED <<walkVars, page>>

(* Mutant: the redirect target is built from the raw query.                *)
RedirectCanonicalQueryKeeps ==
  /\ asked # NoGet /\ ~asked.url.slash /\ asked.url.junk
  /\ asked.hops < 5
  /\ asked' = [asked EXCEPT !.hops = @ + 1]
  /\ UNCHANGED <<walkVars, page>>

(* redirectCanonicalQuery: 302 to the same path with at most ?up.          *)
RedirectCanonicalQuery ==
  /\ asked # NoGet /\ ~asked.url.slash /\ asked.url.junk
  /\ asked' = [asked EXCEPT !.url.junk = FALSE, !.hops = @ + 1]
  /\ UNCHANGED <<walkVars, page>>

Canonical(url) == ~url.slash /\ ~url.junk

(* View and ViewPath, on a canonical URL.                                  *)
Serve ==
  /\ asked # NoGet /\ Canonical(asked.url)
  /\ page' = IF LeavesDocument(asked.url) THEN NotFound
             ELSE Viewed(K, root, asked.url)
  /\ asked' = NoGet
  /\ UNCHANGED walkVars

Reads ==
  \/ OpenDocument
  \/ phase = "done" /\ \E l \in Links(page), decorated \in BOOLEAN : Follow(l, decorated)
  \/ RedirectTrailingSlash \/ RedirectCanonicalQuery \/ Serve

Next == (Walks /\ UNCHANGED <<page, asked>>) \/ Reads

Spec == BundleInit /\ [][Next]_vars
FairSpec == Spec /\ WF_vars(Walks /\ UNCHANGED <<page, asked>>)

-----------------------------------------------------------------------------
(* References the pages of the bundle make to something on the disk, and   *)
(* the path each names.                                                    *)
LocalRefs ==
  {kr \in UNION {{k} \X RefsOf(k) : k \in {q \in K : IsMarkdownKey(q)}} :
     kr[2].kind # "external"}

Named(k, r) == OnDisk(DirOf(k), [r EXCEPT !.suffix = "none"])

(* A reference to a file of the project works for the reader: the walk     *)
(* took the file, and the key the server computes for the reference is the *)
(* one the walk filed it under, through ../ chains that leave the project  *)
(* and come back, absolute paths, and symlinked directories.               *)
ReferencesReachTheirFile ==
  phase = "done" =>
    \A kr \in LocalRefs :
      LET t == Named(kr[1], kr[2]) IN
      (/\ kr[2].path # <<>> /\ ~HasQuery(kr[2])
       /\ IsInside(t) /\ IsType(t, "file")
       /\ IsMarkdown(t) => source.recursive)
      => /\ ResolveKey(kr[1], kr[2]) \in K
         /\ files[ResolveKey(kr[1], kr[2])] = t

(* A reference that is rewritten still leads to what it names: a file, or, *)
(* for one that is only a #fragment, a part of the page it is written on.  *)
(* The code breaks it: below the project root "#part" becomes a link to    *)
(* the page's folder; and the synthesized root of a Text Publish without   *)
(* -r takes the name of an index.md the text links to.                     *)
LinksKeepTheirTarget ==
  phase = "done" =>
    \A kr \in LocalRefs :
      LET becomes == Rewritten(K, kr[1], kr[2]) IN
      becomes # Verbatim =>
        IF kr[2].path = <<>> THEN becomes.node = File(kr[1])
        ELSE becomes.node.is = "file" =>
               files[becomes.node.key] = Named(kr[1], kr[2])

(* Nodes no URL names: a folder above the project root with no name left,  *)
(* whose ".." the browser takes out; one more than MaxUp folders above it; *)
(* and a folder whose name the synthesized root of a text has taken.       *)
ShadowedByRoot(node) ==
  files[root] = NoDisk /\ node = Folder(root) /\ node \in TreeOf(K)
Nameless(node) ==
  \/ node.key.up > 0 /\ node.key.tail = <<>>
  \/ node.key.up > MaxUp
  \/ ShadowedByRoot(node)

(* Links that are written wrong: a URL could name the node, but a name of  *)
(* its key holds what a URL reads otherwise and is not escaped, or the     *)
(* reference's own query says up= and the key has none to come before it.  *)
(* /{slug} is the root file's whatever its name.                           *)
Misread(get) ==
  LET key == get.want.key IN
  /\ get.url.path = <<>> => key # root
  /\ \/ \E i \in 1..Len(key.tail) : ~Plain(key.tail[i])
     \/ get.url.own > 0 /\ key.up = 0

(* Whatever a page links to, a reference, the sidebar, the breadcrumb or a *)
(* listing, the reader who follows it lands on the node it names, through  *)
(* key to URL, browser, redirects and key again.  The code does not keep   *)
(* this for every link: Misread says which it writes wrong.                *)
ClicksArrive ==
  [][(/\ asked # NoGet /\ asked' = NoGet
      /\ ~Nameless(asked.want) /\ ~Misread(asked)) => page' = asked.want]_vars

(* A URL is redirected at most once for its slash and once for its query.  *)
RedirectsEnd == asked # NoGet => asked.hops <= 2

(* /raw/ answers the files the viewer shows at the same URL, and no other. *)
RawMirrorsView ==
  (asked # NoGet /\ ~LeavesDocument(asked.url)) =>
    LET viewed == Viewed(K, root, asked.url) IN
    RawOf(K, root, asked.url) =
      IF viewed.is = "file" THEN viewed ELSE NotFound

(* The sidebar highlights the page it is shown beside and no other node,   *)
(* and every folder above that page is in it to be opened.  Where the      *)
(* synthesized root has taken a folder's name, the folder is highlighted.  *)
SidebarShowsPage ==
  (page # NotFound /\ page.key # NoRoot) =>
    /\ ShadowedByRoot(Folder(page.key)) \/ Current(K, page.key) = {page}
    /\ \A d \in Above(page.key) : Folder(d) \in TreeOf(K)
=============================================================================
