-------------------------- MODULE MCPublishedBundle --------------------------
EXTENDS PublishedBundle

To(path)     == [kind |-> "rel", path |-> path, suffix |-> "none"]
ToPart(path) == [kind |-> "rel", path |-> path, suffix |-> "fragment"]
ToQuery(path) == [kind |-> "rel", path |-> path, suffix |-> "query"]
ToUp(path)   == [kind |-> "rel", path |-> path, suffix |-> "up"]
ToRooted(path) == [kind |-> "abs", path |-> path, suffix |-> "none"]
Web == [kind |-> "external", path |-> <<"web">>, suffix |-> "none"]

A == <<"p", "docs", "a.md">>
Index == <<"p", "index.md">>
Logo == <<"p", "logo.png">>
Inner == <<"p", "index-1.md", "logo.png">>

(* The project is opened through /q, a link to /p; docs/up leads back to   *)
(* /p, leak out of it, and lost nowhere.  Three names mean something else  *)
(* in a URL.                                                               *)
World(index, a) ==
  (<<>> :> [type |-> "dir"]) @@
  (<<"p">> :> [type |-> "dir"]) @@
  (<<"q">> :> [type |-> "link", to |-> <<"p">>]) @@
  (<<"out.png">> :> [type |-> "file", refs |-> {}]) @@
  (Index :> [type |-> "file", refs |-> index]) @@
  (Logo :> [type |-> "file", refs |-> {}]) @@
  (<<"p", "index-1.md">> :> [type |-> "dir"]) @@
  (Inner :> [type |-> "file", refs |-> {}]) @@
  (<<"p", "leak">> :> [type |-> "link", to |-> <<"out.png">>]) @@
  (<<"p", "lost">> :> [type |-> "link", to |-> <<"p", "away">>]) @@
  (<<"p", "docs">> :> [type |-> "dir"]) @@
  (A :> [type |-> "file", refs |-> a]) @@
  (<<"p", "50%41.md">> :> [type |-> "file", refs |-> {}]) @@
  (<<"p", "docs", "c#.md">> :> [type |-> "file", refs |-> {}]) @@
  (<<"p", "docs", "a?b.md">> :> [type |-> "file", refs |-> {}]) @@
  (<<"p", "docs", "pipe">> :> [type |-> "device"]) @@
  (<<"p", "docs", "up">> :> [type |-> "link", to |-> <<"p">>])

RootRefs ==
  {To(<<"docs", "a.md">>), To(<<"docs">>), To(<<".">>), Web, To(<<"lost">>),
   To(<<"..", "p", "leak">>), To(<<"..", "p", "docs", "a.md">>),
   To(<<"..", "q", "logo.png">>), ToRooted(<<"p", "docs", "a.md">>),
   To(<<"index-1.md", "logo.png">>), ToQuery(<<"logo.png">>),
   ToUp(<<"docs", "a.md">>)}
PageRefs ==
  {To(<<"..", "logo.png">>), ToPart(<<"..", "index.md">>), ToPart(<<>>),
   To(<<"..", "..">>), ToUp(<<"..", "..", "p", "docs">>)}

(* The root page has one of its references, or docs/a.md and another.      *)
MCWorlds ==
  {World({r} \cup also, PageRefs) :
     r \in RootRefs, also \in {{}, {To(<<"docs", "a.md">>)}}}
MCName ==
  {"p", "q", "docs", "up", "away", "lost", "leak", "pipe", "out.png", "logo.png",
   "index.md", "index-1.md", "a.md", "?", "web", "slug",
   "c#.md", "c", "a?b.md", "a", "50%41.md", "50A.md"}
MCReadAs ==
  [name \in MCName |->
     CASE name = "c#.md"    -> [name |-> "c", rest |-> "fragment"]
       [] name = "a?b.md"   -> [name |-> "a", rest |-> "query"]
       [] name = "50%41.md" -> [name |-> "50A.md", rest |-> "path"]
       [] name = "?"        -> [name |-> ".", rest |-> "query"]
       [] OTHER             -> [name |-> name, rest |-> "path"]]
MCProject == <<"q">>
MCRootFiles == {<<"q", "index.md">>, <<"q", "logo.png">>}
MCTexts == {{To(<<"index.md">>)}, {To(<<"docs">>), ToRooted(Logo)}}
MCMarkdown ==
  {"index.md", "index-1.md", "a.md", "c#.md", "a?b.md", "50%41.md", "50A.md"}
MCSynthetic == <<"index.md", "index-1.md">>
MCIndexNames == <<{"readme.md"}, {"index.md"}>>
=============================================================================
