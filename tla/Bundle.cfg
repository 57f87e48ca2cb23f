SPECIFICATION FairSpec
CONSTANTS
  Name <- MCName
  Worlds <- MCWorlds
  Project <- MCProject
  RootFiles <- MCRootFiles
  Texts <- MCTexts
  Markdown <- MCMarkdown
  Synthetic <- MCSynthetic
  IndexNames <- MCIndexNames
  MaxLinks = 2
  MaxUp = 16
  Slug = "slug"
  ReadAs <- MCReadAs
INVARIANT NothingFromOutside OnlyReferencedIsUploaded ReferencesReachTheirFile RedirectsEnd RawMirrorsView SidebarShowsPage
PROPERTY ClicksArrive WalkTerminates
CHECK_DEADLOCK FALSE
