SPECIFICATION Spec
CONSTANTS
  Name <- MCName
  Worlds <- MCWorlds
  Project <- MCProject
  RootFiles <- MCRootFiles
  Texts = {}
  Markdown <- MCMarkdown
  Synthetic <- MCSynthetic
  IndexNames <- MCIndexNames
  MaxLinks = 2
  MaxUp = 16
  Slug = "slug"
  ReadAs <- MCReadAs
INVARIANT LinksKeepTheirTarget
CHECK_DEADLOCK FALSE
