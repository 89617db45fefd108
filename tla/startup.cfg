SPECIFICATION Spec
CONSTANTS
  own = own
  star = star
  overlayLoad = overlayLoad
  h1 = h1
  h2 = h2
  om1 = om1
  om2 = om2
  builtin = builtin
  Names = {own, star, overlayLoad}
  UserHandlers = {h1, h2}
  Managers = {om1, om2}
  BuiltIn = builtin
  Handlers = {h1, h2, builtin, om1, om2}
  None = None
  BuiltIns <- MCBuiltIns
  OverlayNames <- MCOverlayNames
  Ports = {p1, p2, p3}
INVARIANTS TypeOK ListingAgrees OneManager PortsOwned
PROPERTY PlacesKept
