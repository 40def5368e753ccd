SPECIFICATION Spec
CONSTANTS
  v1 = v1
  v2 = v2
  here = here
  Present = here
  Leaf <- AllLeaves
  Value <- AllValues
  Multi <- MultiLeaves
  SetOnly <- SetOnlyLeaves
  Managed <- AllManaged
  Unmanaged <- AllUnmanaged
  Forms <- MCForms
  Place <- MCPlace
  Domain <- MCDomain
  Pages = {"ethernet", "vlan", "nat44", "static", "renumber", "firewall", "system"}
INVARIANTS
  DiffReachesForm
  EveryCommandMatters
  RestagingIsEmpty
  StaticIsListed
