SPECIFICATION FairSpec
CONSTANTS
  o1 = o1
  o2 = o2
  edge = edge
  inner = inner
  gateways = gateways
  own = own
  corp = corp
  domain = domain
  Old = o1
  New = o2
  ConfigOf <- MCConfigOf
  Gateways = {edge, inner}
  Namespaces = {gateways, own}
  NamespaceOf <- MCNamespaceOf
  Home = own
  First = argocd
  Foreign = {argocd, keycloak}
  Domains = {domain}
  Secrets = {corp}
  MaxEdits = 2
INVARIANT PassesEstablish
PROPERTY OthersKept Converges
