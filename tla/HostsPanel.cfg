CONSTANTS
  None = None
  Hosts = {h1}
  Keys = {k1}
  Tokens = {e1, e2, e3}
SPECIFICATION FairPanelSpec
INVARIANTS
  ShownTokenIsCurrent
PROPERTIES
  ListNeverGoesBack
  CredentialGoes
