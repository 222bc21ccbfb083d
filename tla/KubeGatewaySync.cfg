CONSTANTS
  Gateways = {g1, g2}
  Controllers = {c1, c2}
  SelfManaged = {g2}
  MaxChanges = 2
  MaxSecretEvents = 1
  MaxErrors = 1
SPECIFICATION Spec
INVARIANTS NoLostKick SettledStore RegistryKnown
PROPERTIES OnlyNewestApplied StoreConverges StatusConverges
