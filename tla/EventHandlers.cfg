CONSTANTS
  Configs <- Files
  Events <- OwnerEvents
  MaxEvents = 1
SPECIFICATION Spec
INVARIANTS OneOwner MetersAsConfigured
