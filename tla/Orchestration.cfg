SPECIFICATION Spec
INVARIANTS
  TypeOK  TerminalHasPublication ContainmentAfterEvidence
  NothingOutlivesTheLease EndpointOwnedOnce FrozenStaysStopped
  ReadyIsWhole LiveWithinLimit
PROPERTIES
  EvidenceIsKept ExportIsThePreview 
