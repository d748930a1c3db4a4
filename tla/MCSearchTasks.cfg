\* Two reservations, two start requests at a time, one fault; the loop is fair.
SPECIFICATION FairSpec
CONSTANTS
  MaxAttempts = 2
  MaxRequests = 2
  MaxFaults = 1
INVARIANTS OneOwner StopIsFinal ReceiptsExact MaintenanceQuiesced
PROPERTIES MaintenanceProceeds SlotComesBack
