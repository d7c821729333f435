CONSTANTS
  Fields <- AllFields
  Patches <- Lengths
  MaxFields = 3
  Layouts <- AsterixLayouts
  Scripts <- ScriptsOrNone
SPECIFICATION CodecSpec
INVARIANTS StreamIntact ReadsBack Interop RelayedUnchanged
CHECK_DEADLOCK FALSE
