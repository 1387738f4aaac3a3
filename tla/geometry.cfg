SPECIFICATION Spec
CONSTANTS
  Page = 4
  Prototypes <- MCPrototypes
  MaxLoaded = 2
  MaxWritten = 2
  Missing = Missing
  Stale = Stale
INVARIANTS BytesInPlace CopySucceeds ElementsExist FileHoldsChunks BitsApart
PROPERTY FaultServed
