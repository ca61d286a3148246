SPECIFICATION FairSpec
INVARIANTS OutputTrue NothingMissed TextTrue StructuresSound RemovedIsGone
PROPERTIES AllEnd
