SPECIFICATION FairSpec
CONSTANTS
  Main = main
  NoThread = NoThread
  Threads = {main, w1}
  MaxSync = 1
  MaxCollect = 1
INVARIANTS StoppedWorld HeapExclusive
PROPERTIES ImplementsStopTheWorld WorldStopCompletes ParkedResumes
