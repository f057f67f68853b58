SPECIFICATION Spec
CONSTANTS
  app = app
  script = script
  w1 = w1
  w2 = w2
  Mains = {app, script}
  Workers = {w1, w2}
  App = app
  Injected = {script}
  Programs <- MCPrograms
  Scripts <- MCScripts
  Offline = FALSE
  Corpora <- MCCorpora
  MaxRequests = 1
  MaxWrites = 1
INVARIANT OneInstanceEach
INVARIANT OneStressBackend
INVARIANT ComparedInOneSpace
