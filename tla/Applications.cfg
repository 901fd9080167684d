\* Three groups of rules for two hosts and two paths; three calls on the handler; a
\* file of three bytes, rewritten once, for two requests; five tags; two tabs; two
\* contexts, a handler of exceptions and two wrapped functions.
SPECIFICATION Spec
CONSTANTS
  Hosts = {"a", "b"}
  Paths = {"x", "y"}
  MaxGroups = 3
  Errors = {"404"}
  MaxOps = 3
  MaxSize = 3
  MaxVersion = 1
  ChunkSize = 2
  MaxGets = 2
  MaxTags = 5
  Tabs = {"t1", "t2"}
  Mixins = {"oauth", "twitter", "google", "openid", "facebook", "facebookgraph"}
  StackContexts = {"c1", "c2"}
  ExceptionContexts = {"e1"}
  Consuming = {"e1"}
  Functions_ = {"f1", "f2"}
  DeactivateOpen = FALSE
  MaxFrames = 3
INVARIANTS RoutesArePrecise ResponsesAreFramed RangesAreServed NotModifiedIsTrue
INVARIANTS ParserTakesTheRightTemplates TemplatesCompose LoginsGiveTheirUser
INVARIANTS ContextsAreLeft
PROPERTIES EndedStaysEnded RequestsEnd LoginsEnd
CHECK_DEADLOCK FALSE
