CONSTANTS
  Tabs = {"t1", "t2"}
  Mixins = {"oauth", "twitter", "google", "openid", "facebook", "facebookgraph"}
SPECIFICATION FairSpec
INVARIANT LoginsGiveTheirUser
PROPERTY LoginsEnd
CHECK_DEADLOCK FALSE
