SPECIFICATION Spec
CONSTANTS
  ann = ann
  ben = ben
  kim = kim
  leo = leo
  bot = bot
  code = code
  Users = {ann, ben, kim, leo}
  Kefu <- Staff
  Assistant = bot
  Codes = {code}
  Scenarios <- All
  Handlers = {h1, h2}
INVARIANTS SocialInv NeverWhollyBarred
PROPERTIES ImplementsFriendship LikesHeld
CHECK_DEADLOCK FALSE
