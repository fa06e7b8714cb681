\* Decisions submitted through the API with an identifier or without one.
SPECIFICATION Spec
CONSTANTS
  Request = {"r1", "r2"}
  Delegation = {"d1"}
  Identifier = {"", "i1"}
  Option = {"release", "stop", "unheard"}
  Word = {"yes", " "}
  Blank = " "
  ProjectOf <- MCProjectOf
  Offered <- MCOffered
  Null = Null
PROPERTIES AnswersStand
