SPECIFICATION FairSpec
CONSTANTS
  mail = mail
  term = term
  mailTitle = mailTitle
  mailTitle2 = mailTitle2
  termTitle = termTitle
  App <- MCApp
  Title <- MCTitle
  Window <- MCWindow
  Login = Login
  NoApp = NoApp
  LoginTitle = LoginTitle
  Empty = Empty
  Unknown = Unknown
  NoTitle = NoTitle
  LoginWid = 9
  AllowZeroWid = TRUE
  CoalesceOn = TRUE
  StartMayFail = TRUE
  CacheCap = 2
  MaxSwitches = 2
  MaxErrors = 1
INVARIANTS
  TypeOK
  TitlesHaveOneOwner
  FollowsFocus

  
CHECK_DEADLOCK FALSE
