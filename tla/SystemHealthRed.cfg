SPECIFICATION Spec
CONSTANTS
  YellowEnterSustained = 2
  RedEnterSustained = 1
  YellowExitSustained = 2
  GreenExitSustained = 4
  MaxGap = 2
  Horizon = 4
PROPERTY RedIsSustained
