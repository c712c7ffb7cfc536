CONSTANTS
  MaxToks = 12
  MaxOpts = 2
  IntVal = 7777
  CmdPort = 1234
  DefaultPort = 7890
  DefaultBaud = 9600
SPECIFICATION FairSpec
INVARIANT TypeOK
INVARIANT ConfigMatchesSpec
INVARIANT NoSpuriousDiagnostic
INVARIANT PortPrecedence
PROPERTY ParseTerminates
CHECK_DEADLOCK FALSE
