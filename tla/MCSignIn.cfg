SPECIFICATION Spec
CONSTANTS
  w1 = w1
  w2 = w2
  NoWallet = NoWallet
  Wallets = {w1, w2}
  Nonces <- MCNonces
  MaxVerifying = 2
  ChallengeTtl = 1
  SessionTtl = 2
  MaxTime = 3
INVARIANTS
  OneSessionPerChallenge
  ScreenIsTheirs
  SessionLasts
CHECK_DEADLOCK FALSE
