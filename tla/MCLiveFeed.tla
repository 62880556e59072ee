----------------------------- MODULE MCLiveFeed -----------------------------
EXTENDS LiveFeed, TLC

CONSTANT s1

=============================================================================
