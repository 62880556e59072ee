------------------------------ MODULE MCSignIn ------------------------------
EXTENDS SignIn

CONSTANTS w1, w2

MCNonces == 1..2

=============================================================================
