------------------------------ MODULE MCProcess -------------------------------
\* Two operators, who may disturb each other, and up to two adapters at a time.
EXTENDS Process

CONSTANTS p1, p2, o1, o2
=============================================================================
