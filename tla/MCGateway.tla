------------------------------ MODULE MCGateway ------------------------------
EXTENDS Gateway

CONSTANTS h1, r1, r2, r3, none

NoneOrAi == {{}, {"ai"}}
\* r3 is for /launcher/version, which asks for no scope.
AiOrNone == [r \in Requests |-> IF r = r3 THEN None ELSE "ai"]
OfFirst == [r \in Requests |-> h1]

\* r1 stores a key, the others are ordinary calls.
OneKey == [r \in Requests |-> IF r = r1 THEN "set_key" ELSE "work"]
=============================================================================
