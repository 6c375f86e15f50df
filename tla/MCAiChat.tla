------------------------------ MODULE MCAiChat ------------------------------
EXTENDS AiChat

CONSTANTS c1, c2, s1, s2, r1

\* Two chats of one session.
Shared == [c \in Chats |-> s1]
\* A session for each of two chats.
Apart  == (c1 :> s1) @@ (c2 :> s2)

FullToken  == {{"fs:read", "ai:provider:call", "ai:exec:python"}}
TwoTokens  == FullToken \cup {{"fs:read", "ai:provider:call"}}

Typed == [role |-> "user", uses |-> <<>>]
\* The usual body: what the user typed.
JustTyped == {<<Typed>>}
\* An empty one, and one that replays a tool use of another conversation.
AnyBody ==
  {<<>>, <<[role |-> "assistant", uses |-> <<"run_python">>], Typed>>}
=============================================================================
