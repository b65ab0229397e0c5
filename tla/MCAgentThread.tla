--------------------------- MODULE MCAgentThread ---------------------------
(* Small instances of AgentThread.                                          *)
EXTENDS AgentThread

CONSTANTS k, t1

Message(key, delegate, token) == [key |-> key, delegate |-> delegate, token |-> token]

\* A delegate's message, and its answers to a question: by token, or by asking
\* again; a message of the app's own chat, retried under its key.
Mixed == {Message(None, TRUE, None), Message(None, TRUE, t1), Message(k, FALSE, None)}
=============================================================================
