--------------------------- MODULE MCPythonWorker ---------------------------
(***************************************************************************)
(* What the repository's prose says of the worker and the code does not do.*)
(***************************************************************************)
EXTENDS PythonWorker

\* Every 200 of POST /run/python carries the outcome of the code it was sent
\* (xlpod.openapi.yaml, postRunPython: "Sends `code` to a long-running Python
\* worker process ... and returns its captured stdout/stderr").
AlwaysOwnAnswer ==
  \A c \in Calls : outcome[c] = "ok" => answerOf[c] = c
=============================================================================
