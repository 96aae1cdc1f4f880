----------------------------- MODULE MCMessages -----------------------------
EXTENDS Messages

\* Reads beside pushes; reads beside syncs; syncs beside pushes; sends beside
\* syncs; sends and recalls with a replaced session; automatic replies beside a
\* takeover, other devices, and a person who answers.
S(ops, types, max) == [ops |-> ops, types |-> types, max |-> max]
MCScenarios ==
    {S({"device", "read", "shared", "break"}, {"text"}, 3),
     S({"read", "loop", "history"}, {"text", "audio"}, 2),
     S({"device", "loop", "page", "break"}, {"text"}, 2),
     S({"text", "loop", "history"}, {"text"}, 2),
     S({"text", "image", "plain", "recall", "break"}, {"text"}, 2),
     S({"auto", "takeover", "break"}, {"text", "audio"}, 2),
     S({"auto", "takeover", "device"}, {"text"}, 3),
     S({"auto", "history", "text"}, {"text"}, 2)}
=============================================================================
