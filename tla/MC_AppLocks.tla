---------------------------- MODULE MC_AppLocks -----------------------------
EXTENDS AppLocks

\* POST /bridges/reply next to any handler that reads the store.
RepliesAndStatus == BridgeReply \cup SqliteOnly
=============================================================================
