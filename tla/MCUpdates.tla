----------------------------- MODULE MCUpdates -----------------------------
EXTENDS Updates
\* The second version keeps the first one's layout; each later one has its own.
MCLayoutOf == <<1, 1, 2, 3>>
=============================================================================
