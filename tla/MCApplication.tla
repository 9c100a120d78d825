---------------------------- MODULE MCApplication ----------------------------
\* One content entry, a manual sync beside the automatic one, one release
\* published after the bundled one, one failure and one change by a request.
\* Entries are stored by statements of their own: one stands for any.
EXTENDS Application

MCCodes == {}
MCFragments == {"swiggy"}
=============================================================================
