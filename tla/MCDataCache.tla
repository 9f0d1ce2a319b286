---------------------------- MODULE MCDataCache ----------------------------
EXTENDS DataCache

\* The properties say nothing more once the cache has been disturbed: such a
\* state is checked, and not explored further.
Undisturbed == ~disturbed
=============================================================================
