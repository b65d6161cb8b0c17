--------------------------- MODULE MCSlidingWindow ---------------------------
\* Small instances of SlidingWindow for model checking; the .cfg files give
\* every constant its value.
EXTENDS SlidingWindow
=============================================================================
