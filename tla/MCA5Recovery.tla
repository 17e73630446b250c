--------------------------- MODULE MCA5Recovery ---------------------------
\* A plan of two programs, requested up to four times.
EXTENDS A5Recovery
=============================================================================
