----------------------------- MODULE MCQemuBoot -----------------------------
\* A guest that writes up to seven bytes of two letters, a marker of three that
\* overlaps itself, and a ring that holds three.
EXTENDS QemuBoot

MCMarker == <<"a", "b", "a">>
=============================================================================
