---------------------------- MODULE MCORShuffle ----------------------------
EXTENDS ORShuffle
=============================================================================
