---------------------------- MODULE MCRumblePath ----------------------------
EXTENDS RumblePath
=============================================================================
