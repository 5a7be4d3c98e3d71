----------------------------- MODULE MCFsClaims -----------------------------
EXTENDS FsClaims
=============================================================================
