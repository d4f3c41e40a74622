---- MODULE MCFullyAsync ----
EXTENDS FullyAsync
====
