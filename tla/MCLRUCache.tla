----------------------------- MODULE MCLRUCache -----------------------------
EXTENDS LRUCache, HandleTableLaws
=============================================================================
