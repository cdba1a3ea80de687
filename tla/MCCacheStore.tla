---- MODULE MCCacheStore ----
EXTENDS CacheStore

\* A helper that declares nothing, one that only stores, and a full one.
MCDeclared == {{}, {"put"}, {"get", "put", "close"}}
====
