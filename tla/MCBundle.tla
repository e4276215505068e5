---- MODULE MCBundle ----
EXTENDS Bundle
====
