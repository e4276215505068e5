---- MODULE MCHostCredential ----
EXTENDS HostCredential
====
