---------------------------- MODULE MCDaytimeServers ----------------------------
EXTENDS DaytimeServers
================================================================================
