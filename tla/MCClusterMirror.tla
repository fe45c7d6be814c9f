-------------------------- MODULE MCClusterMirror --------------------------
EXTENDS ClusterMirror
=============================================================================
