---------------------------- MODULE MCFsyncChannel ----------------------------
EXTENDS FsyncChannel
===============================================================================
