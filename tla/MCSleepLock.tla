---------------------------- MODULE MCSleepLock ----------------------------
EXTENDS SleepLock, TLC
=============================================================================
