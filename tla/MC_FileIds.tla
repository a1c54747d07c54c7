----------------------------- MODULE MC_FileIds -----------------------------
EXTENDS FileIds
=============================================================================
